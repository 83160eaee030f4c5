----------------------------- MODULE PathParser -----------------------------
(***************************************************************************)
(* pathparser_parse of src/fs/pparser.c as operators.  A path is a        *)
(* sequence of one-character strings; its end is the terminating NUL.    *)
(* The PathPart list is the sequence of its parts.  The only caller is    *)
(* fopen (module FileTable); nothing calls pathparser_free.               *)
(***************************************************************************)
EXTENDS Naturals, Sequences, SequencesExt

CONSTANTS
  MaxPath,   \* BIMBLEOS_MAX_PATH
  Paths,     \* paths checked against the reference
  NULL

Digits == {"0", "1", "2", "3", "4", "5", "6", "7", "8", "9"}

\* to_numeric_digit
DigitValue(c) == CHOOSE n \in 0 .. 9 : SubSeq("0123456789", n + 1, n + 1) = c

\* pathparser_path_valid_format: at least 3 characters, a digit, then ":/".
PathparserPathValidFormat(p) ==
  /\ Len(p) >= 3
  /\ p[1] \in Digits
  /\ p[2] = ":" /\ p[3] = "/"

\* The while loop of pathparser_get_path_part: characters up to '/' or NUL.
RECURSIVE TakePart(_)
TakePart(s) == IF s = <<>> \/ Head(s) = "/" THEN <<>> ELSE <<Head(s)>> \o TakePart(Tail(s))

\* Seeded fault: the '/' after a part is not skipped.
PathparserGetPathPartNoSkip(s) ==
  LET part == TakePart(s)
  IN  [part |-> IF part = <<>> THEN NULL ELSE part,
       rest |-> SubSeq(s, Len(part) + 1, Len(s))]

\* pathparser_get_path_part: the part, and the path after it and after one
\* '/' that follows it; an empty part is freed and NULL returned.
PathparserGetPathPart(s) ==
  LET part == TakePart(s)
      after == SubSeq(s, Len(part) + 1, Len(s))
  IN  [part |-> IF part = <<>> THEN NULL ELSE part,
       rest |-> IF after # <<>> /\ Head(after) = "/" THEN Tail(after) ELSE after]

\* pathparser_parse_path_part, called until it returns NULL.
RECURSIVE PathparserParseParts(_)
PathparserParseParts(s) ==
  LET r == PathparserGetPathPart(s)
  IN  IF r.part = NULL THEN <<>> ELSE <<r.part>> \o PathparserParseParts(r.rest)

\* pathparser_create_root
PathparserCreateRoot(drive, parts) == [drive_no |-> drive, parts |-> parts]

\* pathparser_parse: NULL for a path longer than BIMBLEOS_MAX_PATH or not of
\* the form digit ":/"; otherwise a root for the drive whose parts are
\* parsed from the fourth character on (none for "0:/").
PathparserParse(p) ==
  IF Len(p) > MaxPath \/ ~PathparserPathValidFormat(p) THEN NULL
  ELSE PathparserCreateRoot(DigitValue(p[1]), PathparserParseParts(SubSeq(p, 4, Len(p))))

(***************************************************************************)
(* Reference: a path's parts are its '/'-separated segments, cut at the    *)
(* first empty one.                                                        *)
(***************************************************************************)

Cuts(s) == <<0>> \o SetToSortSeq({i \in 1 .. Len(s) : s[i] = "/"}, <) \o <<Len(s) + 1>>

Segments(s) ==
  LET c == Cuts(s)
  IN  [k \in 1 .. Len(c) - 1 |-> SubSeq(s, c[k] + 1, c[k + 1] - 1)]

UpToFirstEmpty(segs) ==
  LET empty == {k \in DOMAIN segs : segs[k] = <<>>}
  IN  IF empty = {} THEN segs ELSE SubSeq(segs, 1, Min(empty) - 1)

\* pathparser_parse returns, for every path of at most MaxPath characters
\* that starts with a drive digit and ":/", the segments between slashes
\* up to the first empty one ("0:/a//b" is "a"), and NULL for every other
\* path.
ParseAgrees ==
  \A path \in Paths :
    PathparserParse(path) =
      IF Len(path) > MaxPath \/ Len(path) < 3 \/ path[1] \notin Digits
         \/ SubSeq(path, 2, 3) # <<":", "/">>
        THEN NULL
        ELSE [drive_no |-> DigitValue(path[1]),
              parts    |-> UpToFirstEmpty(Segments(SubSeq(path, 4, Len(path))))]
====
