-------------------------------- MODULE Shell --------------------------------
(***************************************************************************)
(* The user-space shell (src/programs/shell/src/shell.c) and the parts of   *)
(* its stdlib it runs through (src/programs/stdlib/src/bimbleos.c and      *)
(* string.c), composed with the kernel heap its mallocs come from.         *)
(*                                                                         *)
(* The shell loops: bimbleos_terminal_realine reads a line from the keys   *)
(* typed, bimbleos_system_run splits it with bimbleos_parse_command into a *)
(* list of CommandArgument, one malloc per word, and hands the list to     *)
(* bimbleos_system.  strtok keeps its position in the static sp between    *)
(* calls.  A malloc of the shell is a system call that allocates from the  *)
(* kernel heap (process_malloc; process.c is not in the repository, and    *)
(* spec.md says it records the allocation for the process).  The rest of  *)
(* the system allocates and frees on the same heap (module Heap) at any    *)
(* time: a timer interrupt can preempt the shell between two mallocs.      *)
(*                                                                         *)
(* Characters are one-character strings; "NUL" is the terminator, "BS"   *)
(* and "CR" are keys 0x08 and 0x0D.  scommand is a function from C index *)
(* to byte.                                                                *)
(***************************************************************************)
EXTENDS Naturals, Integers, Sequences, SequencesExt, FiniteSets

CONSTANTS
  LineMax,    \* sizeof(buff) of main = max of realine = sizeof(buf) of system_run
  ArgMax,     \* sizeof(((struct CommandArgument *)0)->argument)
  ArgBytes,   \* sizeof(struct CommandArgument)
  Inputs,     \* key sequences the user may type
  Fill,       \* bytes a stale stack location may hold
  NBlocks, BlockSize, HeapAddress, HeapSizeBytes, Sizes, MaxLive,
                                        \* the kernel heap (module Heap)
  NULL

VARIABLES
  keys,        \* keystrokes typed and not yet read
  pc,          \* "read", or the malloc parse_command is about to make
  scommand,    \* parse_command's copy of the line, as strtok leaves it
  sp,          \* strtok's static pointer: NULL or an index into scommand
  token,       \* the token strtok returned last
  cmd,         \* the command being parsed: its line, its arguments so far,
               \* whether sp was NULL when the parse began, whether a
               \* malloc failed (observation only)
  ran,         \* the last command bimbleos_system_run finished (observation)
  shell_ptrs,  \* ids of the heap allocations the shell made
  entries, live, halted

H == INSTANCE Heap

shellVars == <<keys, pc, scommand, sp, token, cmd, ran, shell_ptrs>>
vars == <<keys, pc, scommand, sp, token, cmd, ran, shell_ptrs, entries, live, halted>>

NUL == "NUL"
BS == "BS"
CR == "CR"

(***************************************************************************)
(* bimbleos.c and string.c                                                 *)
(***************************************************************************)

\* The loop of bimbleos_terminal_realine over the keys: a carriage return
\* ends the line, a backspace after the first column erases the previous
\* character, any other key (a backspace in the first column too) is
\* stored; the loop ends when max - 1 characters are stored.  NULL when the
\* keys run out first: bimbleos_getkeyblock waits for the next key.
RECURSIVE RealineLoop(_, _)
RealineLoop(line, ks) ==
  CASE Len(line) >= LineMax - 1           -> [line |-> line, rest |-> ks]
    [] ks = <<>>                          -> NULL
    [] Head(ks) = CR                      -> [line |-> line, rest |-> Tail(ks)]
    [] Head(ks) = BS /\ Len(line) >= 1    -> RealineLoop(SubSeq(line, 1, Len(line) - 1), Tail(ks))
    [] OTHER                              -> RealineLoop(Append(line, Head(ks)), Tail(ks))

\* A byte of scommand; the memory after the array reads as NUL.
Byte(b, k) == IF k \in DOMAIN b THEN b[k] ELSE NUL

\* strtok's first loop: skip the delimiters " ".
RECURSIVE SkipDelims(_, _)
SkipDelims(b, p) == IF Byte(b, p) = " " THEN SkipDelims(b, p + 1) ELSE p

\* strtok's second loop: the index of the NUL or delimiter ending the token.
RECURSIVE TokenEnd(_, _)
TokenEnd(b, p) == IF Byte(b, p) \in {NUL, " "} THEN p ELSE TokenEnd(b, p + 1)

\* strtok(str, " ") with str non-NULL (fresh) or NULL: sp is set to str only
\* when sp is NULL; the first delimiter after the token is overwritten with
\* NUL and sp is left after it, or on the terminator.
Strtok(b, fresh) ==
  IF ~fresh /\ sp = NULL THEN [buf |-> b, sp |-> NULL, token |-> NULL]
  ELSE LET p == SkipDelims(b, IF sp = NULL THEN 0 ELSE sp)
           e == TokenEnd(b, p)
       IN  CASE Byte(b, p) = NUL -> [buf |-> b, sp |-> NULL, token |-> NULL]
             [] Byte(b, e) = " " -> [buf |-> [b EXCEPT ![e] = NUL], sp |-> e + 1, token |-> p]
             [] OTHER            -> [buf |-> b, sp |-> e, token |-> p]

\* Seeded fault: n characters are copied, with no room kept for the NUL.
RECURSIVE StrncpyNoNul(_, _, _)
StrncpyNoNul(b, p, n) ==
  IF n <= 0 \/ Byte(b, p) = NUL THEN <<>> ELSE <<b[p]>> \o StrncpyNoNul(b, p + 1, n - 1)

\* strncpy(dest, src, n): at most n - 1 characters of the string at p.
RECURSIVE Strncpy(_, _, _)
Strncpy(b, p, n) ==
  IF n <= 1 \/ Byte(b, p) = NUL THEN <<>> ELSE <<b[p]>> \o Strncpy(b, p + 1, n - 1)

\* strncpy(scommand, command, sizeof(scommand)): the line and its NUL; the
\* bytes after it are whatever the stack held there.
CopyLine(line, tail) ==
  [k \in 0 .. LineMax |-> IF k < Len(line) THEN line[k + 1]
                          ELSE IF k = Len(line) THEN NUL ELSE tail[k]]

\* The stack bytes after the copied line: only read when a stale sp points
\* past the terminator, so left as NUL when sp is NULL.
Tails(line) ==
  IF sp = NULL THEN {[k \in Len(line) + 1 .. LineMax |-> NUL]}
  ELSE [Len(line) + 1 .. LineMax -> Fill]

(***************************************************************************)
(* Operations                                                              *)
(***************************************************************************)

Init ==
  /\ keys \in Inputs
  /\ pc = "read"
  /\ scommand = [k \in 0 .. LineMax |-> NUL]
  /\ sp = NULL
  /\ token = NULL
  /\ cmd = NULL
  /\ ran = NULL
  /\ shell_ptrs = {}
  /\ H!Init

\* bimbleos_system_run ends: -1 when there is no root argument, else the
\* list goes to bimbleos_system; the shell loops to the next prompt.
Finish(c) == /\ ran' = c
             /\ pc' = "read"

\* One turn of main's loop up to the first malloc: bimbleos_terminal_realine,
\* then bimbleos_system_run's strncpy and bimbleos_parse_command's strncpy
\* and first strtok (its check max >= sizeof(scommand) compares 1024 with
\* 1025 and never fails).  No token ends the command with -1.
Realine ==
  LET r == RealineLoop(<<>>, keys)
  IN  /\ pc = "read"
      /\ r # NULL
      /\ keys' = r.rest
      /\ \E tail \in Tails(r.line) :
           LET t == Strtok(CopyLine(r.line, tail), TRUE)
               c == [line |-> r.line, args |-> <<>>, fresh |-> sp = NULL, failed |-> FALSE]
           IN  /\ scommand' = t.buf
               /\ sp' = t.sp
               /\ token' = t.token
               /\ cmd' = c
               /\ IF t.token = NULL THEN Finish(c) ELSE pc' = "root" /\ UNCHANGED ran
      /\ UNCHANGED <<shell_ptrs, entries, live, halted>>

\* A malloc of a CommandArgument; on success the token is copied into it
\* and the next strtok(NULL, " ") is made; the list goes to bimbleos_system
\* when strtok returns NULL.  A failed malloc of the root returns NULL (-1);
\* a failed malloc of a later argument breaks the loop and runs the list
\* built so far.  Neither resets strtok's sp.
MallocArgument ==
  /\ pc \in {"root", "arg"}
  /\ H!Kmalloc(ArgBytes)
  /\ IF live' = live
       THEN LET c == [cmd EXCEPT !.failed = TRUE]
            IN  /\ Finish(c)
                /\ cmd' = c
                /\ UNCHANGED <<scommand, sp, token, shell_ptrs>>
       ELSE LET t == Strtok(scommand, FALSE)
                c == [cmd EXCEPT !.args = Append(@, Strncpy(scommand, token, ArgMax))]
            IN  /\ shell_ptrs' = shell_ptrs \cup {a.id : a \in live' \ live}
                /\ scommand' = t.buf
                /\ sp' = t.sp
                /\ token' = t.token
                /\ cmd' = c
                /\ IF t.token = NULL THEN Finish(c) ELSE pc' = "arg" /\ UNCHANGED ran
  /\ UNCHANGED keys

\* The rest of the system allocates and frees on the kernel heap.
OtherKmalloc == \E size \in Sizes : H!Kmalloc(size) /\ UNCHANGED shellVars
OtherKfree == \E a \in live : a.id \notin shell_ptrs /\ H!Kfree(a) /\ UNCHANGED shellVars

Next == Realine \/ MallocArgument \/ OtherKmalloc \/ OtherKfree

Spec == Init /\ [][Next]_vars

(***************************************************************************)
(* Properties                                                              *)
(***************************************************************************)

\* Reference: the words of a line are its maximal runs of non-spaces.
WordStarts(s) == {k \in DOMAIN s : s[k] # " " /\ (k = 1 \/ s[k - 1] = " ")}
WordAt(s, k) ==
  LET e == CHOOSE e \in k .. Len(s) : (\A j \in k .. e : s[j] # " ") /\ (e = Len(s) \/ s[e + 1] = " ")
  IN  SubSeq(s, k, e)
Words(s) ==
  LET st == SetToSortSeq(WordStarts(s), <)
  IN  [n \in DOMAIN st |-> LET w == WordAt(s, st[n]) IN SubSeq(w, 1, Min({Len(w), ArgMax - 1}))]

TypeOK ==
  /\ pc \in {"read", "root", "arg"}
  /\ sp \in (0 .. LineMax + 1) \cup {NULL}
  /\ shell_ptrs \subseteq 1 .. MaxLive
  /\ H!TypeOK

\* A command whose parse began with strtok's sp NULL runs with the words of
\* the line realine returned, in order, each cut to sizeof(argument) - 1
\* characters: all of them when every malloc succeeded, the first ones when
\* one failed, none (system_run returns -1) for a blank line.
CommandIsLineWords ==
  ran # NULL /\ ran.fresh =>
    /\ IsPrefix(ran.args, Words(ran.line))
    /\ ~ran.failed => ran.args = Words(ran.line)

NoOverlap == H!NoOverlap
LiveBlocksTaken == H!LiveBlocksTaken
MallocIsFirstFit == H!MallocIsFirstFit
FreeReleasesExactlyItsBlocks == H!FreeReleasesExactlyItsBlocks
====
