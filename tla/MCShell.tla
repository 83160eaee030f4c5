------------------------------- MODULE MCShell -------------------------------
(* A 5-byte line buffer (4 characters and the NUL) and 2-byte arguments, so *)
(* that a long line is split and a long word is cut; the shell's mallocs    *)
(* and the other kmalloc callers share a four-block heap.                  *)
EXTENDS Shell

\* Key sequences: two commands in a row; a backspace in the first column
\* and a line longer than the buffer, whose rest is the next command; a
\* backspace after a character, doubled spaces and a word longer than an
\* argument, then the carriage return alone (a blank line).
MCInputs == {
  <<"a", " ", "b", "CR", "b", "CR">>,
  <<"BS", " ", "a", "b", "a", "CR">>,
  <<"a", "b", "BS", " ", " ", "b", "CR">>
}

MCFill == {"NUL", " ", "a"}
====
