----------------------------- MODULE ConsoleLog -----------------------------
(***************************************************************************)
(* The screen and --console-log's copy of it (cmd/qvd2parquet/console.go):  *)
(* the run and the goroutine of the signal handler print, before it is known *)
(* whether there will be a file, while it is created and after that.       *)
(*                                                                         *)
(* A message is its number and its length.                                 *)
(***************************************************************************)
EXTENDS Integers, Sequences, SequencesExt

CONSTANTS
  Sizes,       \* lengths a message can have
  Limit,       \* pendingLimit
  MaxLines     \* bound: messages

VARIABLES
  stage,     \* "guards", "creating", "running" or "closed": where the run is
  screen,    \* what was printed
  file,      \* what the file holds
  open,      \* c.f is not nil
  pending,   \* held for the file
  settled,   \* nothing is held any more
  dropped,   \* the bytes that were not held
  told,      \* what the reader is told is missing: "start missing", "ends early"
  unplayed   \* history: what was held could not be written as the file was opened

vars == <<stage, screen, file, open, pending, settled, dropped, told, unplayed>>

Message == [nr : 1 .. MaxLines, size : Sizes]
Size(s) ==
  LET upTo[n \in 0 .. Len(s)] == IF n = 0 THEN 0 ELSE upTo[n - 1] + s[n].size IN upTo[Len(s)]

TypeOK ==
  /\ stage \in {"guards", "creating", "running", "closed"}
  /\ screen \in Seq(Message) /\ file \in Seq(Message) /\ pending \in Seq(Message)
  /\ {open, settled, unplayed} \subseteq BOOLEAN
  /\ dropped \in Nat
  /\ told \subseteq {"start missing", "ends early"}
  /\ Size(pending) <= Limit
  /\ open => settled

Init ==
  /\ stage = "guards"
  /\ screen = <<>> /\ file = <<>> /\ pending = <<>>
  /\ open = FALSE /\ settled = FALSE /\ dropped = 0
  /\ told = {} /\ unplayed = FALSE

\* Mutant: the file that cannot be written stays open.
KeepOpen == UNCHANGED <<open, told>>

\* A file that cannot be written is given up, and the screen says so.
GiveUpFile == open' = FALSE /\ told' = told \cup {"ends early"}

\* What does not fit is only counted.
Hold(m) ==
  IF Size(pending) + m.size <= Limit
    THEN pending' = Append(pending, m) /\ UNCHANGED dropped
    ELSE dropped' = dropped + m.size /\ UNCHANGED pending

\* Write, under the lock: the screen, and the file or what is held for it.
Write ==
  /\ Len(screen) < MaxLines
  /\ \E size \in Sizes : LET m == [nr |-> Len(screen) + 1, size |-> size] IN
       /\ screen' = Append(screen, m)
       /\ \/ /\ ~open /\ ~settled
             /\ Hold(m)
             /\ UNCHANGED <<file, open, told>>
          \/ ~open /\ settled /\ UNCHANGED <<file, open, told, pending, dropped>>
          \/ /\ open
             /\ file' = Append(file, m)
             /\ UNCHANGED <<open, told, pending, dropped>>
          \/ open /\ GiveUpFile /\ UNCHANGED <<file, pending, dropped>>
  /\ UNCHANGED <<stage, settled, unplayed>>

Settle == pending' = <<>> /\ settled' = TRUE /\ dropped' = 0

\* startConsoleLog: no file is asked for, or one that must not be written.
Discard ==
  /\ stage \in {"guards", "creating"}
  /\ stage' = "running"
  /\ Settle
  /\ UNCHANGED <<screen, file, open, told, unplayed>>

\* attach creates the file before it takes the lock; it fails by Discard.
CreateFile ==
  /\ stage = "guards" /\ stage' = "creating"
  /\ UNCHANGED <<screen, file, open, pending, settled, dropped, told, unplayed>>

\* What was held goes in first. Errors of writing it are not looked at: the file
\* is then kept open without its start.
Attach ==
  /\ stage = "creating" /\ stage' = "running"
  /\ open' = TRUE
  /\ told' = IF dropped > 0 THEN {"start missing"} ELSE {}
  /\ \/ file' = pending /\ UNCHANGED unplayed
     \/ file' = <<>> /\ unplayed' = (pending # <<>>)
  /\ Settle
  /\ UNCHANGED screen

Close ==
  /\ stage = "running" /\ stage' = "closed"
  /\ open' = FALSE
  /\ UNCHANGED <<screen, file, pending, settled, dropped, told, unplayed>>

Next == Write \/ Discard \/ CreateFile \/ Attach \/ Close

Spec == Init /\ [][Next]_vars
-----------------------------------------------------------------------------
\* "So the file holds what the screen held" and "two goroutines cannot land in one
\* order on the screen and the other in the file": what is or will be in the file
\* are messages of the screen, each once and in its order; and the file is the
\* screen from its first line to where the screen says that it ends, unless it says
\* itself that its start is missing, or the share refused what was held, which
\* nothing says.
HoldsTheScreen ==
  /\ LET log == file \o pending
     IN  \A k \in DOMAIN log :
           log[k] \in ToSet(screen) /\ (k > 1 => log[k - 1].nr < log[k].nr)
  /\ "start missing" \notin told /\ ~unplayed =>
       IsPrefix(file, screen) /\ (open => file = screen)
=============================================================================
