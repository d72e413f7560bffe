--------------------------- MODULE BestEffortLog ---------------------------
(***************************************************************************)
(* What log shipping promises to the code that logs, with nothing said of  *)
(* slices, goroutines or the order of batches ("it never blocks, never     *)
(* panics, and drops the oldest lines on overflow", logs.go:9-10; "A       *)
(* failed batch is retried once, then dropped and counted",                *)
(* logs.go:175-176):                                                       *)
(*   - a line is accepted at any time; when memory is full the oldest      *)
(*     waiting line is given up for it, and counted;                       *)
(*   - waiting lines are handed to the network all at once, each once;     *)
(*   - a POST is answered, which settles its lines, or fails; lines whose  *)
(*     POST has failed before, or that no POST can carry, are given up,    *)
(*     and counted.                                                        *)
(* The server may have stored the lines of a POST that failed.             *)
(***************************************************************************)
EXTENDS Naturals, FiniteSets

CONSTANT Lines  \* the lines that may ever be logged

VARIABLES
  accepted,  \* how many lines were accepted so far
  waiting,   \* the lines in memory that wait to be posted
  posting,   \* the lines handed to the network and not settled
  failed,    \* those among them whose first POST failed
  shipped,   \* the lines whose POST was answered
  lost,      \* how many lines were given up
  copies     \* how often the server stored each line

logVars == <<accepted, waiting, posting, failed, shipped, lost, copies>>

Init ==
  /\ accepted = 0
  /\ waiting = {}
  /\ posting = {}
  /\ failed = {}
  /\ shipped = {}
  /\ lost = 0
  /\ copies = [n \in Lines |-> 0]

Accept ==
  /\ accepted' = accepted + 1
  /\ \/ /\ waiting' = waiting \cup {accepted + 1}
        /\ UNCHANGED lost
     \/ \E oldest \in waiting :
          /\ \A n \in waiting : oldest <= n
          /\ waiting' = (waiting \ {oldest}) \cup {accepted + 1}
          /\ lost' = lost + 1
  /\ UNCHANGED <<posting, failed, shipped, copies>>

HandOver ==
  /\ posting' = posting \cup waiting
  /\ waiting' = {}
  /\ UNCHANGED <<accepted, failed, shipped, lost, copies>>

Stored(batch) == copies' = [n \in Lines |-> IF n \in batch THEN copies[n] + 1 ELSE copies[n]]

Settled(batch) ==
  /\ posting' = posting \ batch
  /\ failed' = failed \ batch

Ship(batch) ==
  /\ batch \subseteq posting
  /\ Stored(batch)
  /\ shipped' = shipped \cup batch
  /\ Settled(batch)
  /\ UNCHANGED <<accepted, waiting, lost>>

\* The first failure of a POST: its lines will be posted once more.
Fail(batch) ==
  /\ batch \subseteq posting \ failed
  /\ Stored(batch) \/ UNCHANGED copies
  /\ failed' = failed \cup batch
  /\ UNCHANGED <<accepted, waiting, posting, shipped, lost>>

\* The second failure, or no POST at all.
GiveUp(batch) ==
  /\ \/ batch \subseteq failed /\ (Stored(batch) \/ UNCHANGED copies)
     \/ batch \subseteq posting \ failed /\ UNCHANGED copies
  /\ lost' = lost + Cardinality(batch)
  /\ Settled(batch)
  /\ UNCHANGED <<accepted, waiting, shipped>>

Next ==
  \/ Accept
  \/ HandOver
  \/ \E batch \in SUBSET posting : Ship(batch) \/ Fail(batch) \/ GiveUp(batch)

Spec == Init /\ [][Next]_logVars
=============================================================================
