------------------------------ MODULE EchoStream ------------------------------
(***************************************************************************)
(* stream_echo: the launcher prints messages, each of some lines and a     *)
(* separator, until it is killed.  A thread moves the lines from the pipe  *)
(* to a queue, and _collect cuts the queue into documents until there are  *)
(* enough of them, the deadline has come or the output has ended.          *)
(*                                                                         *)
(* A line is its length, the separator is 0.  Lines are named by their     *)
(* number in `printed`: the pipe holds pumped + 1 .. Len(printed), the     *)
(* queue holds taken + 1 .. pumped and, once the thread ended, None.       *)
(***************************************************************************)
EXTENDS ProcessTree, Sequences, Integers

CONSTANTS Budget,      \* deadline_s, in ticks
          ExitWait,    \* _JOIN_TIMEOUT_SEC given to a process without output
          Wanted,      \* count
          MaxChars,    \* max_document_chars
          LineLengths, \* the lengths a line may have
          PipeLines,   \* what the pipe holds before its writer blocks
          MaxLines     \* bound on the lines printed

ASSUME EchoAssumption ==
  /\ {Budget, ExitWait, Wanted, MaxChars, MaxLines} \subseteq Nat
  /\ LineLengths \subseteq Nat \ {0}
  /\ PipeLines \in Nat \ {0}

Separator == 0

VARIABLES printed,    \* the lines printed so far
          pumped,     \* how many the thread moved to the queue
          taken,      \* how many _collect took from it
          current,    \* the lines of the message being collected
          size, dropping,
          documents,  \* run.documents, each the lines it was made of
          oversized,  \* run.oversized
          exited      \* run.exit_code is not None

collector == <<taken, current, size, dropping, documents, oversized, exited>>
echoVars  == <<printed, pumped, collector>>

EchoInit ==
  /\ printed = <<>> /\ pumped = 0 /\ taken = 0
  /\ current = <<>> /\ size = 0 /\ dropping = FALSE
  /\ documents = <<>> /\ oversized = 0
  /\ exited = FALSE

Prints(line) ==
  /\ holds["out"] # {}
  /\ Len(printed) < MaxLines /\ Len(printed) - pumped < PipeLines
  /\ printed' = Append(printed, line)
  /\ UNCHANGED <<tree, pumped, collector>>

PumpLine ==
  /\ "out" \in reading /\ pumped < Len(printed)
  /\ pumped' = pumped + 1
  /\ UNCHANGED <<tree, printed, collector>>

StdoutEnds == pumped = Len(printed) /\ ThreadEnds("out") /\ UNCHANGED echoVars
StderrEnds == ThreadEnds("err") /\ UNCHANGED echoVars

-----------------------------------------------------------------------------
EchoStart == Started("collect", Budget) /\ UNCHANGED echoVars

EchoFails == StartFails /\ UNCHANGED echoVars

Collecting == pc = "collect" /\ Len(documents) < Wanted /\ ~Expired

(* Enough documents, or no time left: what is in the queue stays there.    *)
CollectStops ==
  /\ pc = "collect" /\ ~Collecting
  /\ Goes("interrupt")
  /\ UNCHANGED <<processes, reaped, reading, elapsed, signalled, echoVars>>

Ends_keepsDropping ==
  /\ documents' = IF dropping THEN documents ELSE Append(documents, current)
  /\ current' = <<>> /\ size' = 0 /\ dropping' = dropping
  /\ oversized' = oversized

Ends_keepsSize ==
  /\ documents' = IF dropping THEN documents ELSE Append(documents, current)
  /\ current' = <<>> /\ size' = size /\ dropping' = FALSE
  /\ oversized' = oversized

Ends ==
  /\ documents' = IF dropping THEN documents ELSE Append(documents, current)
  /\ current' = <<>> /\ size' = 0 /\ dropping' = FALSE
  /\ oversized' = oversized

Grows(line, i) ==
  LET longer == size + line IN
  /\ size' = longer
  /\ dropping' = (longer > MaxChars)
  /\ current' = IF longer > MaxChars THEN <<>> ELSE Append(current, i)
  /\ oversized' = IF longer > MaxChars THEN oversized + 1 ELSE oversized
  /\ documents' = documents

CollectLine ==
  /\ Collecting /\ taken < pumped
  /\ taken' = taken + 1
  /\ LET line == printed[taken + 1] IN
       IF line = Separator THEN Ends
       ELSE IF dropping THEN UNCHANGED <<current, size, dropping, documents, oversized>>
       ELSE Grows(line, taken + 1)
  /\ UNCHANGED <<tree, printed, pumped, exited>>

(* None: the process may still run, and is given a moment to exit.         *)
CollectEnds ==
  /\ Collecting /\ taken = pumped /\ "out" \notin reading
  /\ pc' = "exitWait" /\ until' = elapsed + ExitWait
  /\ UNCHANGED <<processes, reaped, reading, elapsed, signalled, echoVars>>

EchoExit_afterKill ==
  /\ pc = "exitWait"
  /\ WaitLauncher("interrupt", "interrupt")
  /\ exited' = TRUE
  /\ UNCHANGED <<printed, pumped, taken, current, size, dropping, documents, oversized>>

EchoExit ==
  /\ pc = "exitWait"
  /\ WaitLauncher("interrupt", "interrupt")
  /\ exited' = reaped'
  /\ UNCHANGED <<printed, pumped, taken, current, size, dropping, documents, oversized>>

EchoStop == Stop /\ UNCHANGED echoVars

EchoReturns == JoinErr /\ UNCHANGED echoVars

Echo == EchoStart \/ EchoFails \/ CollectStops \/ CollectLine \/ CollectEnds
        \/ EchoExit \/ EchoStop \/ EchoReturns

EchoBlocked ==
  \/ Collecting /\ taken = pumped /\ "out" \in reading
  \/ pc = "exitWait" /\ Launcher \in up /\ ~Expired
  \/ StopBlocked

EchoTick == EchoBlocked /\ TimePasses /\ UNCHANGED echoVars

EchoReader == PumpLine \/ StdoutEnds \/ StderrEnds

EchoNext ==
  \/ Behave /\ UNCHANGED echoVars
  \/ \E line \in LineLengths \cup {Separator} : Prints(line)
  \/ EchoReader
  \/ Echo
  \/ EchoTick

EchoSpec == TreeInit /\ EchoInit /\ [][EchoNext]_<<tree, echoVars>>

-----------------------------------------------------------------------------
EchoTypeOK ==
  /\ printed \in Seq(LineLengths \cup {Separator})
  /\ taken \in 0..pumped /\ pumped \in 0..Len(printed)
  /\ size \in Nat /\ (~dropping => size <= MaxChars)
  /\ dropping \in BOOLEAN /\ exited \in BOOLEAN
  /\ oversized \in 0..MaxLines
  /\ Len(documents) <= Wanted

(* The message that ends, or would end, before line i.                     *)
MessageStart(i) ==
  LET before == {j \in 1..(i - 1) : printed[j] = Separator}
  IN IF before = {} THEN 1 ELSE 1 + CHOOSE j \in before : \A k \in before : k <= j

(* The characters of the first n lines.                                    *)
Chars(n) ==
  LET upTo[k \in 0..Len(printed)] == IF k = 0 THEN 0 ELSE upTo[k - 1] + printed[k]
  IN  upTo[n]

Fits(i) == Chars(i - 1) - Chars(MessageStart(i) - 1) <= MaxChars

Complete == {i \in 1..taken : printed[i] = Separator}

(* The documents are the messages read so far that fit, whole, in order    *)
(* and none twice; every other one, the one being read included, is        *)
(* counted as oversized once.  An exit code is only given when that is     *)
(* all the process printed, and nobody stopped it.                         *)
DocumentsWhole ==
  /\ Len(documents) = Cardinality({i \in Complete : Fits(i)})
  /\ \A i \in Complete : Fits(i) =>
       documents[Cardinality({j \in Complete : j <= i /\ Fits(j)})]
         = [k \in 1..(i - MessageStart(i)) |-> MessageStart(i) + k - 1]
  /\ oversized = Cardinality({i \in Complete \cup {taken + 1} : ~Fits(i)})
  /\ exited => Launcher \notin signalled /\ taken = Len(printed)

=============================================================================
