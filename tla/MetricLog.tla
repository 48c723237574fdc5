------------------------------ MODULE MetricLog ------------------------------
(***************************************************************************)
(* What an asynchronous metric plugin promises its measurement system: each *)
(* entry keeps a growing log of samples of some width, the log is closed   *)
(* once, and an answer about a closed entry is one column of its whole     *)
(* log: the value of the same counter in every sample, next to the         *)
(* timestamp of that sample.  Sample k of an entry is known by its number, *)
(* as in ApapiSampler: <<k, 0>> is its timestamp, <<k, c + 1>> counter c.  *)
(*                                                                         *)
(* A plugin with Partial logs answers blanks for a column its log lacks,   *)
(* the others answer for columns of the log only; a plugin with a Spare    *)
(* row may end an answer with one row of nothing that was sampled.         *)
(***************************************************************************)
EXTENDS Integers

CONSTANTS Entries, Partial, Spare, Blank, Blanks

VARIABLES samples, width, closed, answers

logVars == <<samples, width, closed, answers>>

(* The k-th row of the answer for column col of a log of width w.          *)
TrueRow(k, col, w) ==
  <<<<k - 1, 0>>, IF col < w THEN <<k - 1, col + 1>> ELSE Blank>>

(* The answers that are due for column col of a log of n samples.          *)
TrueColumn(n, col, w) == [k \in 1 .. n |-> TrueRow(k, col, w)]

SpareColumn(n, col, w, spare) ==
  [k \in 1 .. n + 1 |-> IF k <= n THEN TrueRow(k, col, w) ELSE spare]

LogInit ==
  /\ samples = [e \in Entries |-> 0]
  /\ width = [e \in Entries |-> 0]
  /\ closed = {}
  /\ answers = {}

(* The width of a log is settled before its first sample.                  *)
Settle(e) ==
  /\ samples[e] = 0 /\ e \notin closed
  /\ width' = [width EXCEPT ![e] = width'[e]]
  /\ UNCHANGED <<samples, closed, answers>>

Record(e) ==
  /\ e \notin closed
  /\ samples' = [samples EXCEPT ![e] = @ + 1]
  /\ UNCHANGED <<width, closed, answers>>

Close(e) ==
  /\ closed' = closed \cup {e}
  /\ UNCHANGED <<samples, width, answers>>

AnswerWith(e, col, rows) ==
  answers' = answers \cup {[entry |-> e, column |-> col, rows |-> rows]}

Answer(e, col) ==
  /\ e \in closed
  /\ Partial \/ col < width[e]
  /\ \/ AnswerWith(e, col, TrueColumn(samples[e], col, width[e]))
     \/ /\ Spare
        /\ \E spare \in Blanks \X Blanks :
             AnswerWith(e, col, SpareColumn(samples[e], col, width[e], spare))
  /\ UNCHANGED <<samples, width, closed>>

LogNext ==
  \E e \in Entries :
    Settle(e) \/ Record(e) \/ Close(e) \/ \E col \in 0 .. 255 : Answer(e, col)

LogSpec == LogInit /\ [][LogNext]_logVars
=============================================================================
