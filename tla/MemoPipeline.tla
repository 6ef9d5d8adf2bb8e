---------------------------- MODULE MemoPipeline ----------------------------
(***************************************************************************)
(* What memoized execution promises, without workers' steps, crashes,      *)
(* tables or lineage rows.  Clients build chains of outputs.  The input of *)
(* the next link is a function of the client's job and of its chain; an    *)
(* output is derived from an input; the memo keeps, for ever, one derived  *)
(* output of each input it knows; and a chain grows only by an output      *)
(* derived from exactly its next input, once that input is in the memo.    *)
(*                                                                         *)
(* A chain may grow by a derived output other than the memoized one: the   *)
(* memo makes later clients agree with the first, not concurrent ones.     *)
(***************************************************************************)
EXTENDS Naturals, Sequences

CONSTANTS
  Clients, Jobs, None,
  Length,         \* links of a complete chain
  InputOf(_,_,_), \* job, position, chain so far -> input
  Derivable(_)    \* input -> outputs that can be derived from it

VARIABLES
  memo,     \* [input, output], at most one per input
  derived,  \* [input, output]
  job,      \* client -> its job
  chain     \* client -> its outputs so far

memoVars == <<memo, derived, job, chain>>

NextInput(c) == InputOf(job[c], Len(chain[c]) + 1, chain[c])
Known(in) == \E m \in memo : m.input = in

Init ==
  /\ memo = {}
  /\ derived = {}
  /\ job = [c \in Clients |-> None]
  /\ chain = [c \in Clients |-> <<>>]

\* A client starts over, with a job or with none.
Begin(c) ==
  /\ \E j \in Jobs \cup {None} : job' = [job EXCEPT ![c] = j]
  /\ chain' = [chain EXCEPT ![c] = <<>>]
  /\ UNCHANGED <<memo, derived>>

Working(c) == job[c] # None /\ Len(chain[c]) < Length

Derive(c) ==
  /\ Working(c)
  /\ \E out \in Derivable(NextInput(c)) :
       derived' = derived \cup {[input |-> NextInput(c), output |-> out]}
  /\ UNCHANGED <<memo, job, chain>>

Memoize(c) ==
  /\ Working(c)
  /\ ~Known(NextInput(c))
  /\ \E d \in derived : d.input = NextInput(c) /\ memo' = memo \cup {d}
  /\ UNCHANGED <<derived, job, chain>>

Advance(c) ==
  /\ Working(c)
  /\ Known(NextInput(c))
  /\ \E d \in derived :
       /\ d.input = NextInput(c)
       /\ chain' = [chain EXCEPT ![c] = Append(@, d.output)]
  /\ UNCHANGED <<memo, derived, job>>

Next == \E c \in Clients : Begin(c) \/ Derive(c) \/ Memoize(c) \/ Advance(c)

Spec == Init /\ [][Next]_memoVars
=============================================================================
