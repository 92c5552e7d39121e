---------------------------- MODULE EventStream ----------------------------
(***************************************************************************)
(* read_stream of src/harness/agentcore.py: the fold of the events of one  *)
(* InvokeHarness call into the list of its tool calls.                     *)
(*                                                                         *)
(* The input of a call is the sequence of the events that brought a piece  *)
(* of it.  Text, hook events and the stop reason are collected by the side *)
(* and touch nothing else; they are left out.                              *)
(***************************************************************************)
EXTENDS Naturals, Sequences, SequencesExt, FiniteSets

CONSTANTS
    Indexes,       \* contentBlockIndex values
    Messages,      \* the texts of error events
    StreamLength   \* bound: events of a stream

ASSUME StreamAssumption == Indexes \subseteq Nat /\ StreamLength \in Nat

Events ==
    [ev : {"messageStart", "error"}, n : Messages]
        \cup [ev : {"contentBlockStart", "contentBlockDelta"}, n : Indexes]

(* msg counts messages; an error event leaves its text in it: then isText. *)
Start == [msg |-> 0, isText |-> FALSE, calls |-> << >>, raised |-> FALSE]

(* calls: a dict, as the sequence of its items in the order they came.     *)
(* Mutant: calls are told apart by the block index alone.                  *)
KeyOfIndex(s, i) == [isText |-> FALSE, msg |-> 0, index |-> i]

CallKey(s, i) == [isText |-> s.isText, msg |-> s.msg, index |-> i]

WithPiece(calls, old, n) ==
    [c \in DOMAIN calls |->
        IF c \in old THEN [calls[c] EXCEPT !.input = Append(@, n)] ELSE calls[c]]

Fold(s, e, n) ==
    LET key == CallKey(s, e.n)
        old == {c \in DOMAIN s.calls : s.calls[c].key = key}
        new == [key |-> key, at |-> n, input |-> << >>]
    IN  CASE e.ev = "messageStart" ->
               IF s.isText THEN [s EXCEPT !.raised = TRUE]   \* str + 1
               ELSE [s EXCEPT !.msg = @ + 1]
          [] e.ev = "contentBlockStart" ->
               IF old = {} THEN [s EXCEPT !.calls = Append(@, new)]
               ELSE [s EXCEPT !.calls = [c \in DOMAIN @ |->
                                            IF c \in old THEN new ELSE @[c]]]
          [] e.ev = "contentBlockDelta" -> [s EXCEPT !.calls = WithPiece(@, old, n)]
          [] e.ev = "error" -> [s EXCEPT !.msg = e.n, !.isText = TRUE]

(* The state after the last event; nothing is read after a raise.          *)
EndOf(events) ==
    LET after[n \in 0..Len(events)] ==
            IF n = 0 THEN Start
            ELSE IF after[n - 1].raised THEN after[n - 1]
            ELSE Fold(after[n - 1], events[n], n)
    IN  after[Len(events)]

Before(j, k) == j.msg < k.msg \/ (j.msg = k.msg /\ j.index < k.index)

(* sorted(calls): the i-th call has i - 1 keys before its own.             *)
Sorted(calls) ==
    [i \in DOMAIN calls |->
        calls[CHOOSE c \in DOMAIN calls :
                 Cardinality({d \in DOMAIN calls :
                                 Before(calls[d].key, calls[c].key)}) = i - 1]]

(* A number and a text cannot be compared.                                 *)
ReadStream(events) ==
    LET end == EndOf(events)
        texts == {end.calls[c].key.isText : c \in DOMAIN end.calls}
    IN  IF end.raised \/ texts = BOOLEAN
        THEN [raised |-> TRUE, calls |-> << >>]
        ELSE [raised |-> FALSE, calls |-> Sorted(end.calls)]

-----------------------------------------------------------------------------
(* What the service sends: messages whose blocks come in order, and pieces *)
(* of a block after its start.                                             *)
MessageOf(events, n) == Cardinality({m \in 1..n : events[m].ev = "messageStart"})

StartOf(events, n) ==
    {m \in 1..n : /\ events[m].ev = "contentBlockStart"
                  /\ MessageOf(events, m) = MessageOf(events, n)
                  /\ events[m].n = events[n].n}

WellSent(events) ==
    \A n \in DOMAIN events :
        /\ events[n].ev = "contentBlockStart" =>
              /\ MessageOf(events, n) > 0
              /\ \A m \in 1..(n - 1) :
                    /\ events[m].ev = "contentBlockStart"
                    /\ MessageOf(events, m) = MessageOf(events, n)
                    => events[m].n < events[n].n
        /\ events[n].ev = "contentBlockDelta" => StartOf(events, n) # {}

(* Nothing of a message comes after an error.                              *)
ErrorsLast(events) ==
    \A m, n \in DOMAIN events :
        m < n /\ events[m].ev = "error" => events[n].ev = "error"

(* s is the sequence of the numbers in S, in order.                        *)
Lists(s, S) ==
    /\ {s[i] : i \in DOMAIN s} = S
    /\ \A i, j \in DOMAIN s : i < j => s[i] < s[j]

StartsOf(events) == {n \in DOMAIN events : events[n].ev = "contentBlockStart"}

(* The pieces of the call that starts at event m, by position.             *)
PiecesOf(events, m) ==
    {n \in DOMAIN events : /\ events[n].ev = "contentBlockDelta"
                           /\ StartOf(events, n) = {m}}

(* "Block indexes restart with each message, so a tool call is keyed by    *)
(* (message number, block index)": as long as nothing of a message follows *)
(* an error event, whose text read_stream keeps in its message counter,    *)
(* the calls are those of the stream, in order, no piece lost or mixed up. *)
Faithful(events) ==
    LET read == ReadStream(events)
    IN  /\ ~read.raised
        /\ Lists([c \in DOMAIN read.calls |-> read.calls[c].at], StartsOf(events))
        /\ \A c \in DOMAIN read.calls :
              Lists(read.calls[c].input, PiecesOf(events, read.calls[c].at))

FaithfulStreams ==
    \A events \in BoundedSeq(Events, StreamLength) :
        WellSent(events) /\ ErrorsLast(events) => Faithful(events)
=============================================================================
