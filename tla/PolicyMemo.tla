------------------------------ MODULE PolicyMemo ------------------------------
(***************************************************************************)
(* The memo of PolicyTimeline.policy_at and effective_band (policy.py:     *)
(* _in_force_key), on which every verdict of access.py rests.  An answer   *)
(* depends on the entries in force alone, so it is kept under their        *)
(* number; the memo is rebuilt by whichever thread first sees that the     *)
(* list of entries has grown.  Threads of the pool ask while the event     *)
(* loop appends.  A step runs from one point at which the interpreter may  *)
(* switch threads to the next: the calls inside the two methods.           *)
(***************************************************************************)
EXTENDS Integers, Sequences, FiniteSets

CONSTANTS
    Thread,           \* threads of the pool
    MaxHead           \* bound on the length of the log

VARIABLES
    head,             \* the head of the log in memory
    effective,        \* when each entry came into force, in that order
    entering,         \* entries that apply has yet to insert
    sorted, version,  \* the list that keys are counted in, and its length when rebuilt
    memo,             \* the answer kept under each number of entries in force
    call              \* what each thread is doing

vars == <<head, effective, entering, sorted, version, memo, call>>

\* The uncached rule: which of the entries are in force.  The policy of a namespace
\* and the band of an identity are functions of them.
InForceAt(offset) == {k \in DOMAIN effective : effective[k] <= offset}

\* bisect_right.
CountUpTo(list, offset) == Cardinality({k \in DOMAIN list : list[k] <= offset})

Idle == [pc |-> "idle", offset |-> 0, size |-> 0, list |-> << >>, key |-> 0, answer |-> {}]

Init ==
    /\ head = 1 /\ effective = <<1>> /\ entering = 0
    /\ sorted = << >> /\ version = 0 /\ memo = << >>
    /\ call = [t \in Thread |-> Idle]

-----------------------------------------------------------------------------
(* The event loop.                                                          *)

\* log.append of an envelope that brings some entries into force: none for a note,
\* one for a POLICY, several for a STAMP of several.
Join(n) ==
    /\ entering = 0 /\ head < MaxHead
    /\ head' = head + 1 /\ entering' = n
    /\ UNCHANGED <<effective, sorted, version, memo, call>>

\* One insertion of timeline.apply.
Enter ==
    /\ entering > 0
    /\ effective' = Append(effective, head) /\ entering' = entering - 1
    /\ UNCHANGED <<head, sorted, version, memo, call>>

-----------------------------------------------------------------------------
(* A lookup at an offset, on a thread.                                      *)

At(t, pc) == call[t].pc = pc

Goto(t, what) == call' = [call EXCEPT ![t] = what]

\* The length of the list is read and compared with the memo's.
Ask(t, offset) ==
    /\ At(t, "idle")
    /\ Goto(t, [Idle EXCEPT !.pc = IF Len(effective) # version THEN "sorting" ELSE "keying",
                            !.offset = offset, !.size = Len(effective)])
    /\ UNCHANGED <<head, effective, entering, sorted, version, memo>>

Sort(t) ==
    /\ At(t, "sorting")
    /\ Goto(t, [call[t] EXCEPT !.pc = "rebuilding", !.list = effective])
    /\ UNCHANGED <<head, effective, entering, sorted, version, memo>>

\* The list, two empty tables and the version, and the thread's own key from them.
Rebuild(t) ==
    /\ At(t, "rebuilding")
    /\ sorted' = call[t].list /\ version' = call[t].size /\ memo' = << >>
    /\ Goto(t, [call[t] EXCEPT !.pc = "looking", !.key = CountUpTo(sorted', call[t].offset)])
    /\ UNCHANGED <<head, effective, entering>>

Count(t) ==
    /\ At(t, "keying")
    /\ Goto(t, [call[t] EXCEPT !.pc = "looking", !.key = CountUpTo(sorted, call[t].offset)])
    /\ UNCHANGED <<head, effective, entering, sorted, version, memo>>

Hit(t) ==
    /\ At(t, "looking") /\ call[t].key \in DOMAIN memo
    /\ Goto(t, [call[t] EXCEPT !.pc = "answered", !.answer = memo[call[t].key]])
    /\ UNCHANGED <<head, effective, entering, sorted, version, memo>>

Miss(t) ==
    /\ At(t, "looking") /\ call[t].key \notin DOMAIN memo
    /\ Goto(t, [call[t] EXCEPT !.pc = "computing"])
    /\ UNCHANGED <<head, effective, entering, sorted, version, memo>>

Compute(t) ==
    /\ At(t, "computing")
    /\ Goto(t, [call[t] EXCEPT !.pc = "keeping", !.answer = InForceAt(call[t].offset)])
    /\ UNCHANGED <<head, effective, entering, sorted, version, memo>>

\* Into whichever table is the memo by now.
Keep(t) ==
    /\ At(t, "keeping")
    /\ memo' = [k \in DOMAIN memo \cup {call[t].key} |->
                   IF k = call[t].key THEN call[t].answer ELSE memo[k]]
    /\ Goto(t, [call[t] EXCEPT !.pc = "answered"])
    /\ UNCHANGED <<head, effective, entering, sorted, version>>

Return(t) ==
    /\ At(t, "answered")
    /\ Goto(t, Idle)
    /\ UNCHANGED <<head, effective, entering, sorted, version, memo>>

Lookup(t) ==
    \/ \E offset \in 1..head : Ask(t, offset)
    \/ Sort(t) \/ Rebuild(t) \/ Count(t) \/ Hit(t) \/ Miss(t)
    \/ Compute(t) \/ Keep(t) \/ Return(t)

Next ==
    \/ \E n \in 0..2 : Join(n)
    \/ Enter
    \/ \E t \in Thread : Lookup(t)

Spec == Init /\ [][Next]_vars

-----------------------------------------------------------------------------
\* server/tests/test_policy_memo.py:6-9, "sound only if the answer depends on the
\* offset through that number alone and the memo is dropped whenever an entry
\* enters": a lookup during which no entry comes in answers what the rule says.
MemoisedAnswersEqualTheRule ==
    \A t \in Thread :
        call[t].pc = "answered" /\ call[t].size = Len(effective) =>
            call[t].answer = InForceAt(call[t].offset)

=============================================================================
