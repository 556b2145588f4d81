---------------------------- MODULE DeadlineQueue ----------------------------
(***************************************************************************)
(* What the timeout queue of an RDMA worker thread promises, without its    *)
(* list: it remembers since when each message waits, and a check reports a  *)
(* message that waits longest if that one waits longer than the timeout,    *)
(* and nothing only if no message does.                                     *)
(***************************************************************************)
EXTENDS Integers

CONSTANTS Index,     \* one index per message that may be outstanding
          Never,     \* the waiting time of a message that does not wait
          Nothing,   \* what a check returns when nothing timed out
          Ms         \* units of the clock per millisecond

VARIABLES since,     \* since[i]: when i was pushed, or Never
          now,       \* the monotonic clock
          timeout,   \* in milliseconds
          result     \* what the last check returned

deadlineVars == <<since, now, timeout, result>>

Waiting    == {i \in Index : since[i] # Never}
Elapsed(i) == (now - since[i]) \div Ms          \* in whole milliseconds
Expired(i) == i \in Waiting /\ Elapsed(i) > timeout
Longest(i) == i \in Waiting /\ \A j \in Waiting : since[i] <= since[j]

Init == /\ since = [i \in Index |-> Never]
        /\ now = 0
        /\ timeout \in Nat
        /\ result = Nothing

Push(i) == /\ since' = [since EXCEPT ![i] = now]
           /\ UNCHANGED <<now, timeout, result>>

Remove(i) == /\ since' = [since EXCEPT ![i] = Never]
             /\ UNCHANGED <<now, timeout, result>>

\* The timeout may be doubled by the check that reports one.
Report == \E i \in Index : /\ Longest(i)
                           /\ Expired(i)
                           /\ result' = i
                           /\ timeout' \in {timeout, 2 * timeout}
                           /\ UNCHANGED <<since, now>>

NoReport == /\ \A i \in Index : ~Expired(i)
            /\ result' = Nothing
            /\ UNCHANGED <<since, now, timeout>>

Tick == /\ now' = now + 1
        /\ UNCHANGED <<since, timeout, result>>

Next == \/ \E i \in Index : Push(i) \/ Remove(i)
        \/ Report \/ NoReport
        \/ Tick

Spec == Init /\ [][Next]_deadlineVars

=============================================================================
