----------------------------- MODULE AtomicWords -----------------------------
(***************************************************************************)
(* What mshlockfree.c promises: a call takes effect in one step, somewhere *)
(* between its invocation and its return, and returns what that step saw.  *)
(***************************************************************************)
EXTENDS LockFreeCalls

VARIABLES word, value, client, phase, call, result

vars == <<word, value, client, phase, call, result>>

NoCall == [op |-> "none"]

Init ==
    /\ word \in Words
    /\ value = Fresh(word)
    /\ client = NoDebt
    /\ phase = [p \in Proc |-> "idle"]
    /\ call = [p \in Proc |-> NoCall]
    /\ result = [p \in Proc |-> <<>>]

Invoke(p, c) ==
    /\ phase[p] = "idle"
    /\ Invoked(p, c, client, call, client')
    /\ call' = [call EXCEPT ![p] = c]
    /\ phase' = [phase EXCEPT ![p] = "called"]
    /\ UNCHANGED <<word, value, result>>

Effect(p) ==
    /\ phase[p] = "called"
    /\ LET c == call[p]
           v == NewValue(c, value)
       IN  IF Refused(c, value)
           THEN result' = [result EXCEPT ![p] = <<FALSE>>] /\ UNCHANGED value
           ELSE value' = v /\ result' = [result EXCEPT ![p] = Returned(c, value, v)]
    /\ phase' = [phase EXCEPT ![p] = "done"]
    /\ UNCHANGED <<word, client, call>>

Return(p) ==
    /\ phase[p] = "done"
    /\ client' = AfterReturn(p, call[p], client, result[p])
    /\ phase' = [phase EXCEPT ![p] = "idle"]
    /\ call' = [call EXCEPT ![p] = NoCall]
    /\ result' = [result EXCEPT ![p] = <<>>]
    /\ UNCHANGED <<word, value>>

Next == \E p \in Proc : (\E c \in Calls(word) : Invoke(p, c)) \/ Effect(p) \/ Return(p)

Spec == Init /\ [][Next]_vars
=============================================================================
