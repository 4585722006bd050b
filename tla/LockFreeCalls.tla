---------------------------- MODULE LockFreeCalls ----------------------------
(***************************************************************************)
(* The calls of mshlockfree.c that change a shared word, as functions of   *)
(* the word's value, and the order in which a process makes them.  Three   *)
(* kinds of word are shared: a LockFreeCounter_T (procs_tracking,          *)
(* num_procs), the size_t total_shared_size, and a long (procs_using).     *)
(* They do not depend on each other, so a behaviour is about one of them.  *)
(***************************************************************************)
EXTENDS LockFreeCounter, FiniteSets

CONSTANTS
    Proc,       \* processes
    Sizes,      \* segment sizes
    Limits,     \* values of g_user_config.max_shared_size
    Memory,     \* the memory there is for segments
    SizeMod     \* a size_t wraps modulo this; 2^64 in the code

ASSUME LockFreeAssumption ==
    /\ IsFiniteSet(Proc) /\ Cardinality(Proc) < CountMod
    /\ SizeMod \in Nat /\ Memory \in 0 .. (SizeMod - 1)
    /\ Limits \subseteq 0 .. (SizeMod - 1)
    /\ Sizes \subseteq 1 .. Memory

Words == {"counter", "size", "long"}

\* What a word holds when its segment is new.
Fresh(word) == IF word = "counter" THEN ZeroCounter ELSE 0

Calls(word) ==
    CASE word = "counter" -> [op : {"increment"}] \cup [op : {"decrement"}, set_flag : BOOLEAN]
                             \cup [op : {"set_post"}]
      [] word = "size"    -> [op : {"add"}, by : Sizes, max : Limits]
                             \cup [op : {"subtract"}, by : Sizes]
      [] word = "long"    -> [op : {"inc_long", "dec_long"}]

\* msh_AtomicAddSizeWithMax gives up, without writing, when the sum is too large.
Refused(c, v) == c.op = "add" /\ (v + c.by) % SizeMod > c.max

\* The value a call writes where it finds v.
NewValue(c, v) ==
    CASE c.op = "increment" -> IncrementCounter(v)
      [] c.op = "decrement" -> DecrementCounter(v, c.set_flag)
      [] c.op = "set_post"  -> SetCounterPost(v, TRUE)
      [] c.op = "add"       -> (v + c.by) % SizeMod
      [] c.op = "subtract"  -> (v - c.by) % SizeMod
      [] c.op = "inc_long"  -> v + 1
      [] c.op = "dec_long"  -> v - 1

\* What it returns; msh_SetCounterPost returns nothing.
Returned(c, old, new) ==
    CASE c.op = "decrement" -> <<RaisedFlag(old, new)>>
      [] c.op = "add"       -> <<TRUE>>
      [] c.op = "set_post"  -> <<>>
      [] OTHER              -> <<new>>

------------------------------------------------------------------------------
(* What the callers owe each other, per process: the count it has taken on *)
(* the word (holds), the flag it has raised (raised), the size it has      *)
(* reserved (reserved).  A size may be given back by another process than  *)
(* the one that reserved it.                                               *)
Client == [holds : [Proc -> BOOLEAN], raised : [Proc -> BOOLEAN],
           reserved : [Proc -> Sizes \cup {0}]]

NoDebt == [holds |-> [p \in Proc |-> FALSE], raised |-> [p \in Proc |-> FALSE],
           reserved |-> [p \in Proc |-> 0]]

\* The units of memory where each process p has n[p] of them, and how many
\* those are in all: a sum, counted so that it can be reasoned about.
Units(n) == UNION {{p} \X (1 .. n[p]) : p \in Proc}
Total(n) == Cardinality(Units(n))

\* Sizes that are reserved, or about to be, by the calls in progress.
Claimed(client, call) ==
    [p \in Proc |-> client.reserved[p] + (IF call[p].op \in {"add", "subtract"} THEN call[p].by ELSE 0)]

\* The calls a process makes when it is not in one, and the client state after
\* the invocation.  No segment is larger than the memory left for it.
Invoked(p, c, client, call, after) ==
    \/ c.op \in {"increment", "inc_long"} /\ ~client.holds[p] /\ after = client
    \/ c.op \in {"decrement", "dec_long"} /\ client.holds[p] /\ after = client
    \/ c.op = "set_post" /\ client.raised[p] /\ after = client
    \/ /\ c.op = "add" /\ client.reserved[p] = 0
       /\ Total(Claimed(client, call)) + c.by <= Memory
       /\ after = client
    \/ /\ c.op = "subtract"
       /\ \E q \in Proc : /\ client.reserved[q] = c.by
                          /\ after = [client EXCEPT !.reserved[q] = 0]

\* The client state after call c of process p has returned r.
AfterReturn(p, c, client, r) ==
    [holds    |-> [client.holds EXCEPT ![p] = IF c.op \in {"increment", "inc_long"} THEN TRUE
                                             ELSE IF c.op \in {"decrement", "dec_long"} THEN FALSE ELSE @],
     raised   |-> [client.raised EXCEPT ![p] = IF c.op = "decrement" THEN r = <<TRUE>>
                                             ELSE IF c.op = "set_post" THEN FALSE ELSE @],
     reserved |-> [client.reserved EXCEPT ![p] = IF c.op = "add" /\ r = <<TRUE>> THEN c.by ELSE @]]
=============================================================================
