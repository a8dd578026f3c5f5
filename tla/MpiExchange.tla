----------------------------- MODULE MpiExchange -----------------------------
(***************************************************************************)
(* The messages of MapReduce patterns that run on several nodes: every     *)
(* node makes the same calls, each of a pattern of one of three kinds, and *)
(* in a call the nodes shuffle their keys (MapReduceGlobalH) or meet at a  *)
(* barrier (MapReduceLocalH), and send their results to rank 0, which      *)
(* reduces them.                                                           *)
(*                                                                         *)
(* MPI delivers the messages of a pair of nodes in order.  A send returns  *)
(* at once when MPI buffers the message, else when it has been received:   *)
(* which of the two happens is MPI's choice.  All messages have one tag    *)
(* and carry no kind; the field "part" of a message is the sender's view   *)
(* of it, which no receiver reads.                                         *)
(*                                                                         *)
(* A value is the sequence of the contributions reduced into it, so that a *)
(* lost, repeated or misplaced one shows.                                  *)
(***************************************************************************)
EXTENDS Integers, Sequences, FiniteSets, SequencesExt

CONSTANTS
    mpi_nodes,
    Kind,           \* Kind[c]: the pattern of call c, "GlobalH", "LocalH" or "LocalV"
    pre_size,       \* keys are 0 .. pre_size - 1
    Distributer,    \* Distributer[k]: the node that reduces key k
    Emits,          \* Emits[n][k]: how many values node n has for key k in a call
    SizeOf,         \* bytes of an element
    INT_MAX         \* of the int in which a number of bytes is passed

Nodes == 0 .. mpi_nodes - 1
Keys  == 0 .. pre_size - 1
Kinds == {"GlobalH", "LocalH", "LocalV"}
Calls == Len(Kind)

\* The bytes of every message fit in an int.
ASSUME ExchangeAssumption ==
    /\ mpi_nodes \in Nat \ {0} /\ pre_size \in Nat
    /\ Kind \in Seq(Kinds)
    /\ Distributer \in [Keys -> Nodes]
    /\ Emits \in [Nodes -> [Keys -> Nat]]
    /\ SizeOf \in Nat \ {0} /\ INT_MAX \in Nat
    /\ SizeOf * pre_size <= INT_MAX
    /\ \A n \in Nodes, k \in Keys : SizeOf * Emits[n][k] <= INT_MAX

VARIABLES
    call,       \* call[n]: the call node n is in
    at,         \* at[n]: position of node n in its script
    sent,       \* sent[n]: messages of the current transfer that have been sent
    blocked,    \* blocked[n]: the last of them is not buffered
    inbox,      \* inbox[n]: the data received in the current transfer
    wire,       \* wire[n][m]: messages on their way from n to m
    barrier,    \* barrier[n]: the last call in which node n has entered the barrier
    gathered,   \* the results that rank 0 has received
    held,       \* held[n]: the map of values node n works on, key by key
    results     \* results[n]: what its calls have returned

vars == <<call, at, sent, blocked, inbox, wire, barrier, held, gathered, results>>

-----------------------------------------------------------------------------
(* Maps from keys to vectors of values.                                    *)

Values(map, k) == IF k \in DOMAIN map THEN map[k] ELSE <<>>

\* Not the code: the values of the other node replace those of this one.
MergeMaps_Replace(lhs, rhs) ==
    [k \in DOMAIN lhs \union DOMAIN rhs |-> IF k \in DOMAIN rhs THEN rhs[k] ELSE lhs[k]]

MergeMaps(lhs, rhs) ==
    [k \in DOMAIN lhs \union DOMAIN rhs |-> Values(lhs, k) \o Values(rhs, k)]

\* The reducer applied to each key.
Reduced(map) == [k \in DOMAIN map |-> <<FlattenSeq(map[k])>>]

Empty == [k \in {} |-> <<>>]

\* A set of keys in the order in which a std::map goes through it.
Ascending(S) ==
    CHOOSE s \in [1 .. Cardinality(S) -> S] :
        \A i, j \in 1 .. Cardinality(S) : i < j => s[i] < s[j]

MergeAll(maps) ==
    LET merged[i \in 0 .. Len(maps)] ==
            IF i = 0 THEN Empty ELSE MergeMaps(merged[i - 1], maps[i])
    IN  merged[Len(maps)]

\* LocalV: each result of a pair goes to the end and is paired again.
Tree(maps) ==
    LET n == Len(maps)
        all[i \in 1 .. 2 * n - 1] ==
            IF i <= n THEN maps[i]
            ELSE Reduced(MergeMaps(all[2 * (i - n) - 1], all[2 * (i - n)]))
    IN  all[2 * n - 1]

\* What rank 0 makes of all nodes' results in call c.
Combined(c, maps) == IF Kind[c] = "LocalV" THEN Tree(maps) ELSE Reduced(MergeAll(maps))

-----------------------------------------------------------------------------
(* The order in which a node talks to the others.                          *)

Op(do, peer, what) == [do |-> do, peer |-> peer, what |-> what]

\* Not the code: both nodes of a pair send first.
CommunicateWithNode_BothSend(n, m) ==
    <<Op("send", m, "shuffle"), Op("receive", m, "shuffle")>>

\* The lower rank sends first.
CommunicateWithNode(n, m) ==
    IF n < m THEN <<Op("send", m, "shuffle"), Op("receive", m, "shuffle")>>
             ELSE <<Op("receive", m, "shuffle"), Op("send", m, "shuffle")>>

\* The other nodes, in the order of the loop.
Others(n) == [i \in 1 .. mpi_nodes - 1 |-> IF i <= n THEN i - 1 ELSE i]

ShuffleNodes(n) ==
    FlattenSeq([i \in 1 .. mpi_nodes - 1 |-> CommunicateWithNode(n, Others(n)[i])])

ReduceAtEnd(n) ==
    IF n > 0 THEN <<Op("send", 0, "result")>>
    ELSE [i \in 1 .. mpi_nodes - 1 |-> Op("receive", i, "result")] \o <<Op("combine", 0, "result")>>

\* What precedes the local reduction.
Opening(n, kind) ==
    CASE kind = "GlobalH" -> ShuffleNodes(n)
      [] kind = "LocalH"  -> <<Op("barrier", n, "local")>>
      [] kind = "LocalV"  -> <<>>

\* InternallyCompute, from the local shuffle on.
Script(n, kind) ==
    IF mpi_nodes > 1 THEN Opening(n, kind) \o <<Op("reduce", n, "local")>> \o ReduceAtEnd(n)
    ELSE <<Op("reduce", n, "local")>>

Scripts == [n \in Nodes |-> [kind \in Kinds |-> Script(n, kind)]]

Done(n) == call[n] > Calls
Ops(n) == Scripts[n][Kind[call[n]]]
Doing(n, do) == ~Done(n) /\ Ops(n)[at[n]].do = do
Peer(n) == Ops(n)[at[n]].peer
What(n) == Ops(n)[at[n]].what

-----------------------------------------------------------------------------
(* Messages.                                                               *)

\* Not the code: forgets the size of an element.
Bytes_OfCount(count) == count

\* The int that MPI gets for count elements.
Bytes(count) == ((SizeOf * count + INT_MAX + 1) % (2 * INT_MAX + 2)) - (INT_MAX + 1)

\* The elements of a buffer that a message carries.
Buffer(seq) == SubSeq(seq, 1, Bytes(Len(seq)) \div SizeOf)

\* The map for another node: the keys it reduces.
Share(n, m) == [k \in {j \in DOMAIN held[n] : Distributer[j] = m} |-> held[n][k]]

\* The messages of one transfer: the number of keys, the keys, then the sizes of
\* their vectors and the vectors (SendToNode), or one value each (ReduceAtEnd).
Messages(n) ==
    LET map == IF What(n) = "shuffle" THEN Share(n, Peer(n)) ELSE held[n]
        keys == Ascending(DOMAIN map)
        sizes == [i \in 1 .. Len(keys) |-> Len(map[keys[i]])]
        vectors == [i \in 1 .. Len(keys) |-> Buffer(map[keys[i]])]
        firsts == [i \in 1 .. Len(keys) |-> Head(map[keys[i]])]
    IN  <<<<Len(keys)>>, Buffer(keys)>>
        \o IF What(n) = "shuffle" THEN <<Buffer(sizes)>> \o vectors ELSE <<Buffer(firsts)>>

\* How many messages the receiver expects, from the first one on.
Expected(n, box) == IF What(n) = "shuffle" THEN 3 + box[1][1] ELSE 3

\* The map received.
Unpacked(n, box) ==
    [k \in {box[2][i] : i \in 1 .. box[1][1]} |->
        LET i == CHOOSE j \in 1 .. box[1][1] : box[2][j] = k
        IN  IF What(n) = "shuffle" THEN box[3 + i] ELSE <<box[3][i]>>]

-----------------------------------------------------------------------------
\* The values of a call on one node, when they are all collected.
Collected(n, c) == [k \in Keys |-> [i \in 1 .. Emits[n][k] |-> <<[node |-> n, call |-> c, key |-> k, value |-> i]>>]]

Init ==
    /\ call = [n \in Nodes |-> 1] /\ at = [n \in Nodes |-> 1]
    /\ sent = [n \in Nodes |-> 0] /\ blocked = [n \in Nodes |-> FALSE]
    /\ inbox = [n \in Nodes |-> <<>>]
    /\ wire = [n \in Nodes |-> [m \in Nodes |-> <<>>]]
    /\ barrier = [n \in Nodes |-> 0]
    /\ held = [n \in Nodes |-> Collected(n, 1)]
    /\ gathered = <<>> /\ results = [n \in Nodes |-> <<>>]

\* On to the next operation, or to the next call; map is what the node then has.
Advance(n, map) ==
    IF at[n] < Len(Ops(n))
    THEN /\ at' = [at EXCEPT ![n] = @ + 1]
         /\ held' = [held EXCEPT ![n] = map]
         /\ UNCHANGED <<call, results>>
    ELSE /\ at' = [at EXCEPT ![n] = 1]
         /\ call' = [call EXCEPT ![n] = @ + 1]
         /\ results' = [results EXCEPT ![n] = Append(@, map)]
         /\ held' = [held EXCEPT ![n] = Collected(n, call[n] + 1)]

\* A transfer ends with its last message; a result that was sent is cleared.
FinishSend(n, count) ==
    IF count < Len(Messages(n))
    THEN sent' = [sent EXCEPT ![n] = count] /\ UNCHANGED <<call, at, held, results>>
    ELSE /\ sent' = [sent EXCEPT ![n] = 0]
         /\ Advance(n, IF What(n) = "result" THEN Empty ELSE held[n])

MPI_Send(n, buffered) ==
    /\ Doing(n, "send") /\ ~blocked[n]
    /\ LET part == [call |-> call[n], what |-> What(n), number |-> sent[n] + 1]
       IN  wire' = [wire EXCEPT ![n][Peer(n)] =
                        Append(@, [part |-> part, data |-> Messages(n)[sent[n] + 1]])]
    /\ IF buffered
       THEN FinishSend(n, sent[n] + 1) /\ UNCHANGED blocked
       ELSE blocked' = [blocked EXCEPT ![n] = TRUE] /\ UNCHANGED <<call, at, sent, held, results>>
    /\ UNCHANGED <<inbox, barrier, gathered>>

MPI_SendReturns(n) ==
    /\ blocked[n] /\ wire[n][Peer(n)] = <<>>
    /\ blocked' = [blocked EXCEPT ![n] = FALSE]
    /\ FinishSend(n, sent[n] + 1)
    /\ UNCHANGED <<inbox, wire, barrier, gathered>>

MPI_Recv(n) ==
    LET box == Append(inbox[n], Head(wire[Peer(n)][n]).data)
        ends == Len(box) = Expected(n, box)
    IN  /\ Doing(n, "receive") /\ wire[Peer(n)][n] # <<>>
        /\ wire' = [wire EXCEPT ![Peer(n)][n] = Tail(@)]
        /\ inbox' = [inbox EXCEPT ![n] = IF ends THEN <<>> ELSE box]
        /\ IF ~ends THEN UNCHANGED <<call, at, held, gathered, results>>
           ELSE IF What(n) = "shuffle"
           THEN Advance(n, MergeMaps(held[n], Unpacked(n, box))) /\ UNCHANGED gathered
           ELSE Advance(n, held[n]) /\ gathered' = Append(gathered, Unpacked(n, box))
        /\ UNCHANGED <<sent, blocked, barrier>>

\* LocalH: no node leaves before all have entered.
MPI_Barrier(n) ==
    /\ Doing(n, "barrier") /\ barrier[n] < call[n]
    /\ barrier' = [barrier EXCEPT ![n] = call[n]]
    /\ UNCHANGED <<call, at, sent, blocked, inbox, wire, held, gathered, results>>

LeaveBarrier(n) ==
    /\ Doing(n, "barrier") /\ \A m \in Nodes : barrier[m] >= call[n]
    /\ Advance(n, held[n])
    /\ UNCHANGED <<sent, blocked, inbox, wire, barrier, gathered>>

\* The local reduction, of what ShuffleNodes leaves to this node.
Reduce(n) ==
    /\ Doing(n, "reduce")
    /\ Advance(n, Reduced(IF Kind[call[n]] = "GlobalH" THEN Share(n, n) ELSE held[n]))
    /\ UNCHANGED <<sent, blocked, inbox, wire, barrier, gathered>>

Combine(n) ==
    /\ Doing(n, "combine")
    /\ Advance(n, Combined(call[n], <<held[n]>> \o gathered))
    /\ gathered' = <<>>
    /\ UNCHANGED <<sent, blocked, inbox, wire, barrier>>

Step(n) ==
    \/ \E buffered \in BOOLEAN : MPI_Send(n, buffered)
    \/ MPI_SendReturns(n) \/ MPI_Recv(n)
    \/ MPI_Barrier(n) \/ LeaveBarrier(n) \/ Reduce(n) \/ Combine(n)

Terminated == (\A n \in Nodes : Done(n)) /\ UNCHANGED vars

Next == (\E n \in Nodes : Step(n)) \/ Terminated

Spec == Init /\ [][Next]_vars

-----------------------------------------------------------------------------
TypeOK ==
    /\ call \in [Nodes -> 1 .. Calls + 1]
    /\ \A n \in Nodes : at[n] \in Nat /\ (~Done(n) => at[n] \in DOMAIN Ops(n))
    /\ \A n \in Nodes : sent[n] \in 0 .. 3 + pre_size
    /\ blocked \in [Nodes -> BOOLEAN]
    /\ \A n \in Nodes : Len(inbox[n]) \in 0 .. 3 + pre_size
    /\ barrier \in [Nodes -> 0 .. Calls]
    /\ \A n \in Nodes : DOMAIN held[n] \subseteq Keys
    /\ Len(gathered) < mpi_nodes
    /\ \A n \in Nodes : Len(results[n]) = call[n] - 1

\* Every variable keeps its type.  All messages have one tag: yet each MPI_Recv gets
\* the message that the other node sent for it, of the same call, phase and number,
\* and of the size it expects.
Matched ==
    /\ TypeOK
    /\ \A n \in Nodes : Doing(n, "receive") /\ wire[Peer(n)][n] # <<>> =>
        LET message == Head(wire[Peer(n)][n])
            number == Len(inbox[n]) + 1
        IN  /\ message.part = [call |-> call[n], what |-> What(n), number |-> number]
            /\ Len(message.data) = CASE number = 1 -> 1
                                     [] number \in {2, 3} -> inbox[n][1][1]
                                     [] OTHER -> inbox[n][3][number - 3]

\* What all the nodes in from emitted for key k in call c.
Contributions(from, c, k) ==
    UNION {{[node |-> n, call |-> c, key |-> k, value |-> i] : i \in 1 .. Emits[n][k]} : n \in from}

Gathers(values, contributions) ==
    Len(values) = Cardinality(contributions) /\ ToSet(values) = contributions

\* GlobalH: before the local reduction every key is on the node the distributer
\* names, with the values of all nodes, each once.
AtHome ==
    \A n \in Nodes : Doing(n, "reduce") /\ Kind[call[n]] = "GlobalH" =>
        \A k \in Keys : Distributer[k] = n =>
            Gathers(FlattenSeq(held[n][k]), Contributions(Nodes, call[n], k))

\* Rank 0 returns every key with every value of every node once, and the other
\* nodes return nothing.
AtRoot ==
    \A n \in Nodes : \A c \in DOMAIN results[n] :
        IF n > 0 THEN results[n][c] = Empty
        ELSE /\ DOMAIN results[n][c] = Keys
             /\ \A k \in Keys : Gathers(results[n][c][k][1], Contributions(Nodes, c, k))

\* Every key comes to the node that reduces it, with all its values; rank 0 returns
\* all values of all nodes once, the other nodes return none.
Complete == AtHome /\ AtRoot

\* Somebody can always go on, whatever MPI buffers: the nodes never wait in a circle.
CanStep(n) ==
    ~Done(n) /\ CASE blocked[n] -> wire[n][Peer(n)] = <<>>
                  [] ~blocked[n] /\ Doing(n, "receive") -> wire[Peer(n)][n] # <<>>
                  [] Doing(n, "barrier") -> barrier[n] < call[n] \/ \A m \in Nodes : barrier[m] >= call[n]
                  [] OTHER -> TRUE

NoCircle == (\E n \in Nodes : ~Done(n)) => \E n \in Nodes : CanStep(n)
=============================================================================
