------------------------------- MODULE Coherence -------------------------------
(***************************************************************************)
(* Version-stamped cache coherence (class CoherentNode of                  *)
(* src/src/layers/cache/engine/DistributedCoherence.ts), for one key and   *)
(* entries that do not expire.  A value is the stamp of its write.         *)
(*                                                                         *)
(* The fabric may delay, reorder and lose what nodes broadcast; the bus of *)
(* the code delivers at once, and that is the behaviour in which each      *)
(* message is delivered next.  Probe and fetch are calls.  The nodes share *)
(* a clock.                                                                *)
(*                                                                         *)
(* OneWritePerTick says that no two writes fall into the same millisecond. *)
(***************************************************************************)
EXTENDS Integers, FiniteSets

CONSTANTS NodeCount,
          MaxWrites,        \* bound: writes and deletes of a node
          MaxWall,          \* bound
          MaxMessages,      \* bound: messages in flight
          MaxLost,          \* bound
          MaxRemovals,      \* bound: deletes and departures
          OneWritePerTick

Nodes == 1 .. NodeCount     \* nodeId, in the order of strings

ASSUME CoherenceAssumption ==
  /\ {NodeCount, MaxWrites, MaxWall, MaxMessages, MaxLost, MaxRemovals} \subseteq Nat
  /\ OneWritePerTick \in BOOLEAN

VARIABLES fabric,           \* eagerReplication and readRepair
          wall,
          stamped,          \* a write fell into this millisecond
          seq,
          copy,             \* each node's entry
          messages,
          attached,
          lost, removals

coherenceVars == <<fabric, wall, stamped, seq, copy, messages, attached, lost, removals>>

NoStamp == [origin |-> 0, seq |-> 0, wall |-> 0]
NoCopy == [version |-> NoStamp, state |-> "absent", floor |-> NoStamp]

CoherenceInit == /\ fabric \in [eager : BOOLEAN, repairs : BOOLEAN]
                 /\ wall = 0
                 /\ stamped = FALSE
                 /\ seq = [n \in Nodes |-> 0]
                 /\ copy = [n \in Nodes |-> NoCopy]
                 /\ messages = {}
                 /\ attached = Nodes
                 /\ lost = 0
                 /\ removals = 0

-----------------------------------------------------------------------------
\* isNewer, compareVersions: of one origin by sequence, else the last writer
\* wins, by clock and then by name.
Newer(a, b) == \/ a.origin = b.origin /\ a.seq > b.seq
               \/ a.origin # b.origin /\ a.wall > b.wall
               \/ a.origin # b.origin /\ a.wall = b.wall /\ a.origin > b.origin

Present(n) == copy[n].state # "absent"

Installed(v) == [version |-> v, state |-> "valid", floor |-> NoStamp]

NextStamp(n) == [origin |-> n, seq |-> seq[n] + 1, wall |-> wall]

\* A write or delete is told to all others; set does not ask what the entry is.
Broadcast(n, kind) ==
  /\ seq[n] < MaxWrites
  /\ OneWritePerTick => ~stamped
  /\ stamped' = TRUE
  /\ seq' = [seq EXCEPT ![n] = @ + 1]
  /\ messages' = messages \cup {[to |-> m, kind |-> kind, version |-> NextStamp(n)] :
                                  m \in attached \ {n}}
  /\ Cardinality(messages') <= MaxMessages
  /\ UNCHANGED <<fabric, wall, attached, lost>>

SetKey(n) ==
  /\ copy' = [copy EXCEPT ![n] = Installed(NextStamp(n))]
  /\ Broadcast(n, IF fabric.eager THEN "replicate" ELSE "invalidate")
  /\ UNCHANGED removals

DeleteKey(n) ==
  /\ removals < MaxRemovals
  /\ removals' = removals + 1
  /\ copy' = [copy EXCEPT ![n] = NoCopy]
  /\ Broadcast(n, "invalidate")

Leave(n) ==
  /\ n \in attached
  /\ removals < MaxRemovals
  /\ removals' = removals + 1
  /\ attached' = attached \ {n}
  /\ messages' = {m \in messages : m.to # n}
  /\ UNCHANGED <<fabric, wall, stamped, seq, copy, lost>>

Beats(v, c) == Newer(v, c.version)

\* An invalidation keeps the value, for others to fetch, and notes what killed
\* it; both kinds are held against the version of the entry alone.
Received(c, m) ==
  CASE m.kind = "invalidate" /\ c.state # "absent" /\ Beats(m.version, c) ->
         [c EXCEPT !.state = "stale", !.floor = m.version]
    [] m.kind = "replicate" /\ (c.state = "absent" \/ Beats(m.version, c)) ->
         Installed(m.version)
    [] OTHER -> c

Receive(m) ==
  /\ m \in messages
  /\ messages' = messages \ {m}
  /\ copy' = [copy EXCEPT ![m.to] = Received(@, m)]
  /\ UNCHANGED <<fabric, wall, stamped, seq, attached, lost, removals>>

Lose(m) ==
  /\ m \in messages
  /\ lost < MaxLost
  /\ lost' = lost + 1
  /\ messages' = messages \ {m}
  /\ UNCHANGED <<fabric, wall, stamped, seq, copy, attached, removals>>

\* What a repair takes: of an invalidated entry the write that killed it or a
\* newer one.
Acceptable(n, v) ==
  \/ ~Present(n)
  \/ copy[n].floor # NoStamp /\ (v = copy[n].floor \/ Newer(v, copy[n].floor))
  \/ copy[n].floor = NoStamp /\ Newer(v, copy[n].version)

Offers(n) == {copy[m].version : m \in {p \in attached \ {n} :
                                         Present(p) /\ Acceptable(n, copy[p].version)}}

\* Mutant: the first peer that answers is asked.
BestAny(S) == S

Best(S) == {v \in S : \A w \in S : ~Newer(w, v)}

\* get of an entry that cannot be served: _repairRead, or it is dropped.
GetKey(n) ==
  /\ copy[n].state # "valid"
  /\ IF fabric.repairs
     THEN \E v \in Best(Offers(n)) : copy' = [copy EXCEPT ![n] = Installed(v)]
     ELSE copy' = [copy EXCEPT ![n] = NoCopy]
  /\ UNCHANGED <<fabric, wall, stamped, seq, messages, attached, lost, removals>>

WallTick == /\ wall < MaxWall
            /\ wall' = wall + 1
            /\ stamped' = FALSE
            /\ UNCHANGED <<fabric, seq, copy, messages, attached, lost, removals>>

CoherenceNext == \/ \E n \in Nodes : SetKey(n) \/ DeleteKey(n) \/ Leave(n) \/ GetKey(n)
                 \/ \E m \in messages : Receive(m)
                 \/ \E m \in messages : Lose(m)
                 \/ WallTick

CoherenceSpec == CoherenceInit /\ [][CoherenceNext]_coherenceVars

-----------------------------------------------------------------------------
Stamps == [origin : Nodes \cup {0}, seq : 0 .. MaxWrites, wall : 0 .. MaxWall]

CoherenceTypeOK ==
  /\ fabric \in [eager : BOOLEAN, repairs : BOOLEAN]
  /\ copy \in [Nodes -> [version : Stamps, state : {"absent", "valid", "stale"}, floor : Stamps]]
  /\ \A m \in messages : m.to \in attached /\ m.version \in Stamps
  /\ \A n \in Nodes : copy[n].state = "stale" => Newer(copy[n].floor, copy[n].version)

\* Whatever is delayed, lost and reordered, and whoever repairs from whom, no
\* node replaces what it holds by an older write.
CopiesAdvance ==
  [][OneWritePerTick =>
       \A n \in Nodes : Present(n) /\ Present(n)'
         => ~Newer(copy[n].version, copy'[n].version)]_coherenceVars

\* DistributedCoherence.ts:40: "That single rule gives the system *convergence*:
\* once messages stop, all nodes agree."  With every message delivered and no
\* removal, no two nodes serve different writes.
Converges ==
  messages = {} /\ lost = 0 /\ removals = 0
    => \A n, m \in Nodes : copy[n].state = "valid" /\ copy[m].state = "valid"
         => copy[n].version = copy[m].version
=============================================================================
