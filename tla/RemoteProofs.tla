---------------------------- MODULE RemoteProofs -----------------------------
(***************************************************************************)
(* Proofs about a node that runs in pods, for any number of attempts, pods  *)
(* and launches, any failures, and any deaths of the orchestrator.          *)
(***************************************************************************)
EXTENDS Remote, FiniteSetTheorems, SequenceTheorems, TLAPS
-----------------------------------------------------------------------------
(* What is so of the remote attempts in every reachable state *)

PodType == [attempt : Attempt \cup {None}, phase : Phase, here : BOOLEAN, build : Build,
            owned : BOOLEAN, complete : BOOLEAN, dying : BOOLEAN]
ChangeType == [uid : Uid, kind : {"Added", "Modified", "Deleted"}, attempt : Attempt, phase : Phase]
MessageType == [phase : Phase, vanished : BOOLEAN]
Kind == {"header", "trailer", "admitted", "started", "succeeded", "failed", "terminal"}
State == {"none", "succeeded", "failed", "cancelled", "abandoned"}
LineType == [kind : Kind, build : Build \cup {"none"}, count : Int, state : State, output : BOOLEAN]
Intent == State \cup Ended \cup {"adopt", "create", "replace", "relaunch", "timed-out"}

RemoteTypes ==
    /\ build \in Build /\ pods \in [Uid -> PodType] /\ feed \in Seq(ChangeType)
    /\ mode \in {"list", "resume", "read", "failed", "stopped"}
    /\ seen \subseteq Attempt /\ finished \in [Attempt -> Uid \cup {None} \cup {PodName[a] : a \in Attempt}]
    /\ live \subseteq Attempt /\ pending \in [Attempt -> Seq(MessageType)]
    /\ ear \in {None, attempt} /\ mail \in Seq(MessageType) /\ finals \in [Attempt -> Nat]
    /\ attempt \in Attempt /\ claims \in [Attempt -> {"none", "adopted", "refused"}]
    /\ announced \in [Attempt -> Nat] /\ shard \in [Attempt -> Seq(LineType)]
    /\ values \subseteq Attempt
    /\ after \in Intent /\ buffer \in Seq(Attempt \X Intent)
    /\ stream \in Seq((Attempt \cup {None}) \X Intent)

\* The cluster gives its identifiers in order, holds one pod of an attempt at
\* most, the newest, and only pods somebody made.
Cluster ==
    /\ \A u \in Held : pods[u].attempt \in Attempt
    /\ \A u, v \in Uid : pods[u].attempt # None /\ pods[v].attempt = None => u < v
    /\ \A u \in Held, v \in Uid : pods[v].attempt = pods[u].attempt => v <= u
    /\ \A u \in Uid \ Held : ~Ours(pods[u])
    /\ \A a \in Attempt : IsFiniteSet(PodsOf(a))

\* The record comes before the pod.
InLog ==
    /\ Announced
    /\ pc = "create" => Cardinality(PodsOf(attempt)) < announced[attempt]

\* The changes to come: of an attempt, in the order of its pods, and none older
\* than the object it was finished with.
InFeed(u) == \E i \in DOMAIN feed : feed[i].uid = u
FeedInv ==
    /\ \A i \in DOMAIN feed : pods[feed[i].uid].attempt = feed[i].attempt
    /\ \A i, j \in DOMAIN feed :
         i < j /\ feed[i].attempt = feed[j].attempt => feed[i].uid <= feed[j].uid
    /\ \A i \in DOMAIN feed : LET b == finished[feed[i].attempt] IN b \in Uid => b <= feed[i].uid
    /\ \A a \in Attempt : finished[a] \in Uid => finished[a] \in PodsOf(a)

\* A pod is spent when the observer is not told of it again, or does not heed it.
Quiet(u) == ~Attributable(pods[u], build) /\ ~InFeed(u)
Spent(a) == {u \in PodsOf(a) : u = finished[a] \/ Quiet(u)}

\* Each final observation has spent a pod of its own; an attempt that was seen
\* and has not ended has one to spend.
Counts ==
    /\ \A a \in Attempt : finals[a] <= Cardinality(Spent(a))
    /\ \A a \in seen : finished[a] = None => finals[a] < Cardinality(PodsOf(a))

\* A success that is heard of has been one: in the feed, in the buffers and in
\* the mail, which is the waiting attempt's.
Backed(a) == \E u \in PodsOf(a) : pods[u].phase = "Succeeded"
FeedHeard == \A i \in DOMAIN feed : feed[i].phase = "Succeeded" => Backed(feed[i].attempt)
Buffered ==
    \A a \in Attempt : \A i \in DOMAIN pending[a] : pending[a][i].phase = "Succeeded" => Backed(a)
InMail == \A i \in DOMAIN mail : ear = attempt /\ (mail[i].phase = "Succeeded" => Backed(attempt))
Heard == FeedHeard /\ Buffered /\ InMail

\* A file that records an output has its value in the container.
Files == \A a \in Attempt : shard[a] # Missing /\ Last(shard[a]).output => a \in values

Waiting == {"probe", "announce", "create", "note", "await", "patch", "delete"}
Closing == {"tombstone", "retry", "flush"}

\* What the runner has in hand, by where it is
Hand ==
    /\ pc \in {"discover", "launch", "conclude", "done"} \cup Waiting \cup Closing
    /\ pc \notin Waiting => ear = None
    /\ pc \in {"patch", "delete"} => after \in {"replace", "relaunch", "cancelled", "timed-out"}
    /\ pc = "conclude" => after \in Ended /\ (after = "Succeeded" => Backed(attempt))
    /\ pc \in Closing /\ after = "succeeded" => Backed(attempt)
    /\ reference => pc \in Closing /\ attempt \in values /\ (pc # "flush" => after = "succeeded")
    /\ pc = "flush" /\ after = "succeeded" => attempt \in values
    /\ mode = "stopped" => pc = "done"

\* An attempt whose claim was not refused has no live pod of another build.
Mine(a) == \A u \in Holder(a) : Ours(pods[u]) => pods[u].build = build
Respect ==
    /\ pc \notin {"discover", "launch", "flush", "done"} => claims[attempt] = "none"
    /\ pc \notin {"discover", "flush", "done"} =>
         \A a \in Attempt : claims[a] # "refused" => Mine(a)

RemoteInv ==
    /\ RemoteTypes /\ Cluster /\ InLog /\ FeedInv /\ FinalOnce /\ (mode # "stopped" => Counts)
    /\ Heard /\ Files /\ Hand /\ Respect /\ SuccessIsBacked

-----------------------------------------------------------------------------
(* The pods *)

\* The attempt of a pod has its set of pods, and a set of pods its number.
LEMMA PodsCount ==
    ASSUME Cluster, NEW a \in Attempt
    PROVE  /\ PodsOf(a) \subseteq Uid /\ IsFiniteSet(PodsOf(a)) /\ Cardinality(PodsOf(a)) \in Nat
           /\ IsFiniteSet(Spent(a)) /\ Cardinality(Spent(a)) \in Nat
           /\ Spent(a) \subseteq PodsOf(a) /\ Cardinality(Spent(a)) <= Cardinality(PodsOf(a))
<1>1. IsFiniteSet(PodsOf(a)) /\ PodsOf(a) \subseteq Uid /\ Spent(a) \subseteq PodsOf(a)
  BY DEF Cluster, PodsOf, Spent
<1>2. QED
  BY <1>1, FS_Subset, FS_CardinalityType

\* What a change does to the pods, and what the watch is told of it.
Told(u, e) == feed' = Append(feed, e) /\ e \in ChangeType /\ e.uid = u
              /\ e.attempt = pods'[u].attempt /\ e.phase = pods'[u].phase

\* What a change does to the pod it is of, and to the feed.
LEMMA PodEdited ==
    ASSUME RemoteTypes, NEW u \in Uid, NEW p \in PodType,
           NEW kind \in {"Added", "Modified", "Deleted"}, p.attempt \in Attempt, Changes(u, p, kind)
    PROVE  /\ pods' \in [Uid -> PodType] /\ \A v \in Uid \ {u} : pods'[v] = pods[v]
           /\ pods'[u].attempt = p.attempt /\ pods'[u].phase = p.phase /\ pods'[u].here = p.here
           /\ pods'[u].here => pods'[u] = p
           /\ ~pods'[u].here => ~Ours(pods'[u])
           /\ build' = build /\ (feed' = feed \/ (Attributable(p, build) /\ \E e \in ChangeType : Told(u, e)))
<1> DEFINE q == IF p.here THEN p ELSE [Unborn EXCEPT !.attempt = p.attempt, !.phase = p.phase]
           e == [uid |-> u, kind |-> kind, attempt |-> p.attempt, phase |-> p.phase]
<1>1. build' = build /\ pods' = [pods EXCEPT ![u] = q] /\ (feed' = feed \/ (Attributable(p, build) /\ feed' = Append(feed, e)))
  BY DEF Changes
<1>2. q \in PodType /\ q.attempt = p.attempt /\ q.phase = p.phase /\ q.here = p.here
      /\ (q.here => q = p) /\ (~q.here => ~Ours(q))
  BY WatchAssumption DEF PodType, Unborn, Ours
<1>3. e \in ChangeType /\ e.uid = u /\ e.attempt = p.attempt /\ e.phase = p.phase
  BY DEF ChangeType, PodType
<1> HIDE DEF q, e
<1>4. pods' \in [Uid -> PodType] /\ pods'[u] = q /\ \A v \in Uid \ {u} : pods'[v] = pods[v]
  BY <1>1, <1>2 DEF RemoteTypes
<1>5. feed' = Append(feed, e) => Told(u, e)
  BY <1>2, <1>3, <1>4 DEF Told
<1>6. QED
  BY <1>1, <1>2, <1>3, <1>4, <1>5

\* The changes, the messages and the lines are what they are typed.
LEMMA FeedTyped ==
    ASSUME RemoteTypes
    PROVE  \A i \in DOMAIN feed : /\ feed[i] \in ChangeType /\ feed[i].uid \in Uid
                                  /\ feed[i].attempt \in Attempt /\ feed[i].phase \in Phase
<1>1. feed \in Seq(ChangeType)
  BY DEF RemoteTypes
<1> HIDE DEF ChangeType
<1>2. \A i \in DOMAIN feed : feed[i] \in ChangeType
  BY <1>1
<1>3. QED
  BY <1>2 DEF ChangeType

\* A change appended to the feed: what is in it now.
LEMMA FeedGrows ==
    ASSUME RemoteTypes, NEW u \in Uid, NEW e \in ChangeType, Told(u, e)
    PROVE  /\ feed' \in Seq(ChangeType) /\ DOMAIN feed' = 1..(Len(feed) + 1)
           /\ DOMAIN feed = 1..Len(feed) /\ Len(feed) \in Nat
           /\ \A i \in DOMAIN feed : feed'[i] = feed[i] /\ i \in DOMAIN feed'
           /\ feed'[Len(feed) + 1] = e
           /\ \A v \in Uid : InFeed(v)' <=> (InFeed(v) \/ v = u)
<1>1. /\ feed' \in Seq(ChangeType) /\ DOMAIN feed' = 1..(Len(feed) + 1)
      /\ DOMAIN feed = 1..Len(feed) /\ Len(feed) \in Nat
      /\ \A i \in DOMAIN feed : feed'[i] = feed[i] /\ i \in DOMAIN feed'
      /\ feed'[Len(feed) + 1] = e
  BY DEF RemoteTypes, Told
<1>2. \A v \in Uid : InFeed(v)' <=> (InFeed(v) \/ v = u)
  BY <1>1 DEF InFeed, Told
<1>3. QED
  BY <1>1, <1>2

\* An edit of a pod: it stays the attempt's and its build's, is not owned again,
\* and a success stays one.
Edits(u, p) ==
    /\ p.attempt = pods[u].attempt /\ p.build = pods[u].build
    /\ p.owned => pods[u].owned
    /\ pods[u].complete => p.complete
    /\ pods[u].phase = "Succeeded" => p.phase = "Succeeded"

\* What every change of the cluster leaves of the pods
PodsKept ==
    \A a \in Attempt : /\ PodsOf(a) \subseteq PodsOf(a)'
                       /\ Backed(a) => Backed(a)'
                       /\ Mine(a) => Mine(a)'

\* With no pod of any attempt gone and no spent one back, the counts hold on.
LEMMA CountsKept ==
    ASSUME Cluster, Counts, Cluster', \A a \in Attempt : PodsOf(a) \subseteq PodsOf(a)',
           \A a \in Attempt : Spent(a) \subseteq Spent(a)',
           finals \in [Attempt -> Nat], seen \subseteq Attempt, UNCHANGED <<seen, finished, finals>>
    PROVE  Counts'
<1>1. ASSUME NEW a \in Attempt
      PROVE  /\ Cardinality(Spent(a)) <= Cardinality(Spent(a)')
             /\ Cardinality(PodsOf(a)) <= Cardinality(PodsOf(a)')
             /\ {Cardinality(Spent(a)), Cardinality(Spent(a)'), Cardinality(PodsOf(a)),
                 Cardinality(PodsOf(a)')} \subseteq Nat
  <2>1. IsFiniteSet(PodsOf(a)) /\ IsFiniteSet(PodsOf(a)')
    BY DEF Cluster
  <2>2. Spent(a) \subseteq PodsOf(a) /\ Spent(a)' \subseteq PodsOf(a)'
    BY DEF Spent
  <2>3. IsFiniteSet(Spent(a)) /\ IsFiniteSet(Spent(a)')
    BY <2>1, <2>2, FS_Subset
  <2>4. QED
    BY <2>1, <2>3, FS_Subset, FS_CardinalityType
<1>2. QED
  BY <1>1 DEF Counts

\* A change of a held pod that keeps its attempt keeps the cluster, the feed and the counts.
LEMMA EditKeeps ==
    ASSUME RemoteTypes, Cluster, FeedInv, FeedHeard, NEW u \in Held, NEW p \in PodType,
           NEW kind \in {"Modified", "Deleted"}, Changes(u, p, kind), Edits(u, p),
           UNCHANGED <<seen, finished, finals>>
    PROVE  /\ pods' \in [Uid -> PodType] /\ feed' \in Seq(ChangeType)
           /\ build' = build
           /\ Cluster' /\ FeedInv' /\ FeedHeard' /\ PodsKept /\ (Counts => Counts')
           /\ \A a \in Attempt : PodsOf(a)' = PodsOf(a)
           /\ \A a \in Attempt : Holder(a)' \subseteq Holder(a)
<1>0. \A i \in DOMAIN feed : /\ feed[i] \in ChangeType /\ feed[i].uid \in Uid
                             /\ feed[i].attempt \in Attempt /\ feed[i].phase \in Phase
  BY FeedTyped
<1>1. u \in Uid /\ pods[u].attempt \in Attempt /\ u \in Nat
  BY WatchAssumption DEF Held, Cluster
<1>2. /\ pods' \in [Uid -> PodType] /\ \A v \in Uid \ {u} : pods'[v] = pods[v]
      /\ pods'[u].attempt = pods[u].attempt /\ pods'[u].here = p.here
      /\ pods[u].phase = "Succeeded" => pods'[u].phase = "Succeeded"
      /\ pods'[u].here => pods'[u] = p
      /\ ~pods'[u].here => ~Ours(pods'[u])
      /\ build' = build /\ (feed' = feed \/ (Attributable(p, build) /\ \E e \in ChangeType : Told(u, e)))
  BY <1>1, PodEdited DEF Edits
<1>3. \A a \in Attempt : PodsOf(a)' = PodsOf(a)
  BY <1>1, <1>2 DEF PodsOf
<1>4. \A a \in Attempt : Backed(a) => Backed(a)'
  BY <1>1, <1>2 DEF Backed, PodsOf
<1>5. Held' \subseteq Held /\ \A a \in Attempt : Holder(a)' \subseteq Holder(a)
  BY <1>1, <1>2 DEF Held, Holder
<1>6. \A a \in Attempt : Mine(a) => Mine(a)'
  BY <1>1, <1>2, <1>5 DEF Mine, Holder, Held, Ours, Edits
<1>7. \A v \in Uid : Attributable(pods'[v], build') => Attributable(pods[v], build)
  BY <1>1, <1>2 DEF Attributable, Ours, Edits, PodType
<1>8. Cluster'
  <2>1. \A v \in Held' : pods'[v].attempt \in Attempt
    BY <1>1, <1>2, <1>5 DEF Cluster, Held
  <2>2. \A v, w \in Uid : pods'[v].attempt # None /\ pods'[w].attempt = None => v < w
    BY <1>1, <1>2 DEF Cluster
  <2>3. \A v \in Held', w \in Uid : pods'[w].attempt = pods'[v].attempt => w <= v
    <3>1. \A v \in Uid : pods'[v].attempt = pods[v].attempt
      BY <1>1, <1>2
    <3>2. QED
      BY <1>5, <3>1 DEF Cluster, Held
  <2>4. \A v \in Uid \ Held' : ~Ours(pods'[v])
    BY <1>1, <1>2 DEF Cluster, Held
  <2>5. \A a \in Attempt : IsFiniteSet(PodsOf(a)')
    BY <1>3 DEF Cluster
  <2>6. QED
    BY <2>1, <2>2, <2>3, <2>4, <2>5 DEF Cluster, Held
<1>9. CASE feed' = feed
  <2>1. FeedInv'
    <3>1. \A i \in DOMAIN feed : pods'[feed[i].uid].attempt = feed[i].attempt
      BY <1>0, <1>1, <1>2 DEF FeedInv
    <3>2. \A a \in Attempt : finished[a] \in Uid => finished[a] \in PodsOf(a)'
      BY <1>3 DEF FeedInv
    <3>3. QED
      BY <1>9, <3>1, <3>2 DEF FeedInv
  <2>2. FeedHeard'
    BY <1>0, <1>4, <1>9 DEF FeedHeard
  <2>3. \A a \in Attempt : Spent(a) \subseteq Spent(a)'
    <3>1. \A v \in Uid : Quiet(v) => Quiet(v)'
      BY <1>7, <1>9 DEF Quiet, InFeed
    <3>2. QED
      BY <1>3, <3>1 DEF Spent, PodsOf
  <2>4. Counts => Counts'
    BY <1>3, <1>8, <2>3, CountsKept DEF RemoteTypes
  <2>5. QED
    BY <1>2, <1>3, <1>4, <1>5, <1>6, <1>8, <1>9, <2>1, <2>2, <2>4 DEF PodsKept, RemoteTypes
<1>10. CASE Attributable(p, build) /\ \E e \in ChangeType : Told(u, e)
  <2>1. PICK e \in ChangeType : Told(u, e)
    BY <1>10
  <2>2. /\ feed' \in Seq(ChangeType) /\ DOMAIN feed' = 1..(Len(feed) + 1)
        /\ DOMAIN feed = 1..Len(feed) /\ Len(feed) \in Nat
        /\ \A i \in DOMAIN feed : feed'[i] = feed[i] /\ i \in DOMAIN feed'
        /\ feed'[Len(feed) + 1] = e
        /\ \A v \in Uid : InFeed(v)' <=> (InFeed(v) \/ v = u)
    BY <1>1, <2>1, FeedGrows
  <2>3. /\ e.uid = u /\ e.attempt = pods[u].attempt /\ e.phase = pods'[u].phase
        /\ Attributable(pods[u], build)
    BY <1>1, <1>2, <1>10, <2>1 DEF Told, Attributable, Ours, Edits, PodType
  <2>4. FeedInv'
    <3>0. \A v \in Uid : pods'[v].attempt = pods[v].attempt
      BY <1>2
    <3>1. \A i \in DOMAIN feed' : pods'[feed'[i].uid].attempt = feed'[i].attempt
      <4>1. \A i \in DOMAIN feed : pods'[feed'[i].uid].attempt = feed'[i].attempt
        BY <1>0, <2>2, <3>0 DEF FeedInv
      <4>2. QED
        BY <1>1, <2>2, <2>3, <3>0, <4>1
    <3>2. \A i \in DOMAIN feed : feed[i].attempt = pods[u].attempt => feed[i].uid <= u
      BY <1>0, <1>1 DEF FeedInv, Cluster
    <3>3. \A i, j \in DOMAIN feed' :
            i < j /\ feed'[i].attempt = feed'[j].attempt => feed'[i].uid <= feed'[j].uid
      BY <2>2, <2>3, <3>2 DEF FeedInv
    <3>4. \A i \in DOMAIN feed' :
            LET b == finished[feed'[i].attempt] IN b \in Uid => b <= feed'[i].uid
      <4>1. finished[pods[u].attempt] \in Uid => finished[pods[u].attempt] <= u
        BY <1>1 DEF FeedInv, Cluster, PodsOf
      <4>2. QED
        BY <2>2, <2>3, <4>1 DEF FeedInv
    <3>5. \A a \in Attempt : finished[a] \in Uid => finished[a] \in PodsOf(a)'
      BY <1>3 DEF FeedInv
    <3>6. finished' = finished
      OBVIOUS
    <3>7. QED
      BY <3>1, <3>3, <3>4, <3>5, <3>6 DEF FeedInv
  <2>5. FeedHeard'
    <3>1. e.phase = "Succeeded" => Backed(e.attempt)'
      BY <1>1, <1>2, <2>3 DEF Backed, PodsOf
    <3>2. QED
      BY <1>0, <1>4, <2>2, <3>1 DEF FeedHeard
  <2>6. \A a \in Attempt : Spent(a) \subseteq Spent(a)'
    <3>1. \A v \in Uid : Quiet(v) => Quiet(v)'
      BY <1>7, <2>2, <2>3 DEF Quiet
    <3>2. QED
      BY <1>3, <3>1 DEF Spent, PodsOf
  <2>7. Counts => Counts'
    BY <1>3, <1>8, <2>6, CountsKept DEF RemoteTypes
  <2>8. QED
    BY <1>2, <1>3, <1>4, <1>5, <1>6, <1>8, <2>2, <2>4, <2>5, <2>7 DEF PodsKept
<1>11. QED
  BY <1>2, <1>9, <1>10

\* A new pod is the attempt's newest, and no pod of it was there.
LEMMA BirthKeeps ==
    ASSUME RemoteTypes, Cluster, FeedInv, FeedHeard, Creates, UNCHANGED <<seen, finished, finals>>
    PROVE  /\ pods' \in [Uid -> PodType] /\ feed' \in Seq(ChangeType)
           /\ build' = build
           /\ Cluster' /\ FeedInv' /\ FeedHeard' /\ PodsKept /\ (Counts => Counts')
           /\ \A a \in Attempt : Cardinality(PodsOf(a)') <=
                  IF a = attempt THEN Cardinality(PodsOf(a)) + 1 ELSE Cardinality(PodsOf(a))
<1>0. /\ \A i \in DOMAIN feed : /\ feed[i] \in ChangeType /\ feed[i].uid \in Uid
                                /\ feed[i].attempt \in Attempt /\ feed[i].phase \in Phase
      /\ attempt \in Attempt /\ None \notin Attempt /\ Uid \subseteq Nat
  BY FeedTyped, WatchAssumption DEF RemoteTypes
<1>1. PICK u \in Spare : (\A v \in Spare : u <= v) /\ Changes(u, NewPod, "Added")
  BY DEF Creates
<1>2. u \in Uid /\ pods[u].attempt = None /\ NewPod \in PodType /\ NewPod.attempt = attempt
      /\ NewPod.phase = "Pending" /\ NewPod.here /\ NewPod.build = build /\ u \in Nat
  BY <1>0, <1>1 DEF RemoteTypes, Spare, NewPod, Unborn, PodType, Phase
<1>3. /\ pods' \in [Uid -> PodType] /\ \A v \in Uid \ {u} : pods'[v] = pods[v]
      /\ pods'[u].attempt = attempt /\ pods'[u].here /\ pods'[u].phase = "Pending" /\ pods'[u].build = build
      /\ build' = build /\ (feed' = feed \/ \E e \in ChangeType : Told(u, e))
  <2>1. /\ pods' \in [Uid -> PodType] /\ \A v \in Uid \ {u} : pods'[v] = pods[v]
        /\ pods'[u].attempt = NewPod.attempt /\ pods'[u].phase = NewPod.phase
        /\ pods'[u].here = NewPod.here /\ (pods'[u].here => pods'[u] = NewPod) /\ build' = build
        /\ (feed' = feed \/ \E e \in ChangeType : Told(u, e))
    <3> HIDE DEF NewPod
    <3>1. QED
      BY <1>0, <1>1, <1>2, PodEdited
  <2>2. QED
    BY <1>2, <2>1
<1>4. \A v \in Uid : pods[v].attempt \in Attempt => v < u /\ v # u /\ pods'[v] = pods[v]
  BY <1>0, <1>2, <1>3 DEF Cluster
<1>5. \A a \in Attempt : PodsOf(a)' = IF a = attempt THEN PodsOf(a) \cup {u} ELSE PodsOf(a)
  BY <1>0, <1>2, <1>3, <1>4 DEF PodsOf
<1>6. Held' = Held \cup {u} /\ u \notin Held /\ \A v \in Held : pods'[v].attempt # attempt
  <2>1. Held' = Held \cup {u} /\ u \notin Held
    BY <1>0, <1>2, <1>3 DEF Held, Cluster
  <2>2. QED
    BY <1>2, <1>3, <2>1 DEF Creates, Holder, Held
<1>7. Cluster'
  <2>1. \A v \in Held' : pods'[v].attempt \in Attempt
    <3>1. \A v \in Held : v # u /\ v \in Uid /\ pods[v].attempt \in Attempt
      BY <1>6 DEF Cluster, Held
    <3>2. attempt \in Attempt
      BY <1>0
    <3>3. QED
      BY <1>3, <1>6, <3>1, <3>2
  <2>2. \A v, w \in Uid : pods'[v].attempt # None /\ pods'[w].attempt = None => v < w
    BY <1>0, <1>1, <1>2, <1>3 DEF Cluster, Spare
  <2>3. \A v \in Held', w \in Uid : pods'[w].attempt = pods'[v].attempt => w <= v
    <3>1. ASSUME NEW w \in Uid, pods'[w].attempt = attempt
          PROVE  w <= u
      <4>1. CASE w = u
        BY <1>2, <4>1
      <4>2. CASE w # u
        <5>1. pods[w].attempt \in Attempt
          BY <1>0, <1>3, <3>1, <4>2
        <5>2. w < u /\ w \in Nat
          BY <1>0, <1>4, <5>1
        <5>3. QED
          BY <1>2, <5>2
      <4>3. QED
        BY <4>1, <4>2
    <3>2. ASSUME NEW v \in Held, NEW w \in Uid, pods'[w].attempt = pods'[v].attempt
          PROVE  w <= v
      <4>1. w # u /\ v # u /\ v \in Uid
        BY <1>3, <1>6, <3>2 DEF Held
      <4>2. pods'[w] = pods[w] /\ pods'[v] = pods[v]
        BY <1>3, <4>1
      <4>3. QED
        BY <3>2, <4>2 DEF Cluster
    <3>3. QED
      BY <1>3, <1>6, <3>1, <3>2
  <2>4. \A v \in Uid \ Held' : ~Ours(pods'[v])
    BY <1>3, <1>6 DEF Cluster
  <2>5. \A a \in Attempt : IsFiniteSet(PodsOf(a)')
    BY <1>5, FS_AddElement DEF Cluster
  <2>6. QED
    BY <2>1, <2>2, <2>3, <2>4, <2>5 DEF Cluster
<1>8. \A a \in Attempt : PodsOf(a) \subseteq PodsOf(a)' /\ \A v \in PodsOf(a) : pods'[v] = pods[v]
  BY <1>4, <1>5 DEF PodsOf
<1>9. PodsKept
  <2>1. \A a \in Attempt : Backed(a) => Backed(a)'
    BY <1>8 DEF Backed
  <2>2. ASSUME NEW a \in Attempt, Mine(a)
        PROVE  Mine(a)'
    <3>1. \A v \in Holder(a)' : v = u \/ (v \in Holder(a) /\ pods'[v] = pods[v])
      BY <1>3, <1>6 DEF Holder, Held
    <3>2. QED
      BY <1>3, <2>2, <3>1 DEF Mine
  <2>3. QED
    BY <1>8, <2>1, <2>2 DEF PodsKept
<1>10. \A a \in Attempt : Cardinality(PodsOf(a)') <=
                  IF a = attempt THEN Cardinality(PodsOf(a)) + 1 ELSE Cardinality(PodsOf(a))
  <2>1. \A a \in Attempt : IsFiniteSet(PodsOf(a)) /\ Cardinality(PodsOf(a)) \in Nat
    BY PodsCount
  <2>2. Cardinality(PodsOf(attempt) \cup {u}) <= Cardinality(PodsOf(attempt)) + 1
    <3>1. IsFiniteSet(PodsOf(attempt)) /\ Cardinality(PodsOf(attempt)) \in Nat
      BY <1>0, <2>1
    <3>2. Cardinality(PodsOf(attempt) \cup {u}) =
            IF u \in PodsOf(attempt) THEN Cardinality(PodsOf(attempt))
                                    ELSE Cardinality(PodsOf(attempt)) + 1
      BY <3>1, FS_AddElement
    <3>3. QED
      BY <3>1, <3>2
  <2>3. QED
    BY <1>5, <2>1, <2>2
<1>11. \A i \in DOMAIN feed : pods'[feed[i].uid].attempt = feed[i].attempt /\ feed[i].uid < u
  BY <1>0, <1>4 DEF FeedInv
<1>12. /\ \A a \in Attempt : finished[a] \in Uid => finished[a] \in PodsOf(a)'
       /\ \A a \in Attempt : finished[a] \in Uid => finished[a] < u
  BY <1>4, <1>5 DEF FeedInv, PodsOf
<1>13. \A i \in DOMAIN feed, a \in Attempt :
          feed[i].phase = "Succeeded" /\ feed[i].attempt = a => Backed(a)'
  <2>1. \A a \in Attempt : Backed(a) => Backed(a)'
    BY <1>9 DEF PodsKept
  <2>2. QED
    BY <2>1 DEF FeedHeard
<1>14. CASE feed' = feed
  <2>1. FeedInv'
    BY <1>11, <1>12, <1>14 DEF FeedInv
  <2>2. FeedHeard'
    BY <1>0, <1>13, <1>14 DEF FeedHeard
  <2>3. \A a \in Attempt : Spent(a) \subseteq Spent(a)'
    BY <1>3, <1>8, <1>14 DEF Spent, Quiet, InFeed
  <2>4. Counts => Counts'
    BY <1>7, <1>8, <2>3, CountsKept DEF RemoteTypes
  <2>5. QED
    BY <1>3, <1>7, <1>9, <1>10, <1>14, <2>1, <2>2, <2>4 DEF RemoteTypes
<1>15. CASE \E e \in ChangeType : Told(u, e)
  <2>1. PICK e \in ChangeType : Told(u, e)
    BY <1>15
  <2>2. /\ feed' \in Seq(ChangeType) /\ DOMAIN feed' = 1..(Len(feed) + 1)
        /\ DOMAIN feed = 1..Len(feed) /\ Len(feed) \in Nat
        /\ \A i \in DOMAIN feed : feed'[i] = feed[i] /\ i \in DOMAIN feed'
        /\ feed'[Len(feed) + 1] = e
        /\ \A v \in Uid : InFeed(v)' <=> (InFeed(v) \/ v = u)
    BY <1>2, <2>1, FeedGrows
  <2>3. e.uid = u /\ e.attempt = attempt /\ e.phase = "Pending"
    BY <1>3, <2>1 DEF Told
  <2>4. FeedInv'
    <3>1. \A i \in DOMAIN feed' : pods'[feed'[i].uid].attempt = feed'[i].attempt
      BY <1>3, <1>11, <2>2, <2>3
    <3>2. \A i, j \in DOMAIN feed' :
            i < j /\ feed'[i].attempt = feed'[j].attempt => feed'[i].uid <= feed'[j].uid
      <4>1. \A i \in DOMAIN feed : feed[i].uid <= u
        <5>1. \A i \in DOMAIN feed : feed[i].uid \in Nat
          BY <1>0
        <5>2. QED
          BY <1>2, <1>11, <5>1
      <4>2. QED
        BY <2>2, <2>3, <4>1 DEF FeedInv
    <3>3. \A i \in DOMAIN feed' :
            LET b == finished[feed'[i].attempt] IN b \in Uid => b <= feed'[i].uid
      <4>1. finished[attempt] \in Uid => finished[attempt] <= u
        <5>1. Uid \subseteq Nat /\ attempt \in Attempt
          BY <1>0
        <5>2. finished[attempt] \in Uid => finished[attempt] < u
          BY <1>12, <5>1
        <5>3. u \in Nat /\ \A x, y \in Nat : x < y => x <= y
          BY <1>2
        <5>4. QED
          BY <5>1, <5>2, <5>3
      <4>2. QED
        BY <2>2, <2>3, <4>1 DEF FeedInv
    <3>4. \A a \in Attempt : finished[a] \in Uid => finished[a] \in PodsOf(a)'
      BY <1>12
    <3>5. finished' = finished
      OBVIOUS
    <3>6. QED
      BY <3>1, <3>2, <3>3, <3>4, <3>5 DEF FeedInv
  <2>5. FeedHeard'
    <3>1. \A i \in DOMAIN feed :
             feed'[i].phase = "Succeeded" => \A a \in Attempt : feed'[i].attempt = a => Backed(a)'
      BY <1>13, <2>2
    <3>2. \A i \in DOMAIN feed' : feed'[i].attempt \in Attempt
      BY <1>0, <2>2, <2>3
    <3>3. QED
      BY <2>2, <2>3, <3>1, <3>2 DEF FeedHeard
  <2>6. \A a \in Attempt : Spent(a) \subseteq Spent(a)'
    <3>1. \A a \in Attempt : \A v \in PodsOf(a) : v \in Uid /\ v # u
      BY <1>0, <1>2 DEF PodsOf
    <3>2. QED
      BY <1>3, <1>8, <2>2, <3>1 DEF Spent, Quiet
  <2>7. Counts => Counts'
    BY <1>7, <1>8, <2>6, CountsKept DEF RemoteTypes
  <2>8. QED
    BY <1>3, <1>7, <1>9, <1>10, <2>2, <2>4, <2>5, <2>7
<1>16. QED
  BY <1>3, <1>14, <1>15

-----------------------------------------------------------------------------
(* The observer *)

ReadingType == [uid : Uid \cup {PodName[a] : a \in Attempt}, attempt : Attempt,
                phase : Phase, vanished : BOOLEAN]

\* Readings that may be believed: of an attempt one, about a pod of it that was
\* not spent and is no older than the one it was finished with, or about its
\* name when it was seen and has not ended.
Truthful(readings) ==
    \A r \in readings :
        /\ r \in ReadingType
        /\ \A s \in readings : s.attempt = r.attempt => s = r
        /\ r.phase = "Succeeded" => Backed(r.attempt)
        /\ r.uid \in Uid =>
             /\ r.uid \in PodsOf(r.attempt) /\ ~Quiet(r.uid)
             /\ finished[r.attempt] \in Uid => finished[r.attempt] <= r.uid
        /\ r.uid \notin Uid =>
             r.vanished /\ r.attempt \in seen /\ finished[r.attempt] = None

\* What is left of the feed is newer than the readings, and older pods are quiet.
Onward(readings) ==
    /\ feed' \in Seq(ChangeType)
    /\ \E d \in 0..Len(feed) : Len(feed') = Len(feed) - d
                               /\ \A i \in DOMAIN feed' : feed'[i] = feed[i + d]
    /\ \A r \in readings :
         /\ \A i \in DOMAIN feed' : feed'[i].attempt = r.attempt => r.uid <= feed'[i].uid
         /\ \A b \in PodsOf(r.attempt) : (r.uid \in Uid => b < r.uid) => Quiet(b)'

\* What an attempt that is told of nothing keeps, and what reading r changes of it.
Untold(a) == finished'[a] = finished[a] /\ finals'[a] = finals[a] /\ pending'[a] = pending[a]
ToldOf(a, r) ==
    /\ r.attempt = a /\ IsNews(r)
    /\ finished'[a] = IF IsFinal(r) THEN r.uid ELSE None
    /\ finals'[a] = IF IsFinal(r) THEN finals[a] + 1 ELSE finals[a]
    /\ pending'[a] = pending[a] \/ pending'[a] = Append(pending[a], Message(r))

\* Each attempt is told of nothing, or of one reading that is news.
LEMMA TellsEach ==
    ASSUME RemoteTypes, NEW readings, Truthful(readings), Tells(readings)
    PROVE  /\ \A a \in Attempt : Untold(a) \/ \E r \in readings : ToldOf(a, r)
           /\ mail' = mail \/ \E r \in readings : r.attempt = ear /\ mail' = Append(mail, Message(r))
           /\ seen' = seen \cup {r.attempt : r \in readings} /\ live' \subseteq live /\ ear' = ear
           /\ finished' = [a \in Attempt |-> finished'[a]] /\ finals' = [a \in Attempt |-> finals'[a]]
           /\ pending' = [a \in Attempt |-> pending'[a]]
<1> DEFINE heard == {a \in Attempt : \E r \in readings : r.attempt = a /\ IsNews(r)}
           news == [a \in heard |-> CHOOSE r \in readings : r.attempt = a /\ IsNews(r)]
           final == {a \in heard : IsFinal(news[a])}
<1>1. /\ seen' = seen \cup {r.attempt : r \in readings}
      /\ finished' = [a \in Attempt |-> IF a \in final THEN news[a].uid
                                        ELSE IF a \in heard THEN None ELSE finished[a]]
      /\ finals' = [a \in Attempt |-> IF a \in final THEN finals[a] + 1 ELSE finals[a]]
      /\ live' = live \ final
      /\ mail' = IF ear \in heard \cap live THEN Append(mail, Message(news[ear])) ELSE mail
      /\ pending' = [a \in Attempt |-> IF a \in heard \ live
                                       THEN Append(pending[a], Message(news[a])) ELSE pending[a]]
      /\ ear' = ear
  BY DEF Tells
<1>2. ASSUME NEW a \in heard
      PROVE  news[a] \in readings /\ news[a].attempt = a /\ IsNews(news[a])
  <2>1. \E r \in readings : r.attempt = a /\ IsNews(r)
    OBVIOUS
  <2>2. news[a] = CHOOSE r \in readings : r.attempt = a /\ IsNews(r)
    OBVIOUS
  <2> HIDE DEF news
  <2>3. QED
    BY <2>1, <2>2
<1>3. heard \subseteq Attempt /\ \A a \in heard : a \in final <=> IsFinal(news[a])
  OBVIOUS
<1> HIDE DEF heard, news, final
<1>4. ASSUME NEW a \in heard
      PROVE  ToldOf(a, news[a])
  BY <1>1, <1>2, <1>3, <1>4 DEF ToldOf
<1>5. ASSUME NEW a \in Attempt \ heard
      PROVE  Untold(a)
  <2>1. a \notin final
    BY DEF final
  <2>2. QED
    BY <1>1, <2>1 DEF Untold
<1>6. mail' = mail \/ \E r \in readings : r.attempt = ear /\ mail' = Append(mail, Message(r))
  BY <1>1, <1>2
<1>7. QED
  BY <1>1, <1>2, <1>4, <1>5, <1>6

\* The final observations and the pods spent, of one attempt.
LEMMA TellsCounts ==
    ASSUME RemoteTypes, Cluster, Cluster', Counts, UNCHANGED <<build, pods>>,
           NEW readings, Truthful(readings), Tells(readings), Onward(readings),
           NEW a \in Attempt
    PROVE  /\ finals'[a] <= Cardinality(Spent(a)')
           /\ a \in seen' /\ finished'[a] = None => finals'[a] < Cardinality(PodsOf(a)')
<1>1. /\ Untold(a) \/ \E r \in readings : ToldOf(a, r)
      /\ seen' = seen \cup {r.attempt : r \in readings}
  BY TellsEach
<1>2. /\ PodsOf(a)' = PodsOf(a) /\ IsFiniteSet(PodsOf(a)) /\ Cardinality(PodsOf(a)) \in Nat
      /\ IsFiniteSet(Spent(a)) /\ Cardinality(Spent(a)) \in Nat /\ Spent(a) \subseteq PodsOf(a)
      /\ IsFiniteSet(Spent(a)') /\ Cardinality(Spent(a)') \in Nat /\ Spent(a)' \subseteq PodsOf(a)
      /\ PodsOf(a) \subseteq Uid
  <2>1. PodsOf(a)' = PodsOf(a)
    BY DEF PodsOf
  <2>2. Spent(a)' \subseteq PodsOf(a)
    BY <2>1 DEF Spent
  <2>3. QED
    BY <2>1, <2>2, PodsCount, FS_Subset, FS_CardinalityType
<1>3. finals[a] \in Nat /\ finals[a] <= Cardinality(Spent(a))
      /\ (a \in seen /\ finished[a] = None => finals[a] < Cardinality(PodsOf(a)))
  BY DEF Counts, RemoteTypes
<1>4. \A u \in Uid : Quiet(u) => Quiet(u)'
  <2>1. PICK d \in 0..Len(feed) : Len(feed') = Len(feed) - d
                               /\ \A i \in DOMAIN feed' : feed'[i] = feed[i + d]
    BY DEF Onward
  <2>2. \A i \in DOMAIN feed' : i + d \in DOMAIN feed
    <3>1. feed \in Seq(ChangeType) /\ feed' \in Seq(ChangeType)
      BY DEF RemoteTypes, Onward
    <3>2. /\ DOMAIN feed = 1..Len(feed) /\ DOMAIN feed' = 1..Len(feed')
          /\ Len(feed) \in Nat /\ Len(feed') \in Nat
      BY <3>1, LenProperties
    <3>3. QED
      BY <2>1, <3>2
  <2>3. \A u \in Uid : InFeed(u)' => InFeed(u)
    BY <2>1, <2>2 DEF InFeed
  <2>4. QED
    BY <2>3 DEF Quiet
<1>5. ASSUME NEW u \in PodsOf(a), u \notin Spent(a)
      PROVE  finals[a] < Cardinality(PodsOf(a)) /\ finals[a] + 1 <= Cardinality(Spent(a) \cup {u})
  <2>1. Cardinality(Spent(a) \cup {u}) = Cardinality(Spent(a)) + 1
    BY <1>2, <1>5, FS_AddElement
  <2>2. Cardinality(Spent(a) \cup {u}) <= Cardinality(PodsOf(a))
    BY <1>2, FS_Subset
  <2>3. QED
    BY <1>2, <1>3, <2>1, <2>2
<1>6. CASE Untold(a)
  <2>1. Spent(a) \subseteq Spent(a)'
    BY <1>2, <1>4, <1>6 DEF Untold, Spent
  <2>2. Cardinality(Spent(a)) <= Cardinality(Spent(a)')
    BY <1>2, <2>1, FS_Subset
  <2>3. ASSUME a \in seen', finished'[a] = None
        PROVE  finals[a] < Cardinality(PodsOf(a))
    <3>1. CASE a \in seen
      BY <1>3, <1>6, <2>3, <3>1 DEF Untold
    <3>2. CASE a \notin seen
      <4>1. PICK r \in readings : r.attempt = a
        BY <1>1, <2>3, <3>2
      <4>2. r.uid \in PodsOf(a) /\ ~Quiet(r.uid) /\ r.uid # None
        BY <3>2, <4>1, WatchAssumption DEF Truthful, PodsOf
      <4>3. r.uid \notin Spent(a)
        BY <1>6, <2>3, <4>2 DEF Spent, Untold
      <4>4. QED
        BY <1>5, <4>2, <4>3
    <3>3. QED
      BY <3>1, <3>2
  <2>4. QED
    BY <1>2, <1>3, <1>6, <2>2, <2>3 DEF Untold
<1>7. ASSUME NEW r \in readings, ToldOf(a, r)
      PROVE  /\ finals'[a] <= Cardinality(Spent(a)')
             /\ a \in seen' /\ finished'[a] = None => finals'[a] < Cardinality(PodsOf(a)')
  <2>1. r.attempt = a /\ IsNews(r)
    BY <1>7 DEF ToldOf
  <2>2. CASE r.uid \in Uid
    <3>1. r.uid \in PodsOf(a) /\ ~Quiet(r.uid) /\ r.uid # finished[a] /\ r.uid # None
      BY <2>1, <2>2, WatchAssumption DEF Truthful, IsNews
    <3>2. r.uid \notin Spent(a)
      BY <3>1 DEF Spent
    <3>3. Spent(a) \subseteq Spent(a)'
      <4>1. ASSUME NEW b \in Spent(a)
            PROVE  b \in Spent(a)'
        <5>1. b \in PodsOf(a) /\ b \in Uid
          BY <1>2
        <5>2. CASE Quiet(b)
          BY <1>2, <1>4, <5>1, <5>2 DEF Spent
        <5>3. CASE b = finished[a]
          <6>1. b <= r.uid /\ b # r.uid /\ b \in Nat /\ r.uid \in Nat
            BY <2>1, <2>2, <3>1, <5>1, <5>3, WatchAssumption DEF Truthful
          <6>2. b < r.uid
            BY <6>1
          <6>3. Quiet(b)'
            BY <2>1, <5>1, <6>2 DEF Onward
          <6>4. QED
            BY <1>2, <5>1, <6>3 DEF Spent
        <5>4. QED
          BY <5>2, <5>3 DEF Spent
      <4>2. QED
        BY <4>1
    <3>4. Cardinality(Spent(a)) <= Cardinality(Spent(a)')
      BY <1>2, <3>3, FS_Subset
    <3>5. CASE ~IsFinal(r)
      <4>1. finals'[a] = finals[a]
        BY <1>7, <3>5 DEF ToldOf
      <4>2. finals[a] < Cardinality(PodsOf(a))
        BY <1>5, <3>1, <3>2
      <4>3. QED
        BY <1>2, <1>3, <3>4, <4>1, <4>2
    <3>6. CASE IsFinal(r)
      <4>1. finals'[a] = finals[a] + 1 /\ finished'[a] = r.uid
        BY <1>7, <3>6 DEF ToldOf
      <4>2. Spent(a) \cup {r.uid} \subseteq Spent(a)'
        BY <1>2, <3>1, <3>3, <4>1 DEF Spent
      <4>3. Cardinality(Spent(a) \cup {r.uid}) <= Cardinality(Spent(a)')
        BY <1>2, <4>2, FS_Subset
      <4>4. IsFiniteSet(Spent(a) \cup {r.uid}) /\ Cardinality(Spent(a) \cup {r.uid}) \in Nat
        BY <1>2, <4>2, FS_Subset, FS_CardinalityType
      <4>5. finals[a] + 1 <= Cardinality(Spent(a) \cup {r.uid})
        BY <1>5, <3>1, <3>2
      <4>6. QED
        BY <1>2, <1>3, <3>1, <4>1, <4>3, <4>4, <4>5
    <3>7. QED
      BY <3>5, <3>6
  <2>3. CASE r.uid \notin Uid
    <3>1. r.vanished /\ a \in seen /\ finished[a] = None
      BY <2>1, <2>3 DEF Truthful
    <3>2. Spent(a)' = PodsOf(a)
      <4>1. \A b \in PodsOf(a) : Quiet(b)'
        BY <2>1, <2>3 DEF Onward
      <4>2. QED
        BY <1>2, <4>1 DEF Spent
    <3>3. finals'[a] = finals[a] + 1 /\ finished'[a] = r.uid
      BY <1>7, <3>1 DEF ToldOf, IsFinal
    <3>4. r.uid # None
      <4>1. r.uid \in Uid \cup {PodName[b] : b \in Attempt}
        BY DEF Truthful, ReadingType
      <4>2. PICK b \in Attempt : r.uid = PodName[b]
        BY <2>3, <4>1
      <4>3. \A c \in Attempt : PodName[c] # None
        BY WatchAssumption
      <4>4. QED
        BY <4>2, <4>3
    <3>5. QED
      BY <1>2, <1>3, <3>1, <3>2, <3>3, <3>4
  <2>4. QED
    BY <2>2, <2>3
<1>8. QED
  BY <1>1, <1>6, <1>7

\* A message appended to messages: what is in them now.
LEMMA MessageAdded ==
    ASSUME NEW msgs \in Seq(MessageType), NEW m \in MessageType, NEW success \in BOOLEAN,
           \A i \in DOMAIN msgs : msgs[i].phase = "Succeeded" => success,
           m.phase = "Succeeded" => success
    PROVE  /\ Append(msgs, m) \in Seq(MessageType)
           /\ \A i \in DOMAIN Append(msgs, m) : Append(msgs, m)[i].phase = "Succeeded" => success
<1> HIDE DEF MessageType
<1>1. /\ Append(msgs, m) \in Seq(MessageType) /\ DOMAIN msgs = 1..Len(msgs) /\ Len(msgs) \in Nat
      /\ DOMAIN Append(msgs, m) = 1..(Len(msgs) + 1)
      /\ \A i \in 1..Len(msgs) : Append(msgs, m)[i] = msgs[i]
      /\ Append(msgs, m)[Len(msgs) + 1] = m
  OBVIOUS
<1>2. QED
  BY <1>1

\* What the observer tells leaves every book in order.
LEMMA TellsKeeps ==
    ASSUME RemoteTypes, Cluster, FeedInv, Counts, Heard, UNCHANGED <<build, pods, attempt>>,
           NEW readings, Truthful(readings), Tells(readings), Onward(readings)
    PROVE  /\ feed' \in Seq(ChangeType) /\ seen' \subseteq Attempt
           /\ finished' \in [Attempt -> Uid \cup {None} \cup {PodName[a] : a \in Attempt}]
           /\ live' \subseteq Attempt /\ pending' \in [Attempt -> Seq(MessageType)]
           /\ mail' \in Seq(MessageType) /\ finals' \in [Attempt -> Nat] /\ ear' = ear
           /\ FeedInv' /\ Counts' /\ Heard' /\ FinalOnce'
<1>1. /\ \A a \in Attempt : Untold(a) \/ \E r \in readings : ToldOf(a, r)
      /\ mail' = mail \/ \E r \in readings : r.attempt = ear /\ mail' = Append(mail, Message(r))
      /\ seen' = seen \cup {r.attempt : r \in readings} /\ live' \subseteq live /\ ear' = ear
      /\ finished' = [a \in Attempt |-> finished'[a]] /\ finals' = [a \in Attempt |-> finals'[a]]
      /\ pending' = [a \in Attempt |-> pending'[a]]
  BY TellsEach
<1>2. \A r \in readings : /\ r.attempt \in Attempt /\ Message(r) \in MessageType
                          /\ r.uid \in Uid \cup {PodName[a] : a \in Attempt}
                          /\ Message(r).phase = r.phase
                          /\ r.phase = "Succeeded" => Backed(r.attempt)
  BY DEF Truthful, ReadingType, Message, MessageType
<1>3. Cluster' /\ \A a \in Attempt : PodsOf(a)' = PodsOf(a) /\ (Backed(a)' <=> Backed(a))
                                     /\ Backed(a) \in BOOLEAN
  BY DEF Cluster, PodsOf, Backed, Held
<1>4. feed' \in Seq(ChangeType)
  BY DEF Onward
<1>5. seen' \subseteq Attempt /\ live' \subseteq Attempt
  BY <1>1, <1>2 DEF RemoteTypes
<1>6. ASSUME NEW a \in Attempt
      PROVE  /\ finished'[a] \in Uid \cup {None} \cup {PodName[b] : b \in Attempt}
             /\ finals'[a] \in Nat /\ pending'[a] \in Seq(MessageType)
             /\ \A i \in DOMAIN pending'[a] : pending'[a][i].phase = "Succeeded" => Backed(a)
             /\ finished'[a] \in Uid =>
                  \/ finished'[a] = finished[a]
                  \/ \E r \in readings : r.attempt = a /\ finished'[a] = r.uid
  <2>1. /\ finished[a] \in Uid \cup {None} \cup {PodName[b] : b \in Attempt}
        /\ finals[a] \in Nat /\ pending[a] \in Seq(MessageType)
        /\ \A i \in DOMAIN pending[a] : pending[a][i].phase = "Succeeded" => Backed(a)
    BY DEF RemoteTypes, Heard, Buffered
  <2>2. CASE Untold(a)
    BY <2>1, <2>2 DEF Untold
  <2>3. ASSUME NEW r \in readings, ToldOf(a, r)
        PROVE  /\ finished'[a] \in Uid \cup {None} \cup {PodName[b] : b \in Attempt}
               /\ finals'[a] \in Nat /\ pending'[a] \in Seq(MessageType)
               /\ \A i \in DOMAIN pending'[a] : pending'[a][i].phase = "Succeeded" => Backed(a)
               /\ finished'[a] \in Uid => r.attempt = a /\ finished'[a] = r.uid
    <3>1. /\ Append(pending[a], Message(r)) \in Seq(MessageType)
          /\ \A i \in DOMAIN Append(pending[a], Message(r)) :
                Append(pending[a], Message(r))[i].phase = "Succeeded" => Backed(a)
      <4>1. r.attempt = a
        BY <2>3 DEF ToldOf
      <4>2. QED
        BY <1>2, <1>3, <2>1, <4>1, MessageAdded
    <3>2. /\ pending'[a] \in Seq(MessageType)
          /\ \A i \in DOMAIN pending'[a] : pending'[a][i].phase = "Succeeded" => Backed(a)
      BY <2>1, <2>3, <3>1 DEF ToldOf
    <3>3. /\ r.attempt = a /\ finished'[a] \in {r.uid, None} /\ None \notin Uid
          /\ finals'[a] \in {finals[a], finals[a] + 1}
      BY <2>3, WatchAssumption DEF ToldOf
    <3>4. finals'[a] \in Nat
      BY <2>1, <3>3
    <3>5. finished'[a] \in Uid \cup {None} \cup {PodName[b] : b \in Attempt}
      BY <1>2, <3>3
    <3>6. QED
      BY <3>2, <3>3, <3>4, <3>5
  <2>4. QED
    BY <1>1, <2>2, <2>3
<1>7. mail' \in Seq(MessageType) /\ InMail'
  <2>1. mail \in Seq(MessageType) /\ InMail /\ attempt \in Attempt /\ ear \in {None, attempt}
    BY DEF RemoteTypes, Heard
  <2>2. CASE mail' = mail
    BY <1>1, <1>3, <2>1, <2>2 DEF InMail
  <2>3. ASSUME NEW r \in readings, r.attempt = ear, mail' = Append(mail, Message(r))
        PROVE  mail' \in Seq(MessageType) /\ InMail'
    <3>1. ear = attempt
      BY <1>2, <2>1, <2>3, WatchAssumption
    <3>2. /\ mail' \in Seq(MessageType)
          /\ \A i \in DOMAIN mail' : mail'[i].phase = "Succeeded" => Backed(attempt)
      BY <1>2, <1>3, <2>1, <2>3, <3>1, MessageAdded DEF InMail
    <3>3. QED
      BY <1>1, <1>3, <2>1, <3>1, <3>2 DEF InMail
  <2>4. QED
    BY <1>1, <2>2, <2>3
<1>8. Counts' /\ FinalOnce'
  <2>1. \A a \in Attempt :
           /\ finals'[a] <= Cardinality(Spent(a)')
           /\ a \in seen' /\ finished'[a] = None => finals'[a] < Cardinality(PodsOf(a)')
    BY <1>3, TellsCounts
  <2>2. \A a \in Attempt : /\ Cardinality(Spent(a)') <= Cardinality(PodsOf(a)')
                           /\ Cardinality(Spent(a)') \in Nat /\ Cardinality(PodsOf(a)') \in Nat
    <3>1. ASSUME NEW a \in Attempt
          PROVE  Spent(a)' \subseteq PodsOf(a)' /\ IsFiniteSet(PodsOf(a)')
      BY <1>3 DEF Spent, Cluster
    <3>2. QED
      BY <3>1, FS_Subset, FS_CardinalityType
  <2>3. \A a \in Attempt : finals'[a] \in Nat
    BY <1>6
  <2>4. QED
    BY <1>5, <2>1, <2>2, <2>3 DEF Counts, FinalOnce
<1>9. PICK d \in 0..Len(feed) : Len(feed') = Len(feed) - d
                               /\ \A i \in DOMAIN feed' : feed'[i] = feed[i + d]
  BY DEF Onward
<1>10. /\ \A i \in DOMAIN feed' : i + d \in DOMAIN feed /\ feed'[i] = feed[i + d] /\ i \in Nat
       /\ d \in Nat
  <2>1. feed \in Seq(ChangeType) /\ feed' \in Seq(ChangeType)
    BY DEF RemoteTypes, Onward
  <2>2. /\ DOMAIN feed = 1..Len(feed) /\ DOMAIN feed' = 1..Len(feed')
        /\ Len(feed) \in Nat /\ Len(feed') \in Nat
    BY <2>1, LenProperties
  <2>3. QED
    BY <1>9, <2>2
<1>11. \A i \in DOMAIN feed : feed[i].uid \in Uid /\ feed[i].attempt \in Attempt
  BY FeedTyped
<1>12. FeedInv'
  <2>1. \A i \in DOMAIN feed' : pods'[feed'[i].uid].attempt = feed'[i].attempt
    BY <1>10 DEF FeedInv
  <2>2. \A i, j \in DOMAIN feed' :
          i < j /\ feed'[i].attempt = feed'[j].attempt => feed'[i].uid <= feed'[j].uid
    <3>1. \A i, j \in DOMAIN feed' : i < j => i + d < j + d
      BY <1>10
    <3>2. QED
      BY <1>10, <3>1 DEF FeedInv
  <2>3. \A i \in DOMAIN feed' : LET b == finished'[feed'[i].attempt] IN b \in Uid => b <= feed'[i].uid
    <3>1. ASSUME NEW i \in DOMAIN feed', NEW a \in Attempt, feed'[i].attempt = a, finished'[a] \in Uid
          PROVE  finished'[a] <= feed'[i].uid
      <4>1. CASE finished'[a] = finished[a]
        BY <1>10, <3>1, <4>1 DEF FeedInv
      <4>2. ASSUME NEW r \in readings, r.attempt = a, finished'[a] = r.uid
            PROVE  finished'[a] <= feed'[i].uid
        BY <3>1, <4>2 DEF Onward
      <4>3. QED
        BY <1>6, <3>1, <4>1, <4>2
    <3>2. QED
      BY <1>10, <1>11, <3>1
  <2>4. \A a \in Attempt : finished'[a] \in Uid => finished'[a] \in PodsOf(a)'
    <3>1. ASSUME NEW a \in Attempt, finished'[a] \in Uid
          PROVE  finished'[a] \in PodsOf(a)
      <4>1. CASE finished'[a] = finished[a]
        BY <3>1, <4>1 DEF FeedInv
      <4>2. ASSUME NEW r \in readings, r.attempt = a, finished'[a] = r.uid
            PROVE  finished'[a] \in PodsOf(a)
        BY <3>1, <4>2 DEF Truthful
      <4>3. QED
        BY <1>6, <3>1, <4>1, <4>2
    <3>2. QED
      BY <1>3, <3>1
  <2>5. QED
    BY <2>1, <2>2, <2>3, <2>4 DEF FeedInv
<1>13. FeedHeard'
  <2>1. ASSUME NEW i \in DOMAIN feed', feed'[i].phase = "Succeeded"
        PROVE  \A a \in Attempt : feed'[i].attempt = a => Backed(a)'
    BY <1>3, <1>10, <2>1 DEF Heard, FeedHeard
  <2>2. \A i \in DOMAIN feed' : feed'[i].attempt \in Attempt
    BY <1>10, <1>11
  <2>3. QED
    BY <2>1, <2>2 DEF FeedHeard
<1>14. Buffered'
  BY <1>3, <1>6 DEF Buffered
<1>15. QED
  BY <1>1, <1>4, <1>5, <1>6, <1>7, <1>8, <1>12, <1>13, <1>14 DEF Heard

\* What a listing reads may be believed, and nothing older is to come.
LEMMA ListTells ==
    ASSUME RemoteTypes, Cluster, FeedInv, feed' = <<>>, UNCHANGED <<build, pods>>
    PROVE  Truthful(Reconcile) /\ Onward(Reconcile)
<1> DEFINE there == {u \in Held : Attributable(pods[u], build)}
<1>1. \A r \in Reconcile :
        \/ \E u \in there : r = Reading(u, pods[u].attempt, pods[u].phase, FALSE)
        \/ \E a \in Vanished(there) : r = Reading(PodName[a], a, "Pending", TRUE)
  BY DEF Reconcile
<1>2. /\ \A u \in Uid : u \notin there => ~Attributable(pods[u], build)
      /\ there \subseteq Held
  BY DEF Cluster, Attributable
<1>3. \A u \in there : /\ u \in Uid /\ u \in Nat /\ pods[u].attempt \in Attempt /\ pods[u].phase \in Phase
                       /\ u \in PodsOf(pods[u].attempt) /\ Attributable(pods[u], build)
  BY WatchAssumption DEF Held, Cluster, RemoteTypes, PodType, PodsOf
<1>4. \A a \in Vanished(there) : /\ a \in seen /\ a \in Attempt /\ finished[a] = None
                                 /\ \A u \in there : pods[u].attempt # a
  BY DEF Vanished, RemoteTypes
<1> HIDE DEF there
<1>5. \A u, v \in there : pods[u].attempt = pods[v].attempt => u = v
  <2>1. \A u, v \in there : pods[u].attempt = pods[v].attempt => u <= v /\ v <= u
    BY <1>2, <1>3 DEF Cluster
  <2>2. QED
    BY <1>3, <2>1
<1>6. \A u \in Uid : u \notin there => Quiet(u)'
  BY <1>2 DEF Quiet, InFeed
<1>7. ASSUME NEW r \in Reconcile
      PROVE  \A s \in Reconcile : s.attempt = r.attempt => s = r
  <2>1. ASSUME NEW s \in Reconcile, s.attempt = r.attempt
        PROVE  s = r
    <3>1. CASE \E u \in there : r = Reading(u, pods[u].attempt, pods[u].phase, FALSE)
      <4>1. PICK u \in there : r = Reading(u, pods[u].attempt, pods[u].phase, FALSE)
        BY <3>1
      <4>2. PICK v \in there : s = Reading(v, pods[v].attempt, pods[v].phase, FALSE)
        BY <1>1, <1>4, <2>1, <4>1 DEF Reading
      <4>3. QED
        BY <1>5, <2>1, <4>1, <4>2 DEF Reading
    <3>2. CASE \E a \in Vanished(there) : r = Reading(PodName[a], a, "Pending", TRUE)
      <4>1. PICK a \in Vanished(there) : r = Reading(PodName[a], a, "Pending", TRUE)
        BY <3>2
      <4>2. PICK b \in Vanished(there) : s = Reading(PodName[b], b, "Pending", TRUE)
        BY <1>1, <1>4, <2>1, <4>1 DEF Reading
      <4>3. QED
        BY <2>1, <4>1, <4>2 DEF Reading
    <3>3. QED
      BY <1>1, <3>1, <3>2
  <2>2. QED
    BY <2>1
<1>8. ASSUME NEW u \in there, NEW r, r = Reading(u, pods[u].attempt, pods[u].phase, FALSE)
      PROVE  /\ r \in ReadingType /\ r.uid = u /\ r.attempt = pods[u].attempt
             /\ r.phase = "Succeeded" => Backed(r.attempt)
             /\ r.uid \in PodsOf(r.attempt) /\ ~Quiet(r.uid)
             /\ finished[r.attempt] \in Uid => finished[r.attempt] <= r.uid
             /\ \A b \in PodsOf(r.attempt) : b < u => b \notin there
  <2>1. /\ r \in ReadingType /\ r.uid = u /\ r.attempt = pods[u].attempt /\ r.phase = pods[u].phase
        /\ r.uid \in PodsOf(r.attempt) /\ ~Quiet(r.uid)
    BY <1>3, <1>8 DEF Reading, ReadingType, Quiet
  <2>2. r.phase = "Succeeded" => Backed(r.attempt)
    BY <2>1 DEF Backed
  <2>3. \A b \in PodsOf(pods[u].attempt) : b <= u
    BY <1>2 DEF PodsOf, Cluster
  <2>4. finished[r.attempt] \in Uid => finished[r.attempt] <= r.uid
    BY <1>3, <2>1, <2>3 DEF FeedInv
  <2>5. \A b \in PodsOf(r.attempt) : b < u => b \notin there
    <3>1. ASSUME NEW b \in PodsOf(r.attempt), b < u, b \in there
          PROVE  FALSE
      <4>1. b = u
        BY <1>5, <2>1, <3>1 DEF PodsOf
      <4>2. QED
        BY <1>3, <3>1, <4>1
    <3>2. QED
      BY <3>1
  <2>6. QED
    BY <2>1, <2>2, <2>4, <2>5
<1>9. ASSUME NEW a \in Vanished(there), NEW r, r = Reading(PodName[a], a, "Pending", TRUE)
      PROVE  /\ r \in ReadingType /\ r.uid \notin Uid /\ r.attempt = a /\ r.phase = "Pending"
             /\ r.vanished /\ r.attempt \in seen /\ finished[r.attempt] = None
             /\ \A b \in PodsOf(r.attempt) : b \in Uid /\ b \notin there
  <2>1. /\ r.uid = PodName[a] /\ r.attempt = a /\ r.phase = "Pending" /\ r.vanished
        /\ r \in ReadingType
    BY <1>4, <1>9 DEF Reading, ReadingType, Phase
  <2>2. r.uid \notin Uid
    BY <1>4, <2>1, WatchAssumption
  <2>3. \A b \in PodsOf(a) : b \in Uid /\ b \notin there
    BY <1>4 DEF PodsOf
  <2>4. QED
    BY <1>4, <2>1, <2>2, <2>3
<1>10. Truthful(Reconcile)
  <2>1. ASSUME NEW r \in Reconcile
        PROVE  /\ r \in ReadingType
               /\ r.phase = "Succeeded" => Backed(r.attempt)
               /\ r.uid \in Uid => r.uid \in PodsOf(r.attempt) /\ ~Quiet(r.uid)
                                   /\ (finished[r.attempt] \in Uid => finished[r.attempt] <= r.uid)
               /\ r.uid \notin Uid => r.vanished /\ r.attempt \in seen /\ finished[r.attempt] = None
    <3>1. CASE \E u \in there : r = Reading(u, pods[u].attempt, pods[u].phase, FALSE)
      <4>1. PICK u \in there : r = Reading(u, pods[u].attempt, pods[u].phase, FALSE)
        BY <3>1
      <4>2. /\ r \in ReadingType /\ r.uid = u
            /\ r.phase = "Succeeded" => Backed(r.attempt)
            /\ r.uid \in PodsOf(r.attempt) /\ ~Quiet(r.uid)
            /\ finished[r.attempt] \in Uid => finished[r.attempt] <= r.uid
        BY <1>8, <4>1
      <4>3. u \in Uid
        BY <1>3
      <4>4. QED
        BY <4>2, <4>3
    <3>2. CASE \E a \in Vanished(there) : r = Reading(PodName[a], a, "Pending", TRUE)
      <4>1. PICK a \in Vanished(there) : r = Reading(PodName[a], a, "Pending", TRUE)
        BY <3>2
      <4>2. /\ r \in ReadingType /\ r.uid \notin Uid /\ r.attempt = a /\ r.phase = "Pending"
            /\ r.vanished /\ r.attempt \in seen /\ finished[r.attempt] = None
        BY <1>9, <4>1
      <4>3. QED
        BY <4>2
    <3>3. QED
      BY <1>1, <3>1, <3>2
  <2>2. QED
    BY <1>7, <2>1 DEF Truthful
<1>11. Onward(Reconcile)
  <2>1. Len(feed) \in Nat /\ feed' \in Seq(ChangeType) /\ Len(feed') = 0 /\ DOMAIN feed' = {}
    BY DEF RemoteTypes
  <2>2. \E d \in 0..Len(feed) : Len(feed') = Len(feed) - d
                               /\ \A i \in DOMAIN feed' : feed'[i] = feed[i + d]
    <3>1. Len(feed) \in 0..Len(feed) /\ Len(feed') = Len(feed) - Len(feed)
      BY <2>1
    <3>2. QED
      BY <2>1, <3>1
  <2>3. ASSUME NEW r \in Reconcile, NEW b \in PodsOf(r.attempt), r.uid \in Uid => b < r.uid
        PROVE  Quiet(b)'
    <3>1. b \in Uid /\ b \notin there
      <4>1. CASE \E u \in there : r = Reading(u, pods[u].attempt, pods[u].phase, FALSE)
        <5>1. PICK u \in there : r = Reading(u, pods[u].attempt, pods[u].phase, FALSE)
          BY <4>1
        <5>2. r.uid = u /\ u \in Uid
          BY <1>3, <5>1 DEF Reading
        <5>3. \A v \in PodsOf(r.attempt) : v < u => v \notin there
          BY <1>8, <5>1
        <5>4. QED
          BY <2>3, <5>2, <5>3 DEF PodsOf
      <4>2. CASE \E a \in Vanished(there) : r = Reading(PodName[a], a, "Pending", TRUE)
        <5>1. PICK a \in Vanished(there) : r = Reading(PodName[a], a, "Pending", TRUE)
          BY <4>2
        <5>2. QED
          BY <1>9, <5>1
      <4>3. QED
        BY <1>1, <4>1, <4>2
    <3>2. QED
      BY <1>6, <3>1
  <2>4. QED
    BY <2>1, <2>2, <2>3 DEF Onward
<1>12. QED
  BY <1>10, <1>11

\* A delivered change may be believed, and what comes after it is newer.
LEMMA DeliverTells ==
    ASSUME RemoteTypes, Cluster, FeedInv, FeedHeard, feed # <<>>, feed' = Tail(feed), UNCHANGED <<build, pods>>,
           NEW vanished \in BOOLEAN,
           NEW r, r = Reading(Head(feed).uid, Head(feed).attempt, Head(feed).phase, vanished)
    PROVE  Truthful({r}) /\ Onward({r})
<1>1. /\ feed \in Seq(ChangeType) /\ Len(feed) \in Nat /\ 1 \in DOMAIN feed /\ Head(feed) = feed[1]
      /\ feed' \in Seq(ChangeType) /\ Len(feed') = Len(feed) - 1 /\ 1 <= Len(feed)
      /\ \A i \in DOMAIN feed' : i + 1 \in DOMAIN feed /\ feed'[i] = feed[i + 1] /\ i \in Nat /\ 1 <= i
  <2>1. feed \in Seq(ChangeType) /\ Len(feed) \in Nat /\ 1 <= Len(feed)
    BY EmptySeq DEF RemoteTypes
  <2>2. DOMAIN feed = 1..Len(feed) /\ Head(feed) = feed[1]
    BY <2>1
  <2>3. /\ feed' \in Seq(ChangeType) /\ Len(feed') = Len(feed) - 1
        /\ DOMAIN feed' = 1..(Len(feed) - 1)
        /\ \A i \in 1..(Len(feed) - 1) : feed'[i] = feed[i + 1]
    BY <2>1, HeadTailProperties, LenProperties
  <2>4. QED
    BY <2>1, <2>2, <2>3
<1>2. /\ feed[1].uid \in Uid /\ feed[1].attempt \in Attempt /\ feed[1].phase \in Phase
      /\ feed[1].uid \in Nat
  BY <1>1, FeedTyped, WatchAssumption
<1>3. /\ r \in ReadingType /\ r.uid = feed[1].uid /\ r.attempt = feed[1].attempt
      /\ r.phase = feed[1].phase
  BY <1>1, <1>2 DEF Reading, ReadingType
<1>4. r.uid \in PodsOf(r.attempt) /\ ~Quiet(r.uid)
  BY <1>1, <1>2, <1>3 DEF FeedInv, PodsOf, Quiet, InFeed
<1>5. finished[r.attempt] \in Uid => finished[r.attempt] <= r.uid
  BY <1>1, <1>3 DEF FeedInv
<1>6. r.phase = "Succeeded" => Backed(r.attempt)
  BY <1>1, <1>3 DEF FeedHeard
<1>7. \A i \in DOMAIN feed' : feed'[i].attempt = r.attempt => r.uid <= feed'[i].uid
  <2>1. \A i \in DOMAIN feed' : 1 < i + 1
    BY <1>1
  <2>2. QED
    BY <1>1, <1>3, <2>1 DEF FeedInv
<1>8. ASSUME NEW b \in PodsOf(r.attempt), b < r.uid
      PROVE  Quiet(b)'
  <2>1. b \in Uid /\ b \in Nat /\ pods[b].attempt = r.attempt
    BY WatchAssumption DEF PodsOf
  <2>2. ~Attributable(pods[b], build)
    <3>1. b \notin Held
      <4>1. b \in Held => r.uid <= b
        BY <1>2, <1>3, <1>4, <2>1 DEF Cluster, PodsOf
      <4>2. QED
        BY <1>2, <1>3, <1>8, <2>1, <4>1
    <3>2. QED
      BY <2>1, <3>1 DEF Cluster, Attributable
  <2>3. ~InFeed(b)'
    <3>1. ASSUME NEW i \in DOMAIN feed', feed'[i].uid = b
          PROVE  FALSE
      <4>1. feed'[i].attempt = r.attempt
        BY <1>1, <2>1, <3>1 DEF FeedInv
      <4>2. r.uid <= b
        BY <1>7, <3>1, <4>1
      <4>3. QED
        BY <1>2, <1>3, <1>8, <2>1, <4>2
    <3>2. QED
      BY <3>1 DEF InFeed
  <2>4. QED
    BY <2>2, <2>3 DEF Quiet
<1>9. Truthful({r})
  BY <1>2, <1>3, <1>4, <1>5, <1>6 DEF Truthful
<1>10. Onward({r})
  <2>1. \E d \in 0..Len(feed) : Len(feed') = Len(feed) - d
                               /\ \A i \in DOMAIN feed' : feed'[i] = feed[i + d]
    <3>1. 1 \in 0..Len(feed)
      BY <1>1
    <3>2. QED
      BY <1>1, <3>1
  <2>2. QED
    BY <1>1, <1>2, <1>3, <1>7, <1>8, <2>1 DEF Onward
<1>11. QED
  BY <1>9, <1>10

-----------------------------------------------------------------------------
(* The runner, while the cluster and the observer stand still *)

\* What a step of the runner does to its waiter.
RouteStep ==
    \/ /\ UNCHANGED attempt
       /\ \/ Register(attempt) \/ Unregister \/ UNCHANGED routes
          \/ mail # <<>> /\ mail' = Tail(mail) /\ UNCHANGED <<live, pending, ear, finals>>
    \/ attempt' \in Attempt /\ ear = None /\ UNCHANGED routes

\* Registering, unregistering or leaving the routes alone keeps what is heard backed.
LEMMA RouteKeeps ==
    ASSUME RemoteTypes, Heard, \A a \in Attempt : Backed(a) => Backed(a)', RouteStep
    PROVE  /\ attempt' \in Attempt /\ live' \subseteq Attempt /\ pending' \in [Attempt -> Seq(MessageType)]
           /\ ear' \in {None, attempt'} /\ mail' \in Seq(MessageType) /\ UNCHANGED finals
           /\ Buffered' /\ InMail'
<1>1. /\ attempt \in Attempt /\ live \subseteq Attempt /\ pending \in [Attempt -> Seq(MessageType)]
      /\ ear \in {None, attempt} /\ mail \in Seq(MessageType)
      /\ Buffered /\ InMail
  BY DEF RemoteTypes, Heard
<1>2. \A a \in Attempt : Backed(a) => Backed(a)'
  OBVIOUS
<1>3. CASE UNCHANGED attempt /\ Register(attempt)
  <2>1. /\ mail' = pending[attempt] /\ ear' = attempt /\ pending' = [pending EXCEPT ![attempt] = <<>>]
        /\ live' \subseteq Attempt /\ UNCHANGED <<attempt, finals>>
    BY <1>1, <1>3 DEF Register
  <2>2. <<>> \in Seq(MessageType) /\ DOMAIN <<>> = {}
    OBVIOUS
  <2>3. pending' \in [Attempt -> Seq(MessageType)]
        /\ \A a \in Attempt : pending'[a] = IF a = attempt THEN <<>> ELSE pending[a]
    BY <1>1, <2>1, <2>2
  <2>4. Buffered'
    BY <1>1, <1>2, <2>2, <2>3 DEF Buffered
  <2>5. InMail'
    BY <1>1, <1>2, <2>1 DEF Buffered, InMail
  <2>6. QED
    BY <1>1, <2>1, <2>3, <2>4, <2>5
<1>4. CASE UNCHANGED attempt /\ Unregister
  <2>1. Buffered'
    BY <1>1, <1>2, <1>4 DEF Buffered, Unregister
  <2>2. InMail' /\ mail' \in Seq(MessageType)
    BY <1>4 DEF InMail, Unregister
  <2>3. QED
    BY <1>1, <1>4, <2>1, <2>2 DEF Unregister
<1>5. CASE UNCHANGED attempt /\ UNCHANGED routes
  BY <1>1, <1>2, <1>5 DEF routes, Buffered, InMail
<1>6. CASE /\ UNCHANGED attempt
           /\ mail # <<>> /\ mail' = Tail(mail) /\ UNCHANGED <<live, pending, ear, finals>>
  <2>1. Buffered'
    BY <1>1, <1>2, <1>6 DEF Buffered
  <2>2. /\ mail' \in Seq(MessageType) /\ \A i \in DOMAIN mail' : i + 1 \in DOMAIN mail /\ mail'[i] = mail[i + 1]
    <3>1. /\ mail' \in Seq(MessageType) /\ Len(mail) \in Nat /\ DOMAIN mail = 1..Len(mail)
          /\ Len(mail') = Len(mail) - 1 /\ DOMAIN mail' = 1..Len(mail')
          /\ \A i \in 1..(Len(mail) - 1) : mail'[i] = mail[i + 1]
      BY <1>1, <1>6, HeadTailProperties, LenProperties
    <3>2. QED
      BY <3>1
  <2>3. InMail'
    BY <1>1, <1>2, <1>6, <2>2 DEF InMail
  <2>4. QED
    BY <1>1, <1>6, <2>1, <2>2, <2>3
<1>7. CASE attempt' \in Attempt /\ ear = None /\ UNCHANGED routes
  <2>1. DOMAIN mail = {}
    BY <1>1, <1>7, WatchAssumption DEF InMail
  <2>2. Buffered' /\ InMail'
    BY <1>1, <1>2, <1>7, <2>1 DEF routes, Buffered, InMail
  <2>3. QED
    BY <1>1, <1>7, <2>2 DEF routes
<1>8. QED
  BY <1>3, <1>4, <1>5, <1>6, <1>7 DEF RouteStep

\* A step that leaves the cluster and the observer alone keeps what is so of them.
LEMMA MoveKeeps ==
    ASSUME RemoteInv, UNCHANGED <<cluster, core, shard, values, stream>>, RouteStep,
           claims' \in [Attempt -> {"none", "adopted", "refused"}], after' \in Intent,
           buffer' \in Seq(Attempt \X Intent), announced' \in [Attempt -> Nat],
           \A a \in Attempt : announced[a] <= announced'[a]
    PROVE  /\ RemoteTypes' /\ Cluster' /\ Announced' /\ FeedInv' /\ FinalOnce'
           /\ (mode' # "stopped" => Counts') /\ Heard' /\ Files' /\ SuccessIsBacked'
           /\ mode' = mode
           /\ \A a \in Attempt : PodsOf(a)' = PodsOf(a) /\ (Backed(a)' <=> Backed(a)) /\ (Mine(a)' <=> Mine(a))
<1>0. /\ RemoteTypes /\ Cluster /\ Announced /\ FeedInv /\ FinalOnce /\ (mode # "stopped" => Counts)
      /\ Heard /\ Files /\ SuccessIsBacked
  BY DEF RemoteInv, InLog
<1>1. UNCHANGED <<build, pods, feed, mode, seen, finished, shard, values, stream>>
  BY DEF cluster, core
<1>2. /\ attempt' \in Attempt /\ live' \subseteq Attempt /\ pending' \in [Attempt -> Seq(MessageType)]
      /\ ear' \in {None, attempt'} /\ mail' \in Seq(MessageType) /\ UNCHANGED finals
      /\ Buffered' /\ InMail'
  <2>1. \A a \in Attempt : Backed(a) => Backed(a)'
    BY <1>1 DEF Backed, PodsOf
  <2>2. QED
    BY <1>0, <2>1, RouteKeeps
<1>3. RemoteTypes'
  BY <1>0, <1>1, <1>2 DEF RemoteTypes
<1>4. \A a \in Attempt : PodsOf(a)' = PodsOf(a) /\ (Backed(a)' <=> Backed(a)) /\ (Mine(a)' <=> Mine(a))
  BY <1>1 DEF PodsOf, Backed, Mine, Holder, Held
<1>5. Cluster' /\ FeedInv'
  BY <1>0, <1>1 DEF Cluster, FeedInv, PodsOf, Held
<1>6. FeedHeard'
  BY <1>0, <1>1 DEF Heard, FeedHeard, Backed, PodsOf
<1>7. FinalOnce' /\ (mode' # "stopped" => Counts')
  BY <1>0, <1>1, <1>2 DEF FinalOnce, Counts, Spent, Quiet, InFeed, PodsOf
<1>8. Files' /\ SuccessIsBacked'
  BY <1>0, <1>1 DEF Files, SuccessIsBacked, PodsOf
<1>9. Announced'
  <2>1. \A a \in Attempt : Cardinality(PodsOf(a)) \in Nat /\ announced[a] \in Nat /\ announced'[a] \in Nat
    BY <1>0, PodsCount DEF RemoteTypes
  <2>2. \A a \in Attempt : Cardinality(PodsOf(a)) <= announced[a]
    BY <1>0 DEF Announced
  <2>3. \A a \in Attempt : Cardinality(PodsOf(a)) <= announced'[a]
    BY <2>1, <2>2
  <2>4. QED
    BY <1>4, <2>3 DEF Announced
<1>10. QED
  BY <1>1, <1>2, <1>3, <1>4, <1>5, <1>6, <1>7, <1>8, <1>9 DEF Heard

\* What the moves of the runner leave of an invariant state, but for what it has
\* in hand.
Kept ==
    /\ RemoteTypes' /\ Cluster' /\ Announced' /\ FeedInv' /\ FinalOnce'
    /\ (mode' # "stopped" => Counts') /\ Heard' /\ Files' /\ SuccessIsBacked'

\* The invariant is what the runner and the observer keep, and the runner's hand.
LEMMA KeptAndHand ==
    ASSUME Kept, Hand', Respect',
           pc' = "create" => Cardinality(PodsOf(attempt)') < announced'[attempt']
    PROVE  RemoteInv'
  BY DEF Kept, RemoteInv, InLog, PodsOf

\* Discovery refuses exactly the attempts whose pods are another build's.
LEMMA DiscoverKeeps == RemoteInv /\ Discover => RemoteInv'
<1> SUFFICES ASSUME RemoteInv, Discover
             PROVE  RemoteInv'
  OBVIOUS
<1>0. RemoteTypes /\ Cluster /\ Hand /\ Respect
  BY DEF RemoteInv
<1>1. PICK unpatched \in SUBSET {a \in Attempt : Claim(a, {}) = "adopted"} :
         claims' = [a \in Attempt |-> Claim(a, unpatched)]
  BY DEF Discover
<1>2. pc = "discover" /\ pc' = "launch"
      /\ UNCHANGED <<attempt, launch, after, fatal, reference, buffer, durable, cluster, core, routes>>
  BY DEF Discover
<1>3. claims' \in [Attempt -> {"none", "adopted", "refused"}]
  BY <1>1 DEF Claim
<1>4. /\ Kept /\ mode' = mode
      /\ \A a \in Attempt : PodsOf(a)' = PodsOf(a) /\ (Backed(a)' <=> Backed(a)) /\ (Mine(a)' <=> Mine(a))
  <2>1. after' \in Intent /\ buffer' \in Seq(Attempt \X Intent) /\ announced' \in [Attempt -> Nat]
        /\ \A a \in Attempt : announced[a] <= announced'[a]
    BY <1>0, <1>2 DEF RemoteTypes, durable
  <2>2. RouteStep
    BY <1>2 DEF RouteStep
  <2>3. QED
    BY <1>2, <1>3, <2>1, <2>2, MoveKeeps DEF durable, Kept
<1>5. ASSUME NEW a \in Attempt, claims'[a] # "refused"
      PROVE  Mine(a)
  <2>1. \A u, v \in Holder(a) : u = v
    <3>1. \A u, v \in Holder(a) : u <= v /\ v <= u /\ u \in Nat /\ v \in Nat
      BY <1>0, WatchAssumption DEF Cluster, Holder, Held
    <3>2. QED
      BY <3>1
  <2>2. claims'[a] = Claim(a, unpatched) /\ (a \in unpatched => Claim(a, {}) = "adopted")
    BY <1>1
  <2>3. QED
    BY <1>5, <2>1, <2>2 DEF Claim, Mine
<1>6. Hand'
  <2>1. ear = None /\ UNCHANGED <<ear, reference>> /\ ~reference
    BY <1>0, <1>2 DEF Hand, Waiting, Closing, routes
  <2>2. QED
    BY <1>0, <1>2, <1>4, <2>1 DEF Hand, Waiting, Closing
<1>7. Respect'
  BY <1>2, <1>4, <1>5 DEF Respect
<1>8. QED
  BY <1>2, <1>4, <1>6, <1>7, KeptAndHand

\* Taking up a claim, or being refused one, keeps the invariant.
LEMMA TakeClaimKeeps == RemoteInv /\ TakeClaim => RemoteInv'
<1> SUFFICES ASSUME RemoteInv, TakeClaim
             PROVE  RemoteInv'
  OBVIOUS
<1>0. RemoteTypes /\ Hand /\ Respect /\ attempt \in Attempt
  BY DEF RemoteInv, RemoteTypes
<1>2. /\ pc = "launch" /\ claims' = [claims EXCEPT ![attempt] = "none"]
      /\ UNCHANGED <<attempt, fatal, reference, buffer, durable, cluster, core>>
      /\ \/ pc' = "flush" /\ after' = "failed" /\ UNCHANGED routes
         \/ /\ claims[attempt] # "refused" /\ Register(attempt) /\ mode # "failed"
            /\ \/ pc' = "announce" /\ after' = "adopt"
               \/ pc' = "probe" /\ after' = "none"
  BY DEF TakeClaim, Ends
<1>3. claims' \in [Attempt -> {"none", "adopted", "refused"}]
      /\ \A a \in Attempt : claims'[a] = IF a = attempt THEN "none" ELSE claims[a]
  BY <1>0, <1>2 DEF RemoteTypes
<1>4. /\ Kept /\ mode' = mode
      /\ \A a \in Attempt : PodsOf(a)' = PodsOf(a) /\ (Backed(a)' <=> Backed(a)) /\ (Mine(a)' <=> Mine(a))
  <2>1. buffer' = buffer /\ announced' = announced /\ after' \in Intent
    BY <1>0, <1>2 DEF durable, Intent, State
  <2>2. RouteStep
    BY <1>2 DEF RouteStep
  <2>3. buffer \in Seq(Attempt \X Intent) /\ announced \in [Attempt -> Nat]
        /\ \A a \in Attempt : announced[a] <= announced[a]
    BY <1>0 DEF RemoteTypes
  <2>4. QED
    BY <1>2, <1>3, <2>1, <2>2, <2>3, MoveKeeps DEF durable, Kept
<1>5. Hand'
  <2>1. pc' \notin Waiting => ear' = None
    BY <1>0, <1>2 DEF Hand, Waiting, routes
  <2>2. UNCHANGED <<mode, values>>
    BY <1>2 DEF core, durable
  <2>3. QED
    BY <1>0, <1>2, <2>1, <2>2 DEF Hand, Waiting, Closing
<1>6. Respect'
  BY <1>0, <1>2, <1>3, <1>4 DEF Respect
<1>7. QED
  BY <1>2, <1>4, <1>5, <1>6, KeptAndHand

\* From where it waits or closes, a step that leaves claims, buffer and log alone.
Onwards ==
    /\ UNCHANGED <<attempt, claims, reference, buffer, durable, cluster, core>>
    /\ RouteStep /\ pc \in Waiting
    /\ \/ pc' \in {"probe", "note", "await", "announce"} /\ after' \in Intent /\ UNCHANGED routes
       \/ pc' \in {"patch", "delete"} /\ UNCHANGED routes
          /\ after' \in {"replace", "relaunch", "cancelled", "timed-out"}
       \/ pc' = "await" /\ after' = after /\ mail # <<>> /\ mail' = Tail(mail)
          /\ UNCHANGED <<live, pending, ear, finals>>
       \/ pc' = "launch" /\ Unregister /\ after' = "none"
       \/ pc' = "flush" /\ Unregister /\ after' \in {"failed", "cancelled"}
       \/ pc' = "conclude" /\ Unregister /\ after' \in Ended /\ (after' = "Succeeded" => Backed(attempt))

\* A step that only moves the runner onwards keeps the invariant.
LEMMA OnwardsKeeps == RemoteInv /\ Onwards => RemoteInv'
<1> SUFFICES ASSUME RemoteInv, Onwards
             PROVE  RemoteInv'
  OBVIOUS
<1>0. RemoteTypes /\ Hand /\ Respect /\ attempt \in Attempt /\ after \in Intent
  BY DEF RemoteInv, RemoteTypes
<1>1. UNCHANGED <<attempt, claims, reference, buffer, durable, cluster, core>> /\ pc \in Waiting
      /\ pc' \in Waiting \cup {"launch", "flush", "conclude"} /\ pc' # "create" /\ after' \in Intent
  <2>1. after' \in Intent
    BY <1>0 DEF Onwards, Ended, Intent, State
  <2>2. pc' \in Waiting \cup {"launch", "flush", "conclude"} /\ pc' # "create"
    BY DEF Onwards, Waiting
  <2>3. QED
    BY <2>1, <2>2 DEF Onwards
<1>2. /\ Kept /\ mode' = mode
      /\ \A a \in Attempt : PodsOf(a)' = PodsOf(a) /\ (Backed(a)' <=> Backed(a)) /\ (Mine(a)' <=> Mine(a))
  <2>1. /\ buffer' \in Seq(Attempt \X Intent) /\ announced' \in [Attempt -> Nat]
        /\ claims' \in [Attempt -> {"none", "adopted", "refused"}]
        /\ \A a \in Attempt : announced[a] <= announced'[a]
    BY <1>0, <1>1 DEF RemoteTypes, durable
  <2>2. RouteStep
    BY DEF Onwards
  <2>3. QED
    BY <1>1, <2>1, <2>2, MoveKeeps DEF durable, Kept
<1>3. ~reference /\ mode # "stopped" /\ UNCHANGED <<mode, reference>>
  BY <1>0, <1>1 DEF Hand, Waiting, Closing, core
<1>4. Hand'
  <2>1. pc' \notin Waiting => ear' = None
    BY DEF Onwards, Unregister, Waiting
  <2>2. pc' \in {"patch", "delete"} => after' \in {"replace", "relaunch", "cancelled", "timed-out"}
    BY DEF Onwards
  <2>3. pc' = "conclude" => after' \in Ended /\ (after' = "Succeeded" => Backed(attempt)')
    BY <1>0, <1>2 DEF Onwards
  <2>4. pc' \in Closing => after' # "succeeded"
    BY <1>1 DEF Onwards, Closing, Waiting
  <2>5. QED
    BY <1>1, <1>3, <2>1, <2>2, <2>3, <2>4 DEF Hand, Waiting, Closing
<1>5. Respect'
  BY <1>0, <1>1, <1>2 DEF Respect, Waiting
<1>6. QED
  BY <1>1, <1>2, <1>4, <1>5, KeptAndHand

\* The probe for a pod by name moves the runner onwards.
LEMMA ProbeMoves == RemoteInv /\ Probe => RemoteInv'
<1> SUFFICES ASSUME RemoteInv, Probe
             PROVE  RemoteInv'
  OBVIOUS
<1>1. Onwards
  BY DEF Probe, Onwards, RouteStep, Waiting, Relaunch, Ends, Intent, State, Unregister
<1>2. QED
  BY <1>1, OnwardsKeeps

\* The note of a created or adopted pod moves the runner onwards.
LEMMA NoteMoves == RemoteInv /\ Note => RemoteInv'
<1> SUFFICES ASSUME RemoteInv, Note
             PROVE  RemoteInv'
  OBVIOUS
<1>0. after \in Intent
  BY DEF RemoteInv, RemoteTypes
<1>1. Onwards
  BY <1>0 DEF Note, Onwards, RouteStep, Waiting, Ends
<1>2. QED
  BY <1>1, OnwardsKeeps

\* A waiter that hears its pod's end hears the truth.
LEMMA HearsMoves == RemoteInv /\ Hears => RemoteInv'
<1> SUFFICES ASSUME RemoteInv, Hears
             PROVE  RemoteInv'
  OBVIOUS
<1>1. /\ pc = "await" /\ mail # <<>>
      /\ UNCHANGED <<attempt, claims, reference, buffer, durable, cluster, core>>
  BY DEF Hears
<1>2. mail[1].phase = "Succeeded" => Backed(attempt)
  <2>1. mail \in Seq(MessageType) /\ Len(mail) # 0 /\ 1 \in DOMAIN mail
    BY <1>1, EmptySeq DEF RemoteInv, RemoteTypes
  <2>2. QED
    BY <2>1 DEF RemoteInv, Heard, InMail
<1>3. Onwards
  <2>1. CASE Relaunch /\ Unregister
    BY <1>1, <2>1 DEF Onwards, RouteStep, Waiting, Relaunch, Ends
  <2>2. CASE mail[1].phase \in Ended /\ pc' = "conclude" /\ after' = mail[1].phase /\ Unregister
    BY <1>1, <1>2, <2>2 DEF Onwards, RouteStep, Waiting
  <2>3. CASE mail' = Tail(mail) /\ UNCHANGED <<pc, launch, after, live, pending, ear, finals>>
    BY <1>1, <2>3 DEF Onwards, RouteStep, Waiting
  <2>4. Head(mail) = mail[1]
    BY <1>1 DEF RemoteInv, RemoteTypes
  <2>5. QED
    BY <2>1, <2>2, <2>3, <2>4 DEF Hears
<1>4. QED
  BY <1>3, OnwardsKeeps

\* A waiter that will hear nothing more moves the runner onwards.
LEMMA WaiterClosesMoves == RemoteInv /\ WaiterCloses => RemoteInv'
<1> SUFFICES ASSUME RemoteInv, WaiterCloses
             PROVE  RemoteInv'
  OBVIOUS
<1>1. Onwards
  BY DEF WaiterCloses, Onwards, RouteStep, Waiting, Ends
<1>2. QED
  BY <1>1, OnwardsKeeps

\* A deadline or a cancellation moves the runner onwards.
LEMMA GivesUpMoves == RemoteInv /\ GivesUp => RemoteInv'
<1> SUFFICES ASSUME RemoteInv, GivesUp
             PROVE  RemoteInv'
  OBVIOUS
<1>1. Onwards
  BY DEF GivesUp, Onwards, RouteStep, Waiting
<1>2. QED
  BY <1>1, OnwardsKeeps

\* The write-ahead record makes room for one pod more.
LEMMA AnnounceKeeps == RemoteInv /\ Announce => RemoteInv'
<1> SUFFICES ASSUME RemoteInv, Announce
             PROVE  RemoteInv'
  OBVIOUS
<1>0. /\ RemoteTypes /\ Hand /\ Respect /\ attempt \in Attempt /\ Announced /\ Cluster
      /\ announced \in [Attempt -> Nat]
  BY DEF RemoteInv, RemoteTypes, InLog
<1>1. /\ pc = "announce"
      /\ UNCHANGED <<attempt, claims, fatal, reference, buffer, shard, values, stream, cluster, core>>
  BY DEF Announce
<1>2. CASE Ends("failed") /\ Unregister /\ UNCHANGED announced
  <2>1. Onwards
    BY <1>1, <1>2 DEF Onwards, RouteStep, Waiting, Ends, durable
  <2>2. QED
    BY <2>1, OnwardsKeeps
<1>3. CASE Submits /\ announced' = [announced EXCEPT ![attempt] = @ + 1] /\ UNCHANGED <<launch, routes>>
  <2>1. /\ announced' \in [Attempt -> Nat] /\ announced'[attempt] = announced[attempt] + 1
        /\ \A a \in Attempt : announced[a] <= announced'[a]
    BY <1>0, <1>3
  <2>2. after' \in Intent /\ pc' \in {"note", "create"}
    BY <1>3 DEF Submits, Intent, State
  <2>3. /\ Kept /\ mode' = mode
        /\ \A a \in Attempt : PodsOf(a)' = PodsOf(a) /\ (Backed(a)' <=> Backed(a)) /\ (Mine(a)' <=> Mine(a))
    <3>1. RouteStep
      BY <1>1, <1>3 DEF RouteStep
    <3>2. /\ buffer' \in Seq(Attempt \X Intent)
          /\ claims' \in [Attempt -> {"none", "adopted", "refused"}]
      BY <1>0, <1>1 DEF RemoteTypes
    <3>3. QED
      BY <1>1, <2>1, <2>2, <3>1, <3>2, MoveKeeps DEF Kept
  <2>4. Cardinality(PodsOf(attempt)') < announced'[attempt']
    <3>1. Cardinality(PodsOf(attempt)) \in Nat /\ Cardinality(PodsOf(attempt)) <= announced[attempt]
      BY <1>0, PodsCount DEF Announced
    <3>2. QED
      BY <1>0, <1>1, <2>1, <2>3, <3>1
  <2>5. Hand'
    BY <1>0, <1>1, <1>3, <2>2, <2>3 DEF Hand, Waiting, Closing, core
  <2>6. Respect'
    BY <1>0, <1>1, <2>2, <2>3 DEF Respect
  <2>7. QED
    BY <2>3, <2>4, <2>5, <2>6, KeptAndHand
<1>4. QED
  BY <1>2, <1>3 DEF Announce

\* A retry takes up the next attempt, or ends the node.
LEMMA RetryKeeps == RemoteInv /\ Retry => RemoteInv'
<1> SUFFICES ASSUME RemoteInv, Retry
             PROVE  RemoteInv'
  OBVIOUS
<1>0. RemoteTypes /\ Hand /\ Respect /\ attempt \in Attempt /\ after \in Intent
  BY DEF RemoteInv, RemoteTypes
<1>1. /\ pc = "retry" /\ UNCHANGED <<claims, fatal, reference, buffer, durable, cluster, core, routes>>
      /\ \/ /\ after \in {"failed", "timed-out"} /\ attempt + 1 \in Attempt
            /\ pc' = "launch" /\ attempt' = attempt + 1 /\ after' = "none"
         \/ /\ pc' = "flush" /\ attempt' = attempt
            /\ after' \in {after, "failed"}
            /\ after' = "succeeded" => after = "succeeded" /\ reference
  BY DEF Retry, Lands
<1>2. after' \in Intent /\ ear = None /\ UNCHANGED <<ear, mode, values>> /\ pc' # "create"
  BY <1>0, <1>1 DEF Intent, State, Hand, Waiting, routes, core, durable
<1>3. /\ Kept /\ mode' = mode
      /\ \A a \in Attempt : PodsOf(a)' = PodsOf(a) /\ (Backed(a)' <=> Backed(a)) /\ (Mine(a)' <=> Mine(a))
  <2>1. /\ buffer' \in Seq(Attempt \X Intent) /\ announced' \in [Attempt -> Nat]
        /\ claims' \in [Attempt -> {"none", "adopted", "refused"}]
        /\ \A a \in Attempt : announced[a] <= announced'[a]
    BY <1>0, <1>1 DEF RemoteTypes, durable
  <2>2. RouteStep
    BY <1>0, <1>1, <1>2 DEF RouteStep
  <2>3. QED
    BY <1>1, <1>2, <2>1, <2>2, MoveKeeps DEF durable, Kept
<1>4. Hand'
  BY <1>0, <1>1, <1>2, <1>3 DEF Hand, Waiting, Closing
<1>5. Respect'
  BY <1>0, <1>1, <1>3 DEF Respect
<1>6. QED
  BY <1>2, <1>3, <1>4, <1>5, KeptAndHand

-----------------------------------------------------------------------------
(* The shard of an attempt *)

\* What a reader makes of a file: of a file that is not well formed, nothing.
LEMMA ShardRead ==
    ASSUME NEW file \in Seq(LineType), NEW reader \in Build
    PROVE  LET found == ReadShard(file, reader) IN
           /\ found.state \in State \cup {"unreadable"} /\ found.output \in BOOLEAN
           /\ found.output => file # Missing /\ Last(file).output
           /\ Replayed(found) \in Seq({"succeeded", "failed"})
<1> DEFINE found == ReadShard(file, reader)
<1>1. found = Unreadable \/ found = Parse(file)
  BY DEF ReadShard
<1>2. \/ Parse(file) = Unreadable
      \/ /\ Len(file) >= 2 /\ Parse(file).state = Last(file).state
         /\ Parse(file).output = Last(file).output
  BY DEF Parse
<1>3. Len(file) \in Nat /\ (Len(file) >= 2 => Last(file) \in LineType /\ file # Missing)
  <2>1. Len(file) \in Nat /\ \A i \in 1..Len(file) : file[i] \in LineType
    BY LenProperties
  <2>2. Len(file) >= 2 => Len(file) \in 1..Len(file) /\ file # <<>>
    BY <2>1, EmptySeq
  <2>3. QED
    BY <2>1, <2>2 DEF Last, Missing
<1>4. Unreadable.state = "unreadable" /\ Unreadable.output = FALSE
  BY DEF Unreadable
<1>5. \A line \in LineType : line.state \in State /\ line.output \in BOOLEAN
  BY DEF LineType
<1>6. /\ found.state \in State \cup {"unreadable"} /\ found.output \in BOOLEAN
      /\ found.output => file # Missing /\ Last(file).output
  BY <1>1, <1>2, <1>3, <1>4, <1>5
<1>7. Replayed(found) \in Seq({"succeeded", "failed"})
  <2> DEFINE results == {found.records[i] : i \in DOMAIN found.records} \cap {"succeeded", "failed"}
             result == CHOOSE k \in results : TRUE
  <2>1. Replayed(found) = IF results = {} THEN <<>> ELSE <<result>>
    BY DEF Replayed
  <2>2. results # {} => result \in results
    OBVIOUS
  <2>3. results \subseteq {"succeeded", "failed"}
    OBVIOUS
  <2> HIDE DEF results, result, found
  <2>4. results # {} => result \in {"succeeded", "failed"}
    BY <2>2, <2>3
  <2>5. \A k \in {"succeeded", "failed"} : <<k>> \in Seq({"succeeded", "failed"})
    OBVIOUS
  <2>6. <<>> \in Seq({"succeeded", "failed"})
    OBVIOUS
  <2>7. QED
    BY <2>1, <2>4, <2>5, <2>6
<1>8. QED
  BY <1>6, <1>7

\* The file a pod's process may leave: an output it records was stored.
Leavable(end) ==
    \E file \in Seq(LineType), stored \in BOOLEAN : \E exit :
        end = End(file, stored, exit) /\ (file # Missing /\ Last(file).output => stored)

\* A file a pod writes is lines, and its trailer is the last of them.
LEMMA LinesRead ==
    ASSUME NEW maker \in Build, NEW records \in Seq(Kind), NEW state \in State, NEW output \in BOOLEAN
    PROVE  /\ ToLines(maker, records, state, output) \in Seq(LineType)
           /\ Last(ToLines(maker, records, state, output)).output = output
<1> DEFINE header == Line("header", maker, 0, "none", FALSE)
           trailer == Line("trailer", "none", Len(records), state, output)
           middle == [i \in DOMAIN records |-> Line(records[i], "none", 0, "none", FALSE)]
<1>1. ToLines(maker, records, state, output) = <<header>> \o middle \o <<trailer>>
  BY DEF ToLines
<1>2. Len(records) \in Nat /\ DOMAIN records = 1..Len(records) /\ \A i \in 1..Len(records) : records[i] \in Kind
  BY LenProperties
<1>3. \A k \in Kind : Line(k, "none", 0, "none", FALSE) \in LineType
  BY DEF Line, LineType, State
<1>4. middle \in [1..Len(records) -> LineType]
  BY <1>2, <1>3
<1>5. header \in LineType /\ trailer \in LineType /\ trailer.output = output
  BY <1>2 DEF Line, LineType, State, Kind
<1> HIDE DEF header, middle, trailer
<1>6. middle \in Seq(LineType) /\ Len(middle) = Len(records)
  BY <1>2, <1>4, IsASeq, LenProperties
<1>7. /\ <<header>> \in Seq(LineType) /\ Len(<<header>>) = 1
      /\ <<trailer>> \in Seq(LineType) /\ Len(<<trailer>>) = 1 /\ <<trailer>>[1] = trailer
  BY <1>5
<1> DEFINE h == <<header>>
           t == <<trailer>>
<1>8. ToLines(maker, records, state, output) = h \o middle \o t
      /\ h \in Seq(LineType) /\ Len(h) = 1 /\ t \in Seq(LineType) /\ Len(t) = 1 /\ t[1] = trailer
  BY <1>1, <1>7
<1> HIDE DEF h, t
<1>9. h \o middle \in Seq(LineType) /\ Len(h \o middle) = Len(records) + 1
  <2>1. h \o middle \in Seq(LineType) /\ Len(h \o middle) = Len(h) + Len(middle)
    BY <1>6, <1>8, ConcatProperties
  <2>2. QED
    BY <1>2, <1>6, <1>8, <2>1
<1> DEFINE front == h \o middle
<1>10. front \in Seq(LineType) /\ Len(front) = Len(records) + 1
       /\ ToLines(maker, records, state, output) = front \o t
  BY <1>8, <1>9
<1> HIDE DEF front
<1>11. /\ front \o t \in Seq(LineType) /\ Len(front \o t) = Len(records) + 2
       /\ (front \o t)[Len(records) + 2] = trailer
  <2>1. /\ front \o t \in Seq(LineType) /\ Len(front \o t) = Len(front) + Len(t)
        /\ \A i \in 1..(Len(front) + Len(t)) :
             (front \o t)[i] = IF i <= Len(front) THEN front[i] ELSE t[i - Len(front)]
    BY <1>8, <1>10, ConcatProperties
  <2>2. QED
    BY <1>2, <1>8, <1>10, <2>1
<1>12. QED
  BY <1>5, <1>10, <1>11 DEF Last

\* The records between header and trailer are of known kinds.
LEMMA RecordsRead ==
    ASSUME NEW returned \in {"none", "succeeded", "failed"}
    PROVE  RecordsOf(returned) \in Seq(Kind)
<1>1. CASE returned = "none"
  BY <1>1 DEF RecordsOf, Kind
<1>2. CASE returned = "succeeded"
  BY <1>2 DEF RecordsOf, Kind
<1>3. CASE returned = "failed"
  BY <1>3 DEF RecordsOf, Kind
<1>4. QED
  BY <1>1, <1>2, <1>3

\* What a leavable end is made of.
LEMMA LeavableFields ==
    ASSUME NEW end, Leavable(end)
    PROVE  /\ end.file \in Seq(LineType) /\ end.stored \in BOOLEAN
           /\ end.file # Missing /\ Last(end.file).output => end.stored
           /\ \A new : Leavable([end EXCEPT !.exit = new])
<1>1. PICK file \in Seq(LineType), stored \in BOOLEAN : \E exit :
          end = End(file, stored, exit) /\ (file # Missing /\ Last(file).output => stored)
  BY DEF Leavable
<1>0. PICK exit : end = End(file, stored, exit) /\ (file # Missing /\ Last(file).output => stored)
  BY <1>1
<1>2. end.file = file /\ end.stored = stored
  BY <1>0 DEF End
<1>3. \A new : [end EXCEPT !.exit = new] = End(file, stored, new)
  BY <1>0 DEF End
<1>4. \A new : Leavable(End(file, stored, new))
  BY <1>0 DEF Leavable
<1>5. end.file \in Seq(LineType) /\ end.stored \in BOOLEAN
  BY <1>2
<1>6. end.file # Missing /\ Last(end.file).output => end.stored
  BY <1>0, <1>2
<1>7. \A new : Leavable([end EXCEPT !.exit = new])
  BY <1>3, <1>4
<1>8. QED
  BY <1>5, <1>6, <1>7

\* Every end a pod may come to, with or without a fault, is leavable.
LEMMA EndsLeavable ==
    ASSUME NEW maker \in Build, NEW told \in BOOLEAN,
           NEW end \in Ordinary(maker, told) \cup Faulty(maker, told)
    PROVE  Leavable(end)
<1>1. ASSUME NEW r \in {"none", "succeeded", "failed"}, NEW state \in State, NEW output \in BOOLEAN,
             NEW stored \in BOOLEAN, output => stored, NEW exit
      PROVE  Leavable(End(ToLines(maker, RecordsOf(r), state, output), stored, exit))
  BY <1>1, LinesRead, RecordsRead DEF Leavable
<1>2. ASSUME NEW exit, NEW stored \in BOOLEAN
      PROVE  Leavable(End(Missing, stored, exit))
  <2>1. Missing \in Seq(LineType)
    BY DEF Missing
  <2>2. QED
    BY <2>1 DEF Leavable
<1>3. ASSUME NEW r \in Returned, NEW filled \in BOOLEAN, NEW late \in BOOLEAN
      PROVE  Leavable(Returns(maker, r, late, filled))
  <2> DEFINE state == Effective(r, late)
             stored == filled /\ state = "succeeded"
  <2>1. r \in {"none", "succeeded", "failed"} /\ state \in State /\ stored \in BOOLEAN
    BY DEF Returned, Effective, State
  <2>2. Returns(maker, r, late, filled) = End(ToLines(maker, RecordsOf(r), state, stored), stored, ExitOf(state))
    BY DEF Returns
  <2> HIDE DEF state, stored
  <2>3. QED
    BY <1>1, <2>1, <2>2
<1>4. Leavable(Watchdog(maker))
  <2>1. "abandoned" \in State /\ "none" \in {"none", "succeeded", "failed"}
    BY DEF State
  <2>2. QED
    BY <1>1, <2>1 DEF Watchdog
<1>5. ASSUME NEW r \in Returned, NEW e \in Overtaken(maker, r)
      PROVE  Leavable(e)
  <2> DEFINE late == ToLines(maker, RecordsOf(r), "abandoned", FALSE)
             own == Returns(maker, r, TRUE, TRUE)
  <2>1. Leavable(own)
    BY <1>3
  <2>2. own.stored \in BOOLEAN /\ Leavable([own EXCEPT !.exit = "cancelled"])
    BY <2>1, LeavableFields
  <2>3. "abandoned" \in State /\ r \in {"none", "succeeded", "failed"}
    BY DEF State, Returned
  <2>4. \A exit : Leavable(End(late, own.stored, exit))
    BY <1>1, <2>2, <2>3
  <2>5. (\E exit : e = End(late, own.stored, exit)) \/ e = [own EXCEPT !.exit = "cancelled"]
    BY DEF Overtaken
  <2> HIDE DEF late, own
  <2>6. QED
    BY <2>2, <2>4, <2>5
<1>6. ASSUME NEW e \in Ordinary(maker, told)
      PROVE  Leavable(e)
  <2>1. \/ \E r \in Returned : e = Returns(maker, r, told, TRUE)
        \/ e = Watchdog(maker)
        \/ \E r \in Returned : e \in Overtaken(maker, r)
    BY DEF Ordinary
  <2>2. CASE \E r \in Returned : e = Returns(maker, r, told, TRUE)
    BY <1>3, <2>2
  <2>3. CASE \E r \in Returned : e \in Overtaken(maker, r)
    <3>1. PICK r \in Returned : e \in Overtaken(maker, r)
      BY <2>3
    <3>2. QED
      BY <1>5, <3>1
  <2>4. CASE e = Watchdog(maker)
    BY <1>4, <2>4
  <2>5. QED
    BY <2>1, <2>2, <2>3, <2>4
<1>7. ASSUME NEW e \in Faulty(maker, told)
      PROVE  Leavable(e)
  <2>1. \/ \E r \in Refusals : e = End(Missing, FALSE, r)
        \/ \E u \in Unstored : e = End(Missing, u = "shard", u)
        \/ e = Returns(maker, "succeeded", told, FALSE)
        \/ \E o \in Ordinary(maker, told) : e = [o EXCEPT !.exit = "killed"]
    BY DEF Faulty, Refused
  <2>2. "succeeded" \in Returned
    BY DEF Returned
  <2>3. \A u : (u = "shard") \in BOOLEAN
    OBVIOUS
  <2>4. CASE \E u \in Unstored : e = End(Missing, u = "shard", u)
    BY <1>2, <2>3, <2>4
  <2>5. CASE \E o \in Ordinary(maker, told) : e = [o EXCEPT !.exit = "killed"]
    <3>1. PICK o \in Ordinary(maker, told) : e = [o EXCEPT !.exit = "killed"]
      BY <2>5
    <3>2. Leavable(o)
      BY <1>6
    <3>3. \A new : Leavable([o EXCEPT !.exit = new])
      BY <3>2, LeavableFields
    <3>4. QED
      BY <3>1, <3>3
  <2>6. QED
    BY <1>2, <1>3, <2>1, <2>2, <2>4, <2>5
<1>8. QED
  BY <1>6, <1>7

-----------------------------------------------------------------------------
(* The steps that read a shard, and those that change a pod *)

\* The conclusion claims a value only of an attempt whose pod ended in success.
LEMMA ConcludeKeeps == RemoteInv /\ Conclude => RemoteInv'
<1> SUFFICES ASSUME RemoteInv, Conclude
             PROVE  RemoteInv'
  OBVIOUS
<1> DEFINE found == ReadShard(shard[attempt], build)
           told == Reports(found, after)
<1>0. /\ RemoteTypes /\ Hand /\ Respect /\ Files /\ attempt \in Attempt /\ shard[attempt] \in Seq(LineType)
      /\ buffer \in Seq(Attempt \X Intent) /\ build \in Build
  BY DEF RemoteInv, RemoteTypes
<1>1. /\ pc = "conclude" /\ pc' = "tombstone"
      /\ after' = Verdict(found, after)
      /\ reference' = (found.output /\ after' = "succeeded")
      /\ buffer' = buffer \o [i \in DOMAIN told |-> <<attempt, told[i]>>]
      /\ UNCHANGED <<attempt, launch, claims, fatal, durable, cluster, core, routes>>
  BY DEF Conclude
<1>2. /\ found.state \in State \cup {"unreadable"} /\ found.output \in BOOLEAN
      /\ found.output => shard[attempt] # Missing /\ Last(shard[attempt]).output
      /\ Replayed(found) \in Seq({"succeeded", "failed"})
  BY <1>0, ShardRead
<1> HIDE DEF found
<1>3. after' \in Intent /\ (after' = "succeeded" => after # "Failed")
  BY <1>1, <1>2 DEF Verdict, Intent, State
<1>4. told \in Seq(Intent)
  <2>1. <<"failed">> \in Seq({"succeeded", "failed"})
    OBVIOUS
  <2>2. told \in Seq({"succeeded", "failed"})
    BY <1>2, <2>1 DEF Reports
  <2>3. \A s \in Seq({"succeeded", "failed"}) : s \in Seq(Intent)
    BY DEF Intent, State
  <2>4. QED
    BY <2>2, <2>3
<1> HIDE DEF told
<1>5. buffer' \in Seq(Attempt \X Intent)
  <2> DEFINE more == [i \in DOMAIN told |-> <<attempt, told[i]>>]
  <2>1. DOMAIN told = 1..Len(told) /\ Len(told) \in Nat /\ \A i \in 1..Len(told) : told[i] \in Intent
    BY <1>4, LenProperties
  <2>2. more \in [1..Len(told) -> Attempt \X Intent]
    BY <1>0, <2>1
  <2> HIDE DEF more
  <2>3. more \in Seq(Attempt \X Intent)
    BY <2>1, <2>2
  <2>4. buffer \o more \in Seq(Attempt \X Intent)
    BY <1>0, <2>3, ConcatProperties
  <2>5. QED
    BY <1>1, <2>4 DEF more
<1>6. /\ Kept /\ mode' = mode
      /\ \A a \in Attempt : PodsOf(a)' = PodsOf(a) /\ (Backed(a)' <=> Backed(a)) /\ (Mine(a)' <=> Mine(a))
  <2>1. /\ announced' \in [Attempt -> Nat]
        /\ claims' \in [Attempt -> {"none", "adopted", "refused"}]
        /\ \A a \in Attempt : announced[a] <= announced'[a]
    BY <1>0, <1>1 DEF RemoteTypes, durable
  <2>2. RouteStep
    BY <1>1 DEF RouteStep
  <2>3. QED
    BY <1>1, <1>3, <1>5, <2>1, <2>2, MoveKeeps DEF durable, Kept
<1>7. Hand'
  <2>1. after \in Ended /\ (after = "Succeeded" => Backed(attempt)) /\ ear = None
    BY <1>0, <1>1 DEF Hand, Waiting
  <2>2. after' = "succeeded" => Backed(attempt)'
    BY <1>0, <1>1, <1>3, <1>6, <2>1 DEF Ended
  <2>3. reference' => attempt \in values /\ after' = "succeeded"
    BY <1>0, <1>1, <1>2 DEF Files
  <2>4. UNCHANGED <<attempt, values, mode, ear>>
    BY <1>1 DEF durable, core, routes
  <2>5. mode' # "stopped"
    BY <1>0, <1>1, <2>4 DEF Hand
  <2>6. QED
    BY <1>1, <2>1, <2>2, <2>3, <2>4, <2>5 DEF Hand, Waiting, Closing
<1>8. Respect'
  BY <1>0, <1>1, <1>6 DEF Respect
<1>9. QED
  BY <1>1, <1>6, <1>7, <1>8, KeptAndHand

\* A change of the pods by an edit of one that is there, or none.
EditStep ==
    \/ UNCHANGED cluster
    \/ \E u \in Held : \E p \in PodType : \E kind \in {"Modified", "Deleted"} :
         Changes(u, p, kind) /\ Edits(u, p)

\* Every step of the cluster, an edit or a birth, keeps the cluster, the feed and the counts.
LEMMA ClusterKeeps ==
    ASSUME RemoteTypes, Cluster, FeedInv, FeedHeard, EditStep \/ Creates,
           UNCHANGED <<seen, finished, finals>>
    PROVE  /\ pods' \in [Uid -> PodType] /\ feed' \in Seq(ChangeType)
           /\ build' = build
           /\ Cluster' /\ FeedInv' /\ FeedHeard' /\ PodsKept /\ (Counts => Counts')
           /\ EditStep => \A a \in Attempt : PodsOf(a)' = PodsOf(a)
<1>1. CASE UNCHANGED cluster
  <2>1. UNCHANGED <<build, pods, feed>>
    BY <1>1 DEF cluster
  <2>2. \A a \in Attempt : PodsOf(a)' = PodsOf(a) /\ (Backed(a)' <=> Backed(a)) /\ (Mine(a)' <=> Mine(a))
    BY <2>1 DEF PodsOf, Backed, Mine, Holder, Held
  <2>3. Cluster' /\ FeedInv' /\ FeedHeard'
    BY <2>1 DEF Cluster, FeedInv, FeedHeard, Backed, PodsOf, Held
  <2>4. Counts => Counts'
    BY <2>1 DEF Counts, Spent, Quiet, InFeed, PodsOf
  <2>5. QED
    BY <2>1, <2>2, <2>3, <2>4 DEF RemoteTypes, PodsKept
<1>2. ASSUME NEW u \in Held, NEW p \in PodType, NEW kind \in {"Modified", "Deleted"},
             Changes(u, p, kind), Edits(u, p)
      PROVE  /\ pods' \in [Uid -> PodType] /\ feed' \in Seq(ChangeType)
             /\ build' = build
             /\ Cluster' /\ FeedInv' /\ FeedHeard' /\ PodsKept /\ (Counts => Counts')
             /\ \A a \in Attempt : PodsOf(a)' = PodsOf(a)
  BY <1>2, EditKeeps
<1>3. CASE Creates /\ ~EditStep
  BY <1>3, BirthKeeps
<1>4. QED
  BY <1>1, <1>2, <1>3 DEF EditStep

\* A step that edits a pod, and may end a wait or change a shard, keeps all but
\* what the runner has in hand.
LEMMA EditMoves ==
    ASSUME RemoteInv, EditStep, UNCHANGED <<core, attempt, claims, announced, stream>>,
           Unregister \/ UNCHANGED routes, after' \in Intent, buffer' \in Seq(Attempt \X Intent),
           shard' \in [Attempt -> Seq(LineType)], values \subseteq values', values' \subseteq Attempt,
           Files'
    PROVE  /\ Kept /\ mode' = mode
           /\ \A a \in Attempt : PodsOf(a)' = PodsOf(a) /\ (Backed(a) => Backed(a)') /\ (Mine(a) => Mine(a)')
<1>0. /\ RemoteTypes /\ Cluster /\ Announced /\ FeedInv /\ FinalOnce /\ (mode # "stopped" => Counts)
      /\ Heard /\ FeedHeard /\ SuccessIsBacked
  BY DEF RemoteInv, InLog, Heard
<1>1. UNCHANGED <<mode, seen, finished, attempt, claims, announced, stream>>
  BY DEF core
<1>2. UNCHANGED finals
  BY DEF Unregister, routes
<1>3. /\ pods' \in [Uid -> PodType] /\ feed' \in Seq(ChangeType) /\ build' = build
      /\ Cluster' /\ FeedInv' /\ FeedHeard' /\ PodsKept /\ (Counts => Counts')
      /\ \A a \in Attempt : PodsOf(a)' = PodsOf(a)
  BY <1>0, <1>1, <1>2, ClusterKeeps
<1>4. /\ live' \subseteq Attempt /\ pending' \in [Attempt -> Seq(MessageType)]
      /\ ear' \in {None, attempt'} /\ mail' \in Seq(MessageType)
      /\ Buffered' /\ InMail'
  <2>1. RouteStep
    BY DEF RouteStep
  <2>2. QED
    BY <1>0, <1>3, <2>1, RouteKeeps DEF PodsKept
<1>5. RemoteTypes'
  BY <1>0, <1>1, <1>2, <1>3, <1>4 DEF RemoteTypes
<1>6. FinalOnce' /\ Announced'
  BY <1>0, <1>1, <1>2, <1>3 DEF FinalOnce, Announced
<1>7. SuccessIsBacked'
  <2>1. \A a \in values : Backed(a) => a \in values' /\ Backed(a)'
    BY <1>0, <1>3 DEF PodsKept, RemoteTypes
  <2>2. QED
    BY <1>0, <1>1, <2>1 DEF SuccessIsBacked, Backed
<1>8. QED
  BY <1>0, <1>1, <1>3, <1>4, <1>5, <1>6, <1>7 DEF Kept, Heard, PodsKept

\* A patch is an edit of a held pod.
LEMMA PatchedEdits ==
    ASSUME RemoteTypes, Patched("owned", FALSE) \/ Patched("dying", TRUE) \/ Patched("complete", TRUE)
    PROVE  EditStep
<1>1. ASSUME NEW u \in Held
      PROVE  /\ [pods[u] EXCEPT !["owned"] = FALSE] \in PodType /\ Edits(u, [pods[u] EXCEPT !["owned"] = FALSE])
             /\ [pods[u] EXCEPT !["dying"] = TRUE] \in PodType /\ Edits(u, [pods[u] EXCEPT !["dying"] = TRUE])
             /\ [pods[u] EXCEPT !["complete"] = TRUE] \in PodType
             /\ Edits(u, [pods[u] EXCEPT !["complete"] = TRUE])
  <2>1. pods[u] \in PodType
    BY DEF RemoteTypes, Held
  <2>2. QED
    BY <2>1 DEF PodType, Edits
<1>2. \A u \in Holder(attempt) : u \in Held
  BY DEF Holder
<1>3. CASE Holder(attempt) = {}
  BY <1>3 DEF Patched, EditStep
<1>4. CASE Holder(attempt) # {}
  BY <1>1, <1>2, <1>4 DEF Patched, EditStep
<1>5. QED
  BY <1>3, <1>4

\* A pod is born only after its record, and under a name nobody holds.
LEMMA CreateKeeps == RemoteInv /\ Create => RemoteInv'
<1> SUFFICES ASSUME RemoteInv, Create
             PROVE  RemoteInv'
  OBVIOUS
<1>0. /\ RemoteTypes /\ Cluster /\ FeedInv /\ FinalOnce /\ (mode # "stopped" => Counts) /\ InLog
      /\ Heard /\ FeedHeard /\ SuccessIsBacked /\ Files /\ Hand /\ Respect /\ attempt \in Attempt
  BY DEF RemoteInv, Heard, RemoteTypes
<1>1. /\ pc = "create" /\ UNCHANGED <<attempt, claims, fatal, reference, buffer, durable, core>>
      /\ EditStep \/ Creates
      /\ \/ pc' = "note" /\ UNCHANGED <<after, routes>>
         \/ pc' \in {"launch", "flush"} /\ after' \in {"none", "failed"} /\ Unregister
  BY DEF Create, Relaunch, Ends, EditStep
<1>2. after' \in Intent /\ (Unregister \/ UNCHANGED routes)
  BY <1>0, <1>1 DEF RemoteTypes, Intent, State
<1>3. UNCHANGED <<mode, seen, finished, announced, shard, values, stream, finals>>
  BY <1>1 DEF core, durable, routes, Unregister
<1>4. /\ pods' \in [Uid -> PodType] /\ feed' \in Seq(ChangeType) /\ build' = build
      /\ Cluster' /\ FeedInv' /\ FeedHeard' /\ PodsKept /\ (Counts => Counts')
      /\ EditStep => \A a \in Attempt : PodsOf(a)' = PodsOf(a)
  BY <1>0, <1>1, <1>3, ClusterKeeps
<1>5. \A a \in Attempt :
        /\ Cardinality(PodsOf(a)) \in Nat /\ Cardinality(PodsOf(a)') \in Nat
        /\ Cardinality(PodsOf(a)) <= Cardinality(PodsOf(a)')
        /\ Cardinality(PodsOf(a)') <= IF a = attempt THEN Cardinality(PodsOf(a)) + 1
                                                     ELSE Cardinality(PodsOf(a))
  <2>1. \A a \in Attempt : IsFiniteSet(PodsOf(a)) /\ IsFiniteSet(PodsOf(a)') /\ PodsOf(a) \subseteq PodsOf(a)'
    BY <1>0, <1>4 DEF Cluster, PodsKept
  <2>2. \A a \in Attempt :
        /\ Cardinality(PodsOf(a)) \in Nat /\ Cardinality(PodsOf(a)') \in Nat
        /\ Cardinality(PodsOf(a)) <= Cardinality(PodsOf(a)')
    BY <2>1, FS_Subset, FS_CardinalityType
  <2>3. CASE EditStep
    BY <1>4, <2>2, <2>3
  <2>4. CASE Creates
    BY <1>0, <1>3, <2>2, <2>4, BirthKeeps
  <2>5. QED
    BY <1>1, <2>3, <2>4
<1>6. /\ live' \subseteq Attempt /\ pending' \in [Attempt -> Seq(MessageType)]
      /\ ear' \in {None, attempt'} /\ mail' \in Seq(MessageType)
      /\ Buffered' /\ InMail'
  <2>1. RouteStep
    BY <1>1 DEF RouteStep
  <2>2. QED
    BY <1>0, <1>4, <2>1, RouteKeeps DEF PodsKept
<1>7. RemoteTypes'
  <2>1. after' \in Intent
    BY <1>0, <1>1 DEF RemoteTypes, Intent, State
  <2>2. QED
    BY <1>0, <1>1, <1>3, <1>4, <1>6, <2>1 DEF RemoteTypes
<1>8. FinalOnce' /\ Announced'
  <2>1. \A a \in Attempt : finals[a] \in Nat /\ announced[a] \in Nat
    BY <1>0 DEF RemoteTypes
  <2>2. FinalOnce'
    <3>1. \A a \in Attempt : finals[a] <= Cardinality(PodsOf(a))
      BY <1>0 DEF FinalOnce
    <3>2. \A a \in Attempt : finals'[a] <= Cardinality(PodsOf(a)')
      BY <1>3, <1>5, <2>1, <3>1
    <3>3. QED
      BY <3>2 DEF FinalOnce
  <2>3. Announced'
    <3>1. /\ \A a \in Attempt : Cardinality(PodsOf(a)) <= announced[a]
          /\ Cardinality(PodsOf(attempt)) < announced[attempt]
      BY <1>0, <1>1 DEF InLog, Announced
    <3>2. \A a \in Attempt : Cardinality(PodsOf(a)') <= announced'[a]
      BY <1>0, <1>3, <1>5, <2>1, <3>1
    <3>3. QED
      BY <3>2 DEF Announced
  <2>4. QED
    BY <2>2, <2>3
<1>9. SuccessIsBacked' /\ Files'
  <2>1. \A a \in values : Backed(a) => Backed(a)'
    BY <1>0, <1>4 DEF PodsKept, RemoteTypes
  <2>2. QED
    BY <1>0, <1>3, <2>1 DEF SuccessIsBacked, Backed, Files
<1>10. Kept
  BY <1>0, <1>3, <1>4, <1>6, <1>7, <1>8, <1>9 DEF Kept, Heard
<1>11. Hand'
  <2>1. ~reference' /\ mode' # "stopped" /\ (pc' \notin Waiting => ear' = None)
    BY <1>0, <1>1, <1>3 DEF Hand, Waiting, Closing, Unregister
  <2>2. QED
    BY <1>1, <2>1 DEF Hand, Waiting, Closing
<1>12. Respect'
  BY <1>0, <1>1, <1>4 DEF Respect, PodsKept
<1>13. QED
  BY <1>1, <1>10, <1>11, <1>12, KeptAndHand

\* Disowning a pod keeps the invariant.
LEMMA PatchOwnerKeeps == RemoteInv /\ PatchOwner => RemoteInv'
<1> SUFFICES ASSUME RemoteInv, PatchOwner
             PROVE  RemoteInv'
  OBVIOUS
<1>0. /\ RemoteTypes /\ Hand /\ Respect /\ Files /\ attempt \in Attempt
      /\ after \in Intent /\ buffer \in Seq(Attempt \X Intent)
      /\ shard \in [Attempt -> Seq(LineType)] /\ values \subseteq Attempt
  BY DEF RemoteInv, RemoteTypes
<1>1. /\ pc = "patch" /\ pc' = "delete" /\ EditStep
      /\ UNCHANGED <<attempt, launch, claims, after, fatal, reference, buffer>>
      /\ UNCHANGED <<announced, shard, values, stream>> /\ UNCHANGED core /\ UNCHANGED routes
  BY <1>0, PatchedEdits DEF PatchOwner, EditStep, runner, durable
<1>2. Files'
  BY <1>0, <1>1 DEF Files
<1>3. /\ Kept /\ mode' = mode
      /\ \A a \in Attempt : PodsOf(a)' = PodsOf(a) /\ (Backed(a) => Backed(a)') /\ (Mine(a) => Mine(a)')
  BY <1>0, <1>1, <1>2, EditMoves
<1>4. Hand'
  BY <1>0, <1>1, <1>3 DEF Hand, Waiting, Closing
<1>5. Respect'
  BY <1>0, <1>1, <1>3 DEF Respect
<1>6. QED
  BY <1>1, <1>3, <1>4, <1>5, KeptAndHand

\* The tombstone takes the pod out of the observer's sight after its end was told.
LEMMA TombstoneKeeps == RemoteInv /\ Tombstone => RemoteInv'
<1> SUFFICES ASSUME RemoteInv, Tombstone
             PROVE  RemoteInv'
  OBVIOUS
<1>0. /\ RemoteTypes /\ Hand /\ Respect /\ Files /\ attempt \in Attempt
      /\ after \in Intent /\ buffer \in Seq(Attempt \X Intent)
      /\ shard \in [Attempt -> Seq(LineType)] /\ values \subseteq Attempt
  BY DEF RemoteInv, RemoteTypes
<1>1. /\ pc = "tombstone" /\ pc' = "retry" /\ EditStep
      /\ UNCHANGED <<attempt, launch, claims, after, fatal, reference, buffer>>
      /\ UNCHANGED <<announced, shard, values, stream>> /\ UNCHANGED core /\ UNCHANGED routes
  BY <1>0, PatchedEdits DEF Tombstone, EditStep, runner, durable
<1>2. Files'
  BY <1>0, <1>1 DEF Files
<1>3. /\ Kept /\ mode' = mode
      /\ \A a \in Attempt : PodsOf(a)' = PodsOf(a) /\ (Backed(a) => Backed(a)') /\ (Mine(a) => Mine(a)')
  BY <1>0, <1>1, <1>2, EditMoves
<1>4. Hand'
  BY <1>0, <1>1, <1>3 DEF Hand, Waiting, Closing, routes
<1>5. Respect'
  BY <1>0, <1>1, <1>3 DEF Respect
<1>6. QED
  BY <1>1, <1>3, <1>4, <1>5, KeptAndHand

\* Deleting a pod keeps the invariant.
LEMMA DeleteKeeps == RemoteInv /\ Delete => RemoteInv'
<1> SUFFICES ASSUME RemoteInv, Delete
             PROVE  RemoteInv'
  OBVIOUS
<1>0. /\ RemoteTypes /\ Hand /\ Respect /\ Files /\ attempt \in Attempt
      /\ after \in Intent /\ buffer \in Seq(Attempt \X Intent)
      /\ shard \in [Attempt -> Seq(LineType)] /\ values \subseteq Attempt
      /\ after \in {"replace", "relaunch", "cancelled", "timed-out"} /\ pc = "delete"
  BY DEF RemoteInv, RemoteTypes, Hand, Delete
<1>1. /\ EditStep
      /\ UNCHANGED <<attempt, claims, fatal, reference>>
      /\ UNCHANGED <<announced, shard, values, stream>> /\ UNCHANGED core
  BY <1>0, PatchedEdits DEF Delete, EditStep, durable
<1>2. \/ pc' = "announce" /\ after' = "create" /\ UNCHANGED <<buffer, routes>>
      \/ pc' = "launch" /\ after' = "none" /\ Unregister /\ UNCHANGED buffer
      \/ pc' = "flush" /\ after' \in {"failed", "cancelled"} /\ Unregister /\ UNCHANGED buffer
      \/ pc' = "retry" /\ after' = after /\ after = "timed-out" /\ Unregister
         /\ buffer' = Append(buffer, <<attempt, "timed-out">>)
  BY <1>0 DEF Delete, Relaunch, Ends
<1>3. after' \in Intent /\ buffer' \in Seq(Attempt \X Intent) /\ (Unregister \/ UNCHANGED routes)
  <2>1. "timed-out" \in Intent /\ <<attempt, "timed-out">> \in Attempt \X Intent
    BY <1>0 DEF Intent
  <2>2. Append(buffer, <<attempt, "timed-out">>) \in Seq(Attempt \X Intent)
    BY <1>0, <2>1
  <2>3. after' \in Intent
    BY <1>0, <1>2 DEF Intent, State
  <2>4. QED
    BY <1>0, <1>2, <2>2, <2>3
<1>4. Files'
  BY <1>0, <1>1 DEF Files
<1>5. /\ Kept /\ mode' = mode
      /\ \A a \in Attempt : PodsOf(a)' = PodsOf(a) /\ (Backed(a) => Backed(a)') /\ (Mine(a) => Mine(a)')
  BY <1>0, <1>1, <1>3, <1>4, EditMoves
<1>6. Hand'
  <2>1. ~reference' /\ mode' # "stopped" /\ (pc' \notin Waiting => ear' = None)
    BY <1>0, <1>1, <1>2, <1>5 DEF Hand, Waiting, Closing, Unregister
  <2>2. after' # "succeeded"
    BY <1>2
  <2>3. QED
    BY <1>2, <2>1, <2>2 DEF Hand, Waiting, Closing
<1>7. Respect'
  BY <1>0, <1>1, <1>2, <1>5 DEF Respect
<1>8. QED
  BY <1>2, <1>5, <1>6, <1>7, KeptAndHand

-----------------------------------------------------------------------------
(* The pods, the observing task, and the end or the death of the orchestrator *)

\* A step outside the orchestrator that edits a pod leaves its hand as it is.
LEMMA OutsideKeeps ==
    ASSUME RemoteInv, EditStep, Outside, shard' \in [Attempt -> Seq(LineType)],
           values \subseteq values', values' \subseteq Attempt, Files'
    PROVE  RemoteInv'
<1>0. /\ RemoteTypes /\ Hand /\ Respect /\ attempt \in Attempt /\ InLog
      /\ after \in Intent /\ buffer \in Seq(Attempt \X Intent)
  BY DEF RemoteInv, RemoteTypes
<1>1. /\ UNCHANGED <<pc, attempt, launch, claims, after, fatal, reference, buffer, announced, stream>>
      /\ UNCHANGED core /\ UNCHANGED routes
  BY DEF Outside, runner
<1>2. /\ Kept /\ mode' = mode
      /\ \A a \in Attempt : PodsOf(a)' = PodsOf(a) /\ (Backed(a) => Backed(a)') /\ (Mine(a) => Mine(a)')
  BY <1>0, <1>1, EditMoves
<1>3. Hand'
  <2>1. UNCHANGED ear
    BY <1>1 DEF routes
  <2>2. (Backed(attempt) => Backed(attempt)') /\ (attempt \in values => attempt \in values')
    <3>1. Backed(attempt) => Backed(attempt)'
      <4>1. UNCHANGED attempt
        BY <1>1
      <4>2. QED
        BY <1>0, <1>2, <4>1 DEF Backed, PodsOf
    <3>2. QED
      BY <3>1
  <2>3. UNCHANGED <<pc, after, reference, mode, attempt, ear>>
    BY <1>1, <1>2, <2>1
  <2>4. QED
    BY <1>0, <2>2, <2>3 DEF Hand
<1>4. Respect'
  BY <1>0, <1>1, <1>2 DEF Respect
<1>5. pc' = "create" => Cardinality(PodsOf(attempt)') < announced'[attempt']
  BY <1>0, <1>1, <1>2 DEF InLog
<1>6. QED
  BY <1>2, <1>3, <1>4, <1>5, KeptAndHand

\* What a pod does on its own, and what becomes of it, keeps the invariant.
LEMMA PodKeeps ==
    ASSUME RemoteInv, NEW u \in Uid, Schedule(u) \/ Leave(u) \/ Go(u)
    PROVE  RemoteInv'
<1>0. /\ RemoteTypes /\ Files /\ pods[u] \in PodType
      /\ shard \in [Attempt -> Seq(LineType)] /\ values \subseteq Attempt
      /\ u \in Held => pods[u].attempt \in Attempt
  BY DEF RemoteInv, RemoteTypes, Cluster
<1>1. CASE Schedule(u)
  <2>1. EditStep
    <3>1. PICK phase \in {"Stuck", "Running"} : Changes(u, [pods[u] EXCEPT !.phase = phase], "Modified")
      BY <1>1 DEF Schedule
    <3>2. u \in Held /\ pods[u].phase # "Succeeded"
      BY <1>1 DEF Schedule
    <3>3. [pods[u] EXCEPT !.phase = phase] \in PodType /\ Edits(u, [pods[u] EXCEPT !.phase = phase])
      BY <1>0, <3>2 DEF PodType, Phase, Edits
    <3>4. QED
      BY <3>1, <3>2, <3>3 DEF EditStep
  <2>2. UNCHANGED <<shard, values>> /\ Outside
    BY <1>1 DEF Schedule
  <2>3. Files'
    BY <1>0, <2>2 DEF Files
  <2>4. QED
    BY <1>0, <2>1, <2>2, <2>3, OutsideKeeps
<1>2. CASE Go(u)
  <2>1. EditStep
    <3>1. u \in Held /\ Changes(u, [pods[u] EXCEPT !.here = FALSE], "Deleted")
      BY <1>2 DEF Go
    <3>2. [pods[u] EXCEPT !.here = FALSE] \in PodType /\ Edits(u, [pods[u] EXCEPT !.here = FALSE])
      BY <1>0 DEF PodType, Edits
    <3>3. QED
      BY <3>1, <3>2 DEF EditStep
  <2>2. UNCHANGED <<shard, values>> /\ Outside
    BY <1>2 DEF Go
  <2>3. Files'
    BY <1>0, <2>2 DEF Files
  <2>4. QED
    BY <1>0, <2>1, <2>2, <2>3, OutsideKeeps
<1>3. CASE Leave(u)
  <2>1. u \in Held /\ pods[u].phase = "Running" /\ Outside
    BY <1>3 DEF Leave
  <2>2. pods[u].build \in Build /\ pods[u].dying \in BOOLEAN /\ pods[u].attempt \in Attempt
    BY <1>0, <2>1 DEF PodType
  <2>3. PICK end \in Ordinary(pods[u].build, pods[u].dying) \cup Faulty(pods[u].build, pods[u].dying) :
          Leaves(u, end)
    BY <1>3 DEF Leave
  <2>4. /\ end.file \in Seq(LineType) /\ end.stored \in BOOLEAN
        /\ end.file # Missing /\ Last(end.file).output => end.stored
    BY <2>2, EndsLeavable, LeavableFields
  <2>5. EditStep
    <3>1. PhaseOf(end.exit) \in Phase
      BY DEF PhaseOf, Phase, Ended
    <3>2. /\ [pods[u] EXCEPT !.phase = PhaseOf(end.exit)] \in PodType
          /\ Edits(u, [pods[u] EXCEPT !.phase = PhaseOf(end.exit)])
      BY <1>0, <2>1, <3>1 DEF PodType, Edits
    <3>3. QED
      BY <2>1, <2>3, <3>2 DEF EditStep, Leaves
  <2>6. /\ shard' = IF end.file = Missing THEN shard ELSE [shard EXCEPT ![pods[u].attempt] = end.file]
        /\ values' = IF end.stored THEN values \cup {pods[u].attempt} ELSE values
    BY <2>3 DEF Leaves
  <2>7. /\ shard' \in [Attempt -> Seq(LineType)] /\ values \subseteq values' /\ values' \subseteq Attempt
        /\ \A a \in Attempt : shard'[a] = shard[a]
                              \/ (a = pods[u].attempt /\ shard'[a] = end.file /\ end.file # Missing)
    BY <1>0, <2>2, <2>4, <2>6
  <2>8. Files'
    BY <1>0, <2>4, <2>6, <2>7 DEF Files
  <2>9. QED
    BY <2>1, <2>5, <2>7, <2>8, OutsideKeeps
<1>4. QED
  BY <1>1, <1>2, <1>3

\* The observer's steps keep the invariant: each end told spends a pod.
LEMMA ObservingKeeps == RemoteInv /\ Observing => RemoteInv'
<1> SUFFICES ASSUME RemoteInv, Observing
             PROVE  RemoteInv'
  OBVIOUS
<1>0. /\ RemoteTypes /\ Cluster /\ FeedInv /\ FinalOnce /\ InLog /\ Heard /\ FeedHeard
      /\ SuccessIsBacked /\ Files /\ Hand /\ Respect /\ attempt \in Attempt
      /\ mode # "stopped" => Counts
  BY DEF RemoteInv, Heard, RemoteTypes
<1>1. /\ UNCHANGED <<pc, attempt, launch, claims, after, fatal, reference, buffer>>
      /\ UNCHANGED <<announced, shard, values, stream>> /\ ObserverNext
  BY DEF Observing, runner, durable
<1>2. UNCHANGED <<build, pods>> /\ mode \in {"list", "resume", "read"}
      /\ mode' \in {"list", "resume", "read", "failed"}
  BY DEF Observing, ObserverNext, List, ListFails, WatchOpens, WatchBreaks, Miss, Deliver, Bookmark,
         Silence, cluster
<1>3. /\ \A a \in Attempt : PodsOf(a)' = PodsOf(a) /\ (Backed(a)' <=> Backed(a)) /\ (Mine(a)' <=> Mine(a))
      /\ Cluster'
  BY <1>0, <1>2 DEF PodsOf, Backed, Mine, Holder, Held, Cluster
<1>4. /\ feed' \in Seq(ChangeType) /\ seen' \subseteq Attempt
      /\ finished' \in [Attempt -> Uid \cup {None} \cup {PodName[a] : a \in Attempt}]
      /\ live' \subseteq Attempt /\ pending' \in [Attempt -> Seq(MessageType)]
      /\ mail' \in Seq(MessageType) /\ finals' \in [Attempt -> Nat] /\ ear' = ear
      /\ FeedInv' /\ Counts' /\ Heard' /\ FinalOnce'
  <2>1. CASE List
    <3>1. feed' = <<>> /\ Tells(Reconcile) /\ UNCHANGED <<build, pods>>
      BY <2>1 DEF List
    <3>2. Truthful(Reconcile) /\ Onward(Reconcile)
      BY <1>0, <3>1, ListTells
    <3>3. QED
      BY <1>0, <1>1, <1>2, <3>1, <3>2, TellsKeeps
  <2>2. CASE Deliver
    <3> DEFINE r == Reading(Head(feed).uid, Head(feed).attempt, Head(feed).phase, Head(feed).kind = "Deleted")
    <3>1. feed # <<>> /\ feed' = Tail(feed) /\ Tells({r}) /\ UNCHANGED <<build, pods>>
      BY <2>2 DEF Deliver
    <3>2. (Head(feed).kind = "Deleted") \in BOOLEAN
      OBVIOUS
    <3>3. Truthful({r}) /\ Onward({r})
      BY <1>0, <3>1, <3>2, DeliverTells
    <3> HIDE DEF r
    <3>4. QED
      BY <1>0, <1>1, <1>2, <3>1, <3>3, TellsKeeps
  <2>3. CASE ListFails \/ WatchOpens \/ WatchBreaks \/ Bookmark \/ Silence
    <3>1. UNCHANGED <<feed, seen, finished, pending, ear, mail, finals>> /\ live' \subseteq live
      BY <2>3 DEF ListFails, WatchOpens, WatchBreaks, Miss, Bookmark, Silence, cluster, routes
    <3>2. FeedInv' /\ FinalOnce' /\ Counts'
      BY <1>0, <1>2, <3>1 DEF FeedInv, FinalOnce, Counts, Spent, Quiet, InFeed, PodsOf
    <3>3. Heard'
      BY <1>0, <1>1, <1>2, <3>1 DEF Heard, FeedHeard, Buffered, InMail, Backed, PodsOf
    <3>4. QED
      BY <1>0, <3>1, <3>2, <3>3 DEF RemoteTypes
  <2>4. QED
    BY <1>1, <2>1, <2>2, <2>3 DEF ObserverNext
<1>5. RemoteTypes'
  BY <1>0, <1>1, <1>2, <1>4 DEF RemoteTypes
<1>6. Announced' /\ Files' /\ SuccessIsBacked'
  BY <1>0, <1>1, <1>2, <1>3 DEF InLog, Announced, Files, SuccessIsBacked, PodsOf
<1>7. Kept
  BY <1>3, <1>4, <1>5, <1>6 DEF Kept
<1>8. Hand' /\ Respect'
  BY <1>0, <1>1, <1>2, <1>3, <1>4 DEF Hand, Respect
<1>9. pc' = "create" => Cardinality(PodsOf(attempt)') < announced'[attempt']
  BY <1>0, <1>1, <1>3 DEF InLog
<1>10. QED
  BY <1>7, <1>8, <1>9, KeptAndHand

\* What a shut-down or dead orchestrator leaves of the observer's books.
LEMMA ForgetsKeeps ==
    ASSUME RemoteTypes, NEW m \in {"stopped", "list"}, Forgets(m)
    PROVE  /\ feed' \in Seq(ChangeType) /\ seen' \subseteq Attempt /\ mode' = m
           /\ finished' \in [Attempt -> Uid \cup {None} \cup {PodName[a] : a \in Attempt}]
           /\ live' \subseteq Attempt /\ pending' \in [Attempt -> Seq(MessageType)]
           /\ mail' \in Seq(MessageType) /\ ear' = None
           /\ FeedInv' /\ Heard' /\ seen' = {}
<1>1. /\ feed' = <<>> /\ seen' = {} /\ finished' = [a \in Attempt |-> None] /\ live' = {} /\ mode' = m
      /\ pending' = [a \in Attempt |-> <<>>] /\ ear' = None /\ mail' = <<>>
  BY DEF Forgets
<1>2. <<>> \in Seq(ChangeType) /\ <<>> \in Seq(MessageType) /\ DOMAIN <<>> = {}
  OBVIOUS
<1>3. FeedInv'
  BY <1>1, <1>2, WatchAssumption DEF FeedInv
<1>4. FeedHeard' /\ Buffered' /\ InMail'
  BY <1>1, <1>2 DEF FeedHeard, Buffered, InMail
<1>5. QED
  BY <1>1, <1>2, <1>3, <1>4 DEF Heard

\* The stream is given only what the container and the cluster bear out.
LEMMA FlushKeeps == RemoteInv /\ Flush => RemoteInv'
<1> SUFFICES ASSUME RemoteInv, Flush
             PROVE  RemoteInv'
  OBVIOUS
<1> DEFINE Entry == (Attempt \cup {None}) \X Intent
           end == <<None, after>>
<1>0. /\ RemoteTypes /\ Cluster /\ FinalOnce /\ Announced /\ Hand /\ Files /\ SuccessIsBacked
      /\ attempt \in Attempt /\ after \in Intent
      /\ buffer \in Seq(Attempt \X Intent) /\ stream \in Seq(Entry)
  BY DEF RemoteInv, RemoteTypes, InLog
<1>1. /\ pc = "flush" /\ pc' = "done" /\ Fresh /\ Forgets("stopped")
      /\ stream' = stream \o Append(buffer, end)
      /\ UNCHANGED <<announced, shard, values, build, pods, finals>>
  BY DEF Flush
<1>2. /\ attempt' = 1 /\ after' = "none" /\ buffer' = <<>> /\ reference' = FALSE
      /\ claims' = [a \in Attempt |-> "none"]
  BY <1>1 DEF Fresh
<1>3. 1 \in Attempt
  BY RemoteAssumption, FS_EmptySet, FS_CardinalityType
<1>4. /\ feed' \in Seq(ChangeType) /\ seen' \subseteq Attempt /\ mode' = "stopped"
      /\ finished' \in [Attempt -> Uid \cup {None} \cup {PodName[a] : a \in Attempt}]
      /\ live' \subseteq Attempt /\ pending' \in [Attempt -> Seq(MessageType)]
      /\ mail' \in Seq(MessageType) /\ ear' = None
      /\ FeedInv' /\ Heard'
  BY <1>0, <1>1, ForgetsKeeps
<1>5. /\ Append(buffer, end) \in Seq(Entry) /\ Len(Append(buffer, end)) = Len(buffer) + 1
      /\ Len(buffer) \in Nat /\ Len(stream) \in Nat
      /\ \A i \in 1..Len(buffer) : Append(buffer, end)[i] = buffer[i] /\ buffer[i][1] \in Attempt
      /\ Append(buffer, end)[Len(buffer) + 1] = end
  <2>1. Len(buffer) \in Nat /\ \A i \in 1..Len(buffer) : buffer[i] \in Attempt \X Intent
    BY <1>0, LenProperties
  <2>2. buffer \in Seq(Entry) /\ end \in Entry
    BY <1>0
  <2> HIDE DEF Entry, end
  <2>3. /\ Append(buffer, end) \in Seq(Entry) /\ Len(Append(buffer, end)) = Len(buffer) + 1
        /\ \A i \in 1..Len(buffer) : Append(buffer, end)[i] = buffer[i]
        /\ Append(buffer, end)[Len(buffer) + 1] = end
    BY <2>2, AppendProperties
  <2>4. Len(stream) \in Nat
    BY <1>0, LenProperties
  <2>5. QED
    BY <2>1, <2>3, <2>4
<1> DEFINE more == Append(buffer, end)
<1> HIDE DEF more
<1>6. /\ stream' \in Seq(Entry) /\ Len(stream') = Len(stream) + Len(more)
      /\ \A i \in 1..(Len(stream) + Len(more)) :
           stream'[i] = IF i <= Len(stream) THEN stream[i] ELSE more[i - Len(stream)]
  <2>1. more \in Seq(Entry) /\ stream \in Seq(Entry) /\ stream' = stream \o more
    BY <1>0, <1>1, <1>5 DEF more
  <2> HIDE DEF Entry
  <2>2. QED
    BY <2>1, ConcatProperties
<1>7. \A a \in Attempt : PodsOf(a)' = PodsOf(a) /\ (Backed(a)' <=> Backed(a))
  BY <1>1 DEF PodsOf, Backed
<1>8. SuccessIsBacked'
  <2>1. ASSUME NEW i \in DOMAIN stream', stream'[i] = <<None, "succeeded">>
        PROVE  \E a \in values' : Backed(a)'
    <3>1. i \in 1..(Len(stream) + Len(more)) /\ i \in Int
      BY <1>6, LenProperties
    <3>2. CASE i <= Len(stream)
      <4>1. i \in DOMAIN stream /\ stream[i] = <<None, "succeeded">>
        BY <1>0, <1>5, <1>6, <2>1, <3>1, <3>2
      <4>2. \E a \in values : Backed(a)
        BY <1>0, <4>1 DEF SuccessIsBacked, Backed
      <4>3. values \subseteq Attempt
        BY <1>0 DEF RemoteTypes
      <4>4. QED
        BY <1>1, <1>7, <4>2, <4>3
    <3>3. CASE i > Len(stream)
      <4> DEFINE j == i - Len(stream)
      <4>1. j \in 1..(Len(buffer) + 1) /\ more[j] = <<None, "succeeded">>
        <5>1. Len(more) = Len(buffer) + 1
          BY <1>5 DEF more
        <5>2. i \in Int /\ i > Len(stream) /\ i <= Len(stream) + (Len(buffer) + 1)
              /\ Len(stream) \in Nat /\ Len(buffer) \in Nat
          BY <1>5, <3>1, <3>3, <5>1
        <5>3. stream'[i] = more[j]
          BY <1>6, <3>1, <5>2
        <5>4. QED
          BY <2>1, <5>2, <5>3
      <4> HIDE DEF j
      <4>2. CASE j \in 1..Len(buffer)
        BY <1>5, <4>1, <4>2, WatchAssumption DEF more
      <4>3. CASE j = Len(buffer) + 1
        <5>1. after = "succeeded"
          BY <1>5, <4>1, <4>3 DEF more
        <5>2. attempt \in values /\ Backed(attempt)
          BY <1>0, <1>1, <5>1 DEF Hand, Closing
        <5>3. QED
          BY <1>0, <1>1, <1>7, <5>2
      <4>4. QED
        BY <1>5, <4>1, <4>2, <4>3
    <3>4. QED
      BY <1>5, <3>1, <3>2, <3>3
  <2>2. QED
    BY <2>1 DEF SuccessIsBacked, Backed
<1>9. RemoteTypes'
  <2>1. after' \in Intent /\ buffer' \in Seq(Attempt \X Intent)
        /\ claims' \in [Attempt -> {"none", "adopted", "refused"}]
    BY <1>2 DEF Intent, State
  <2>2. /\ build' \in Build
        /\ pods' \in [Uid -> PodType] /\ finals' \in [Attempt -> Nat] /\ announced' \in [Attempt -> Nat]
        /\ shard' \in [Attempt -> Seq(LineType)] /\ values' \subseteq Attempt
    BY <1>0, <1>1 DEF RemoteTypes
  <2>3. QED
    BY <1>2, <1>3, <1>4, <1>6, <2>1, <2>2 DEF RemoteTypes
<1>10. Cluster' /\ Announced' /\ FinalOnce' /\ Files'
  BY <1>0, <1>1 DEF Cluster, Announced, FinalOnce, Files, PodsOf, Held
<1>11. Kept
  BY <1>4, <1>8, <1>9, <1>10 DEF Kept
<1>12. Hand' /\ Respect'
  BY <1>1, <1>2, <1>4 DEF Hand, Respect, Waiting, Closing
<1>13. QED
  BY <1>1, <1>11, <1>12, KeptAndHand

\* A new orchestrator knows nothing, and finds log, cluster, files and values as they were.
LEMMA RestartKeeps == RemoteInv /\ Restart => RemoteInv'
<1> SUFFICES ASSUME RemoteInv, Restart
             PROVE  RemoteInv'
  OBVIOUS
<1>0. /\ RemoteTypes /\ Cluster /\ FinalOnce /\ Announced /\ Hand /\ Files /\ SuccessIsBacked
      /\ shard \in [Attempt -> Seq(LineType)] /\ pods \in [Uid -> PodType]
  BY DEF RemoteInv, RemoteTypes, InLog
<1>1. UNCHANGED <<pods, durable>> /\ build' \in Build
  BY DEF Restart
<1>2. /\ pc' = "discover" /\ Fresh /\ Forgets("list") /\ finals' = [a \in Attempt |-> 0]
      /\ UNCHANGED <<announced, shard, values, stream>>
  BY <1>1 DEF Restart, durable
<1>3. /\ attempt' = 1 /\ after' = "none" /\ buffer' = <<>> /\ reference' = FALSE
      /\ claims' = [a \in Attempt |-> "none"]
  BY <1>2 DEF Fresh
<1>4. 1 \in Attempt
  BY RemoteAssumption, FS_EmptySet, FS_CardinalityType
<1>5. /\ feed' \in Seq(ChangeType) /\ seen' \subseteq Attempt /\ mode' = "list"
      /\ finished' \in [Attempt -> Uid \cup {None} \cup {PodName[a] : a \in Attempt}]
      /\ live' \subseteq Attempt /\ pending' \in [Attempt -> Seq(MessageType)]
      /\ mail' \in Seq(MessageType) /\ ear' = None
      /\ FeedInv' /\ Heard' /\ seen' = {}
  BY <1>0, <1>2, ForgetsKeeps
<1>8. \A a \in Attempt : PodsOf(a)' = PodsOf(a) /\ (Backed(a)' <=> Backed(a))
  BY <1>1 DEF PodsOf, Backed
<1>9. Held' = Held
  BY <1>1 DEF Held
<1>10. Cluster'
  <2>1. /\ \A u \in Held' : pods'[u].attempt \in Attempt
        /\ \A u, v \in Uid : pods'[u].attempt # None /\ pods'[v].attempt = None => u < v
        /\ \A u \in Held', v \in Uid : pods'[v].attempt = pods'[u].attempt => v <= u
    BY <1>0, <1>1, <1>9 DEF Cluster
  <2>2. \A u \in Uid \ Held' : ~Ours(pods'[u])
    BY <1>0, <1>1, <1>9 DEF Cluster
  <2>3. \A a \in Attempt : IsFiniteSet(PodsOf(a)')
    BY <1>0, <1>8 DEF Cluster
  <2>4. QED
    BY <2>1, <2>2, <2>3 DEF Cluster
<1>12. Files'
  BY <1>0, <1>2 DEF Files
<1>13. Announced' /\ SuccessIsBacked'
  <2>1. Announced'
    BY <1>0, <1>2, <1>8 DEF Announced
  <2>2. values \subseteq Attempt
    BY <1>0 DEF RemoteTypes
  <2>3. SuccessIsBacked'
    BY <1>0, <1>2, <1>8, <2>2 DEF SuccessIsBacked, Backed
  <2>4. QED
    BY <2>1, <2>3
<1>14. FinalOnce' /\ Counts'
  <2>1. \A a \in Attempt : IsFiniteSet(PodsOf(a)') /\ Spent(a)' \subseteq PodsOf(a)'
    BY <1>10 DEF Cluster, Spent
  <2>2. \A a \in Attempt : Cardinality(PodsOf(a)') \in Nat /\ Cardinality(Spent(a)') \in Nat
    BY <2>1, FS_Subset, FS_CardinalityType
  <2>3. QED
    BY <1>2, <1>5, <2>2 DEF FinalOnce, Counts
<1>15. RemoteTypes'
  <2>1. after' \in Intent /\ buffer' \in Seq(Attempt \X Intent)
        /\ claims' \in [Attempt -> {"none", "adopted", "refused"}] /\ finals' \in [Attempt -> Nat]
    BY <1>2, <1>3 DEF Intent, State
  <2>2. /\ announced' \in [Attempt -> Nat] /\ values' \subseteq Attempt
        /\ stream' \in Seq((Attempt \cup {None}) \X Intent)
    BY <1>0, <1>2 DEF RemoteTypes
  <2>3. QED
      BY <1>0, <1>1, <1>2, <1>3, <1>4, <1>5, <2>1, <2>2 DEF RemoteTypes
<1>16. Kept
  BY <1>5, <1>10, <1>12, <1>13, <1>14, <1>15 DEF Kept
<1>17. Hand' /\ Respect'
  BY <1>2, <1>3, <1>5 DEF Hand, Respect, Waiting, Closing
<1>18. QED
  BY <1>2, <1>16, <1>17, KeptAndHand

-----------------------------------------------------------------------------
(* What is so of every behaviour *)

\* The invariant holds before the first step.
LEMMA RemoteInit == Init => RemoteInv
<1> SUFFICES ASSUME Init
             PROVE  RemoteInv
  OBVIOUS
<1>0. 1 \in Attempt /\ None \notin Attempt
  BY RemoteAssumption, WatchAssumption, FS_EmptySet, FS_CardinalityType
<1>1. /\ build = Original /\ pods = [u \in Uid |-> Unborn] /\ mode = "list" /\ feed = <<>> /\ seen = {} /\ live = {}
      /\ finished = [a \in Attempt |-> None] /\ pending = [a \in Attempt |-> <<>>]
      /\ ear = None /\ mail = <<>> /\ finals = [a \in Attempt |-> 0]
  BY DEF Init, ObserverInit
<1>2. /\ pc = "discover" /\ attempt = 1 /\ after = "none" /\ reference = FALSE
      /\ claims = [a \in Attempt |-> "none"] /\ announced = [a \in Attempt |-> 0]
      /\ shard = [a \in Attempt |-> Missing] /\ values = {} /\ buffer = <<>> /\ stream = <<>>
  BY DEF Init
<1>3. Unborn \in PodType /\ Unborn.attempt = None /\ ~Unborn.here /\ ~Ours(Unborn)
  BY WatchAssumption DEF Unborn, PodType, Phase, Ours
<1>4. \A u \in Uid : pods[u] = Unborn
  BY <1>1
<1>5. Held = {} /\ \A a \in Attempt : PodsOf(a) = {} /\ Spent(a) = {}
  BY <1>0, <1>3, <1>4 DEF Held, PodsOf, Spent
<1>6. IsFiniteSet({}) /\ Cardinality({}) = 0
  BY FS_EmptySet
<1>7. /\ DOMAIN <<>> = {} /\ <<>> \in Seq(ChangeType) /\ <<>> \in Seq(MessageType) /\ <<>> \in Seq(LineType)
      /\ <<>> \in Seq(Attempt \X Intent) /\ <<>> \in Seq((Attempt \cup {None}) \X Intent)
  OBVIOUS
<1>8. RemoteTypes
  <2>1. /\ build \in Build /\ pods \in [Uid -> PodType] /\ feed \in Seq(ChangeType)
        /\ mode \in {"list", "resume", "read", "failed", "stopped"}
        /\ seen \subseteq Attempt /\ live \subseteq Attempt /\ values \subseteq Attempt
    BY <1>1, <1>2, <1>3, <1>7, WatchAssumption
  <2>2. /\ finished \in [Attempt -> Uid \cup {None} \cup {PodName[a] : a \in Attempt}]
        /\ pending \in [Attempt -> Seq(MessageType)] /\ finals \in [Attempt -> Nat]
    BY <1>1, <1>7
  <2>3. ear \in {None, attempt} /\ mail \in Seq(MessageType) /\ attempt \in Attempt
    BY <1>0, <1>1, <1>2, <1>7
  <2>4. /\ claims \in [Attempt -> {"none", "adopted", "refused"}] /\ announced \in [Attempt -> Nat]
    BY <1>2
  <2>5. shard \in [Attempt -> Seq(LineType)]
    BY <1>2, <1>7 DEF Missing
  <2>6. after \in Intent /\ buffer \in Seq(Attempt \X Intent)
        /\ stream \in Seq((Attempt \cup {None}) \X Intent)
    BY <1>2, <1>7 DEF Intent, State
  <2>7. QED
    BY <2>1, <2>2, <2>3, <2>4, <2>5, <2>6 DEF RemoteTypes
<1>9. Cluster
  BY <1>3, <1>4, <1>5, <1>6 DEF Cluster
<1>10. FinalOnce /\ Announced /\ Counts
  <2>1. \A a \in Attempt : Cardinality(PodsOf(a)) = 0 /\ Cardinality(Spent(a)) = 0
    BY <1>5, <1>6
  <2>2. \A a \in Attempt : finals[a] = 0 /\ announced[a] = 0
    BY <1>1, <1>2
  <2>3. seen = {}
    BY <1>1
  <2>4. FinalOnce /\ Announced
    BY <2>1, <2>2 DEF FinalOnce, Announced
  <2>5. Counts
    BY <2>1, <2>2, <2>3 DEF Counts
  <2>6. QED
    BY <2>4, <2>5
<1>11. FeedInv /\ Heard
  BY <1>0, <1>1, <1>7, WatchAssumption DEF FeedInv, Heard, FeedHeard, Buffered, InMail
<1>12. Files /\ SuccessIsBacked
  BY <1>2, <1>7 DEF Files, SuccessIsBacked
<1>13. Hand /\ Respect /\ InLog
  BY <1>1, <1>2, <1>10 DEF Hand, Respect, InLog, Waiting, Closing
<1>14. QED
  BY <1>8, <1>9, <1>10, <1>11, <1>12, <1>13 DEF RemoteInv

\* Every step keeps the invariant.
LEMMA RemoteStep == RemoteInv /\ [Next]_vars => RemoteInv'
<1> SUFFICES ASSUME RemoteInv, [Next]_vars
             PROVE  RemoteInv'
  OBVIOUS
<1>1. CASE RunnerNext
  BY <1>1, DiscoverKeeps, TakeClaimKeeps, ProbeMoves, AnnounceKeeps, CreateKeeps, NoteMoves,
     HearsMoves, WaiterClosesMoves, PatchOwnerKeeps, DeleteKeeps, ConcludeKeeps, TombstoneKeeps,
     RetryKeeps, FlushKeeps DEF RunnerNext
<1>2. CASE GivesUp \/ Restart \/ Observing
  BY <1>2, GivesUpMoves, RestartKeeps, ObservingKeeps
<1>3. CASE PodNext
  BY <1>3, PodKeeps DEF PodNext
<1>4. CASE UNCHANGED vars
  <2>1. UNCHANGED <<build, pods, feed, mode, seen, finished, live, pending, ear, mail, finals, pc, attempt,
                    claims, after, reference, buffer, announced, shard, values, stream>>
    BY <1>4 DEF vars, cluster, core, routes, runner, durable
  <2>2. RemoteTypes'
    BY <2>1 DEF RemoteInv, RemoteTypes
  <2>3. Cluster' /\ InLog'
    BY <2>1 DEF RemoteInv, Cluster, InLog, Announced, PodsOf, Held
  <2>4. FeedInv'
    BY <2>1 DEF RemoteInv, FeedInv, PodsOf
  <2>5. FinalOnce'
    BY <2>1 DEF RemoteInv, FinalOnce, PodsOf
  <2>6. mode' # "stopped" => Counts'
    BY <2>1 DEF RemoteInv, Counts, Spent, Quiet, InFeed, PodsOf
  <2>7. Heard'
    BY <2>1 DEF RemoteInv, Heard, FeedHeard, Buffered, InMail, Backed, PodsOf
  <2>8. Files' /\ Hand'
    BY <2>1 DEF RemoteInv, Files, Hand, Backed, PodsOf
  <2>9. SuccessIsBacked'
    BY <2>1 DEF RemoteInv, SuccessIsBacked, PodsOf
  <2>10. Respect'
    BY <2>1 DEF RemoteInv, Respect, Mine, Holder, Held
  <2>11. QED
    BY <2>2, <2>3, <2>4, <2>5, <2>6, <2>7, <2>8, <2>9, <2>10 DEF RemoteInv
<1>5. QED
  BY <1>1, <1>2, <1>3, <1>4 DEF Next

\* The invariant of the remote attempts holds in every reachable state.
THEOREM RemoteInvariant == Spec => []RemoteInv
<1>1. Init => RemoteInv
  BY RemoteInit
<1>2. RemoteInv /\ [Next]_vars => RemoteInv'
  BY RemoteStep
<1>3. QED
  BY <1>1, <1>2, PTL DEF Spec

\* However calls fail and the orchestrator dies, no pod exists that the
\* submission log does not announce, and no pod's end is told twice (launch_once
\* of k8s_runner.rs, the retirement of observer.rs).
THEOREM BooksCountPods == Spec => []PodBooks
<1>1. RemoteInv => PodBooks
  BY DEF RemoteInv, InLog, PodBooks
<1>2. QED
  BY <1>1, RemoteInvariant, PTL

\* A node the stream calls succeeded has an attempt with a value whose pod ended
\* in success (conclude and land_output, k8s_runner.rs and remote.rs).
THEOREM StreamTellsTheTruth == Spec => []SuccessIsBacked
<1>1. RemoteInv => SuccessIsBacked
  BY DEF RemoteInv
<1>2. QED
  BY <1>1, RemoteInvariant, PTL

-----------------------------------------------------------------------------
(* The pods of other builds *)

Untouched ==
    \A u \in Held : Ours(pods[u]) /\ pods[u].build # build /\ pods'[u].here =>
        pods'[u].owned = pods[u].owned /\ pods'[u].dying = pods[u].dying

\* A change of a pod leaves the others alone, and of one that is ours all is ours.
LEMMA ChangeTouches ==
    ASSUME RemoteTypes, NEW u \in Uid, NEW p \in PodType, p.attempt \in Attempt,
           NEW kind \in {"Added", "Modified", "Deleted"}, Changes(u, p, kind),
           \/ u \notin Held
           \/ Ours(pods[u]) => pods[u].build = build
           \/ p.owned = pods[u].owned /\ p.dying = pods[u].dying
    PROVE  Untouched
<1>1. /\ \A v \in Uid \ {u} : pods'[v] = pods[v]
      /\ pods'[u].here => pods'[u] = p
  BY PodEdited
<1>2. QED
  BY <1>1 DEF Untouched, Held

\* A patch by the runner of an attempt that is its own touches no pod of another build.
LEMMA PatchTouches ==
    ASSUME RemoteInv, Mine(attempt),
           Patched("owned", FALSE) \/ Patched("dying", TRUE) \/ UNCHANGED cluster
    PROVE  Untouched
<1>1. CASE UNCHANGED cluster
  BY <1>1 DEF cluster, Untouched
<1>2. ASSUME NEW u \in Holder(attempt), NEW field \in {"owned", "dying"}, NEW value \in BOOLEAN,
             Changes(u, [pods[u] EXCEPT ![field] = value], "Modified")
      PROVE  Untouched
  <2>1. u \in Uid /\ pods[u].attempt \in Attempt /\ pods[u] \in PodType /\ (Ours(pods[u]) => pods[u].build = build)
    BY DEF RemoteInv, RemoteTypes, Cluster, Mine, Holder, Held
  <2>2. /\ [pods[u] EXCEPT ![field] = value] \in PodType
        /\ [pods[u] EXCEPT ![field] = value].attempt = pods[u].attempt
    <3>1. CASE field = "owned"
      BY <2>1, <3>1 DEF PodType
    <3>2. CASE field = "dying"
      BY <2>1, <3>2 DEF PodType
    <3>3. QED
      BY <3>1, <3>2
  <2>3. QED
    BY <1>2, <2>1, <2>2, ChangeTouches DEF RemoteInv
<1>3. CASE Holder(attempt) = {}
  BY <1>1, <1>3 DEF Patched
<1>4. CASE Patched("owned", FALSE) /\ Holder(attempt) # {}
  BY <1>2, <1>4 DEF Patched
<1>5. CASE Patched("dying", TRUE) /\ Holder(attempt) # {}
  BY <1>2, <1>5 DEF Patched
<1>6. QED
  BY <1>1, <1>3, <1>4, <1>5

\* No step disowns or deletes a live pod of another build.
LEMMA StepTouches == RemoteInv /\ [Next]_vars => Untouched
<1> SUFFICES ASSUME RemoteInv, [Next]_vars
             PROVE  Untouched
  OBVIOUS
<1>0. /\ RemoteTypes /\ Cluster /\ Respect /\ attempt \in Attempt /\ pods \in [Uid -> PodType]
  BY DEF RemoteInv, RemoteTypes
<1>1. ASSUME UNCHANGED pods
      PROVE  Untouched
  BY <1>1 DEF Untouched
<1>2. CASE UNCHANGED vars
  BY <1>1, <1>2 DEF vars, cluster
<1>3. CASE Discover \/ TakeClaim \/ Probe \/ Announce \/ Note \/ Hears \/ WaiterCloses \/ Conclude
           \/ Retry \/ Flush \/ GivesUp
  <2>1. UNCHANGED pods
    BY <1>3 DEF Discover, TakeClaim, Probe, Announce, Note, Hears, WaiterCloses, Conclude, Retry, Flush,
                GivesUp, cluster
  <2>2. QED
    BY <1>1, <2>1
<1>4. CASE Create
  <2>1. CASE UNCHANGED cluster
    BY <1>1, <2>1 DEF cluster
  <2>2. CASE Creates
    <3>1. PICK u \in Spare : Changes(u, NewPod, "Added")
      BY <2>2 DEF Creates
    <3>2. u \in Uid /\ u \notin Held /\ NewPod \in PodType /\ NewPod.attempt = attempt
      BY <1>0, <3>1, WatchAssumption DEF RemoteTypes, Spare, Cluster, NewPod, Unborn, PodType, Phase
    <3> HIDE DEF NewPod
    <3>3. QED
      BY <1>0, <3>1, <3>2, ChangeTouches
  <2>3. QED
    BY <1>4, <2>1, <2>2 DEF Create
<1>5. CASE PatchOwner \/ Delete
  <2>1. claims[attempt] = "none" /\ Mine(attempt)
    BY <1>0, <1>5 DEF PatchOwner, Delete, Respect
  <2>2. Patched("owned", FALSE) \/ Patched("dying", TRUE) \/ UNCHANGED cluster
    BY <1>5 DEF PatchOwner, Delete
  <2>3. QED
    BY <2>1, <2>2, PatchTouches
<1>6. CASE Tombstone
  <2>1. CASE UNCHANGED cluster
    BY <1>1, <2>1 DEF cluster
  <2>2. ASSUME NEW u \in Holder(attempt), Changes(u, [pods[u] EXCEPT !["complete"] = TRUE], "Modified")
        PROVE  Untouched
    <3>1. u \in Uid /\ pods[u].attempt \in Attempt /\ pods[u] \in PodType
      BY <1>0 DEF Cluster, Holder, Held
    <3>2. /\ [pods[u] EXCEPT !["complete"] = TRUE] \in PodType
          /\ [pods[u] EXCEPT !["complete"] = TRUE].attempt = pods[u].attempt
          /\ [pods[u] EXCEPT !["complete"] = TRUE].owned = pods[u].owned
          /\ [pods[u] EXCEPT !["complete"] = TRUE].dying = pods[u].dying
      BY <3>1 DEF PodType
    <3>3. QED
      BY <1>0, <2>2, <3>1, <3>2, ChangeTouches
  <2>3. QED
    BY <1>6, <2>1, <2>2 DEF Tombstone, Patched
<1>7. CASE Restart
  BY <1>1, <1>7 DEF Restart
<1>8. CASE Observing
  <2>1. UNCHANGED pods
    BY <1>8 DEF Observing, ObserverNext, List, ListFails, WatchOpens, WatchBreaks, Miss, Deliver,
                Bookmark, Silence, cluster
  <2>2. QED
    BY <1>1, <2>1
<1>9. ASSUME NEW u \in Uid, Schedule(u) \/ Leave(u) \/ Go(u)
      PROVE  Untouched
  <2>1. u \in Held /\ pods[u] \in PodType /\ pods[u].attempt \in Attempt
    BY <1>0, <1>9 DEF Schedule, Leave, Go, Cluster
  <2>2. CASE Go(u)
    <3>1. Changes(u, [pods[u] EXCEPT !.here = FALSE], "Deleted")
      BY <2>2 DEF Go
    <3>2. /\ [pods[u] EXCEPT !.here = FALSE] \in PodType
          /\ [pods[u] EXCEPT !.here = FALSE].attempt = pods[u].attempt
          /\ [pods[u] EXCEPT !.here = FALSE].owned = pods[u].owned
          /\ [pods[u] EXCEPT !.here = FALSE].dying = pods[u].dying
      BY <2>1 DEF PodType
    <3>3. QED
      BY <1>0, <2>1, <3>1, <3>2, ChangeTouches
  <2>3. ASSUME NEW phase \in Phase, Changes(u, [pods[u] EXCEPT !.phase = phase], "Modified")
        PROVE  Untouched
    <3>1. /\ [pods[u] EXCEPT !.phase = phase] \in PodType
          /\ [pods[u] EXCEPT !.phase = phase].attempt = pods[u].attempt
          /\ [pods[u] EXCEPT !.phase = phase].owned = pods[u].owned
          /\ [pods[u] EXCEPT !.phase = phase].dying = pods[u].dying
      BY <2>1 DEF PodType
    <3>2. QED
      BY <1>0, <2>1, <2>3, <3>1, ChangeTouches
  <2>4. CASE Schedule(u)
    <3>1. PICK phase \in {"Stuck", "Running"} : Changes(u, [pods[u] EXCEPT !.phase = phase], "Modified")
      BY <2>4 DEF Schedule
    <3>2. phase \in Phase
      BY DEF Phase
    <3>3. QED
      BY <2>3, <3>1, <3>2
  <2>5. CASE Leave(u)
    <3>1. PICK end : Changes(u, [pods[u] EXCEPT !.phase = PhaseOf(end.exit)], "Modified")
      BY <2>5 DEF Leave, Leaves
    <3>2. PhaseOf(end.exit) \in Phase
      BY DEF PhaseOf, Phase, Ended
    <3>3. QED
      BY <2>3, <3>1, <3>2
  <2>6. QED
    BY <1>9, <2>2, <2>4, <2>5
<1>10. QED
  BY <1>2, <1>3, <1>4, <1>5, <1>6, <1>7, <1>8, <1>9 DEF Next, RunnerNext, PodNext

\* No orchestrator disowns or deletes a live pod that another build launched,
\* through any restart, adoption, revocation or lost answer (the refusal of
\* adoption, k8s/adoption.rs).
THEOREM OthersAreLeftAlone == Spec => OtherBuildsUntouched
<1>1. RemoteInv /\ [Next]_vars => [Untouched]_vars
  BY StepTouches
<1>2. QED
  BY <1>1, RemoteInvariant, PTL DEF Spec, OtherBuildsUntouched, Untouched

=============================================================================
