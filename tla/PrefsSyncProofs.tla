-------------------------- MODULE PrefsSyncProofs --------------------------
(***************************************************************************)
(* Proofs about the preference sync, for any machines, contexts and keys.  *)
(*                                                                         *)
(* The invariant has two halves that share nothing.  Owed: a context that  *)
(* was asked for a push and has not read since has a timer, is about to    *)
(* read, or has left a mark that restarts the push.  InOrder: the write    *)
(* chain and the pending document hold the accepted documents in their     *)
(* order, all newer than the file, the last one at the end.                *)
(***************************************************************************)
EXTENDS PrefsSyncProperties, SequenceTheorems, TLAPS

Owed(s) ==
    s.asked => \/ s.timer
               \/ s.at = "reading"
               \/ s.at # "idle" /\ (s.pending \/ s.queued)

AllOwed == \A c \in Contexts : Owed(sync[c])

Ascending(chain) ==
    \A i, j \in 1..Len(chain) : i < j => chain[i].n < chain[j].n

Above(chain, n) == \A i \in 1..Len(chain) : n < chain[i].n
AtMost(chain, n) == \A i \in 1..Len(chain) : chain[i].n <= n

InOrder ==
    /\ Ascending(host.chain)
    /\ Above(host.chain, disk.n)
    /\ AtMost(host.chain, host.accepted)
    /\ disk.n <= host.accepted
    /\ host.held # <<>> => /\ host.held[1].n = host.accepted
                           /\ disk.n < host.accepted
                           /\ AtMost(host.chain, host.accepted - 1)
    /\ host.held = <<>> /\ host.chain # <<>>
         => host.chain[Len(host.chain)].n = host.accepted
    /\ host.held = <<>> /\ host.chain = <<>>
         => (disk.n = host.accepted /\ ~disk.torn) \/ host.lost = host.accepted

SyncInv == TypeOK /\ AllOwed /\ InOrder
-----------------------------------------------------------------------------
\* The push side of a context stays a push side.
LEMMA SyncKept ==
    ASSUME NEW s \in SyncState
    PROVE  /\ Scheduled(s) \in SyncState
           /\ Flushed(s) \in SyncState
           /\ Ended(s) \in SyncState
           /\ Asked(s) \in SyncState
BY DEF Scheduled, Flushed, Ended, Asked, SyncState

\* The empty document is a document. 
LEMMA EmptyDocument == Empty \in Document
BY BoundsAreNaturals DEF Empty, Document

\* Contexts have machines, machines have documents.
LEMMA HereDocument ==
    ASSUME TypeOK, NEW c \in Contexts
    PROVE  MachineOf[c] \in Machines /\ local[MachineOf[c]] \in Document
BY ContextsHaveMachines DEF TypeOK

\* Edits keep the machines' documents.
LEMMA EditedDocument ==
    ASSUME NEW doc \in Document, NEW k \in Keys, NEW n \in 0..MaxInputs
    PROVE  [doc EXCEPT ![k] = n] \in Document
BY DEF Document

\* The inputs are counted up to their bound.
LEMMA InputCounts ==
    ASSUME inputs \in 0..MaxInputs, Input
    PROVE  inputs' \in 0..MaxInputs /\ inputs + 1 \in 0..MaxInputs
BY BoundsAreNaturals DEF Input

\* The faults are counted up to their bound.
LEMMA FaultCounts ==
    ASSUME faults \in 0..MaxFaults, Fail
    PROVE  faults' \in 0..MaxFaults
BY BoundsAreNaturals DEF Fail

\* A read of the storage gives a document, and counts its failure.
LEMMA ReadDocument ==
    ASSUME TypeOK, NEW m \in Machines, NEW failed \in BOOLEAN, MayFail(failed)
    PROVE  Read(m, failed) \in Document /\ faults' \in 0..MaxFaults
BY EmptyDocument, FaultCounts DEF TypeOK, Read, MayFail

-----------------------------------------------------------------------------
\* The initial state has the types.
LEMMA InitType == Init => TypeOK
<1> SUFFICES ASSUME Init PROVE TypeOK
  OBVIOUS
<1>1. Empty \in Document /\ 0 \in 0..MaxInputs /\ 0 \in 0..MaxFaults
  BY EmptyDocument, BoundsAreNaturals
<1>2. Closed(Empty) \in SyncState /\ NoPull \in PullState
  BY <1>1 DEF Closed, NoPull, SyncState, PullState
<1>3. QED
  BY <1>1, <1>2 DEF Init, TypeOK, HostState

\* An edit keeps the types.
LEMMA EditType ==
    ASSUME TypeOK, NEW m \in Machines, NEW k \in Keys, Edit(m, k)  PROVE TypeOK'
<1>1. inputs' \in 0..MaxInputs /\ inputs + 1 \in 0..MaxInputs
  BY InputCounts DEF TypeOK, Edit
<1>2. local' \in [Machines -> Document]
  BY <1>1, EditedDocument DEF TypeOK, Edit
<1>3. QED
  BY <1>1, <1>2 DEF TypeOK, Edit

\* The two buttons keep the types.
LEMMA ButtonType ==
    ASSUME TypeOK, NEW c \in Contexts, PushNow(c) \/ PullNow(c)  PROVE TypeOK'
<1>1. inputs' \in 0..MaxInputs
  BY InputCounts DEF TypeOK, PushNow, PullNow
<1>2. CASE PushNow(c)
  BY <1>1, <1>2, SyncKept DEF TypeOK, PushNow
<1>3. CASE PullNow(c)
  <2>1. pull' \in [Contexts -> PullState]
    BY <1>3 DEF TypeOK, PullNow, PullState
  <2>2. QED
    BY <1>1, <1>3, <2>1 DEF TypeOK, PullNow
<1>4. QED
  BY <1>2, <1>3

\* Opening and closing contexts keeps the types.
LEMMA LifeType ==
    ASSUME TypeOK, NEW c \in Contexts, Open(c) \/ Close(c)  PROVE TypeOK'
<1>1. NoPull \in PullState /\ [NoPull EXCEPT !.at = "getting"] \in PullState
  BY EmptyDocument DEF NoPull, PullState
<1>2. ASSUME NEW doc \in Document
      PROVE  /\ Closed(doc) \in SyncState
             /\ [Closed(doc) EXCEPT !.open = TRUE] \in SyncState
  BY <1>2 DEF Closed, SyncState
<1>3. CASE Open(c)
  BY <1>1, <1>2, <1>3, HereDocument DEF TypeOK, Open
<1>4. CASE Close(c)
  <2>1. faults' \in 0..MaxFaults
    BY <1>4, FaultCounts DEF TypeOK, Close
  <2>2. QED
    BY <1>1, <1>2, <1>4, <2>1, EmptyDocument DEF TypeOK, Close
<1>5. QED
  BY <1>3, <1>4

\* The steps of a push keep the types.
LEMMA PushType ==
    ASSUME TypeOK, NEW c \in Contexts,
           TimerFires(c) \/ ReadForPush(c) \/ Accept(c) \/ PushEnds(c)
    PROVE  TypeOK'
<1>0. sync[c] \in SyncState
  BY DEF TypeOK
<1>1. CASE TimerFires(c)
  <2>1. [sync[c] EXCEPT !.timer = FALSE] \in SyncState
    BY <1>0 DEF SyncState
  <2>2. QED
    BY <1>1, <2>1, SyncKept DEF TypeOK, TimerFires
<1>2. CASE ReadForPush(c)
  <2>1. PICK failed \in BOOLEAN :
          /\ MayFail(failed)
          /\ sync' = [sync EXCEPT ![c] = [@ EXCEPT !.at = "posting", !.asked = FALSE,
                                                   !.doc = Read(MachineOf[c], failed)]]
    BY <1>2 DEF ReadForPush
  <2> DEFINE doc == Read(MachineOf[c], failed)
  <2>2. doc \in Document /\ faults' \in 0..MaxFaults
    BY <2>1, ReadDocument, HereDocument
  <2> HIDE DEF doc
  <2>3. [sync[c] EXCEPT !.at = "posting", !.asked = FALSE, !.doc = doc] \in SyncState
    BY <1>0, <2>2 DEF SyncState
  <2>4. QED
    BY <1>2, <2>1, <2>2, <2>3 DEF TypeOK, ReadForPush, doc
<1>3. CASE Accept(c)
  <2>1. sync' \in [Contexts -> SyncState]
    BY <1>0, <1>3 DEF TypeOK, Accept, SyncState
  <2>2. [n |-> host.accepted + 1, prefs |-> sync[c].doc] \in Numbered
    BY <1>0 DEF TypeOK, HostState, SyncState, Numbered
  <2>3. host' \in HostState /\ host'.timer /\ host'.held # <<>>
        /\ host'.writing = host.writing /\ host'.chain = host.chain
    <3> DEFINE d == [n |-> host.accepted + 1, prefs |-> sync[c].doc]
    <3>1. d \in Numbered /\ host' = [host EXCEPT !.accepted = @ + 1, !.timer = TRUE, !.held = <<d>>]
      BY <1>3, <2>2 DEF Accept
    <3> HIDE DEF d
    <3>2. <<d>> \in Seq(Numbered) /\ <<d>> # <<>>
      BY <3>1
    <3>3. host \in HostState /\ host.accepted + 1 \in Nat
      BY DEF TypeOK, HostState
    <3>4. host' \in HostState
      <4>1. host' = [host EXCEPT !.accepted = host.accepted + 1, !.timer = TRUE, !.held = <<d>>]
        BY <3>1
      <4>2. QED
        BY <4>1, <3>2, <3>3 DEF HostState
    <3>5. host'.timer
      BY <3>1, <3>2, <3>3 DEF HostState
    <3>6. host'.held # <<>>
      BY <3>1, <3>2, <3>3 DEF HostState
    <3>7. host'.writing = host.writing /\ host'.chain = host.chain
      BY <3>1, <3>2, <3>3 DEF HostState
    <3>8. QED
      BY <3>4, <3>5, <3>6, <3>7
  <2>4. QED
    BY <1>3, <2>1, <2>3 DEF TypeOK, Accept
<1>4. CASE PushEnds(c)
  <2>1. faults' \in 0..MaxFaults
    BY <1>4, FaultCounts DEF TypeOK, PushEnds
  <2>2. QED
    BY <1>0, <1>4, <2>1, SyncKept DEF TypeOK, PushEnds
<1>5. QED
  BY <1>1, <1>2, <1>3, <1>4

\* The steps of a hydrate keep the types.
LEMMA PullType ==
    ASSUME TypeOK, NEW c \in Contexts,
           Get(c) \/ ReadForPull(c) \/ PullEnds(c) \/ \E k \in Keys : TakeRemote(c, k)
    PROVE  TypeOK'
<1>0. pull[c] \in PullState /\ sync[c] \in SyncState /\ NoPull \in PullState
  BY EmptyDocument DEF TypeOK, NoPull, PullState
<1>1. CASE Get(c)
  <2>1. ReadDisk \in Document
    BY EmptyDocument DEF TypeOK, ReadDisk
  <2>2. pull' \in [Contexts -> PullState]
    BY <1>0, <1>1, <2>1 DEF TypeOK, Get, PullState
  <2>3. faults' \in 0..MaxFaults
    BY <1>1, FaultCounts DEF TypeOK, Get
  <2>4. QED
    BY <1>1, <2>2, <2>3 DEF TypeOK, Get
<1>2. CASE ReadForPull(c)
  <2>1. PICK failed \in BOOLEAN :
          LET here == Read(MachineOf[c], failed)
          IN  /\ MayFail(failed)
              /\ pull' = [pull EXCEPT ![c].at = "writing", ![c].wrote = failed,
                             ![c].todo = {k \in Keys : ShouldTakeRemote(pull[c].remote[k], here[k])}]
    BY <1>2 DEF ReadForPull
  <2>2. faults' \in 0..MaxFaults
    BY <2>1, ReadDocument, HereDocument
  <2>3. pull' \in [Contexts -> PullState]
    BY <1>0, <2>1 DEF TypeOK, PullState
  <2>4. QED
    BY <1>2, <2>2, <2>3 DEF TypeOK, ReadForPull
<1>3. CASE PullEnds(c)
  BY <1>0, <1>3, SyncKept DEF TypeOK, PullEnds
<1>4. ASSUME NEW k \in Keys, TakeRemote(c, k) PROVE TypeOK'
  <2>1. pull' \in [Contexts -> PullState]
    BY <1>0, <1>4 DEF TypeOK, TakeRemote, PullState
  <2>2. pull[c].remote[k] \in 0..MaxInputs
    BY <1>0 DEF PullState, Document
  <2>3. local' \in [Machines -> Document]
    <3> DEFINE doc == [local[MachineOf[c]] EXCEPT ![k] = pull[c].remote[k]]
    <3>1. doc \in Document
      BY <2>2, EditedDocument, HereDocument
    <3>2. local' = local \/ local' = [local EXCEPT ![MachineOf[c]] = doc]
      BY <1>4 DEF TakeRemote
    <3> HIDE DEF doc
    <3>3. QED
      BY <3>1, <3>2 DEF TypeOK
  <2>4. faults' \in 0..MaxFaults
    BY <1>4, FaultCounts DEF TypeOK, TakeRemote
  <2>5. QED
    BY <1>4, <2>1, <2>3, <2>4 DEF TypeOK, TakeRemote
<1>5. QED
  BY <1>1, <1>2, <1>3, <1>4

\* The steps of the prefs service keep the types.
LEMMA HostType ==
    ASSUME TypeOK, HostStep \/ WriteFails \/ HostStops  PROVE TypeOK'
<1>1. CASE HostTimer
  <2>1. host.held[1] \in Numbered
    BY <1>1 DEF TypeOK, HostTimer, HostState
  <2>2. host' \in HostState /\ ~host'.timer /\ host'.held = <<>>
        /\ host'.writing = host.writing /\ host'.chain # <<>>
    <3> DEFINE chain == Append(host.chain, host.held[1])
    <3>1. chain \in Seq(Numbered) /\ chain # <<>>
      BY <2>1, AppendProperties DEF TypeOK, HostState
    <3>2. host' = [host EXCEPT !.timer = FALSE, !.held = <<>>, !.chain = chain]
      BY <1>1 DEF HostTimer
    <3> HIDE DEF chain
    <3>3. host \in HostState /\ <<>> \in Seq(Numbered)
      BY DEF TypeOK
    <3>4. host' \in HostState
      BY <3>1, <3>2, <3>3 DEF HostState
    <3>5. ~host'.timer /\ host'.held = <<>>
      BY <3>1, <3>2, <3>3 DEF HostState
    <3>6. host'.writing = host.writing
      BY <3>1, <3>2, <3>3 DEF HostState
    <3>7. host'.chain # <<>>
      BY <3>1, <3>2, <3>3 DEF HostState
    <3>8. QED
      BY <3>4, <3>5, <3>6, <3>7
  <2>3. QED
    BY <1>1, <2>2 DEF TypeOK, HostTimer
<1>2. CASE BeginWrite
  BY <1>2 DEF TypeOK, BeginWrite, HostState
<1>3. ASSUME host.writing PROVE Head(host.chain) \in Numbered /\ Tail(host.chain) \in Seq(Numbered)
  BY <1>3, HeadTailProperties DEF TypeOK, HostState
<1>4. CASE EndWrite
  <2>1. host' \in HostState /\ host'.timer = host.timer /\ host'.held = host.held
        /\ ~host'.writing
    BY <1>3, <1>4 DEF TypeOK, EndWrite, HostState
  <2>2. QED
    BY <1>3, <1>4, <2>1 DEF TypeOK, EndWrite, Numbered
<1>5. CASE WriteFails
  <2>1. host' \in HostState /\ host'.timer = host.timer /\ host'.held = host.held
        /\ ~host'.writing
    BY <1>3, <1>5 DEF TypeOK, WriteFails, HostState, Numbered
  <2>2. faults' \in 0..MaxFaults
    BY <1>5, FaultCounts DEF TypeOK, WriteFails
  <2>3. QED
    BY <1>5, <2>1, <2>2 DEF TypeOK, WriteFails
<1>6. CASE HostStops
  <2>1. faults' \in 0..MaxFaults
    BY <1>6, FaultCounts DEF TypeOK, HostStops
  <2>2. host' \in HostState /\ ~host'.timer /\ host'.held = <<>> /\ ~host'.writing
    <3>1. <<>> \in Seq(Numbered)
      OBVIOUS
    <3>2. QED
      BY <1>6, <3>1 DEF TypeOK, HostStops, HostState
  <2>3. QED
    BY <1>6, <2>1, <2>2 DEF TypeOK, HostStops
<1>7. QED
  BY <1>1, <1>2, <1>4, <1>5, <1>6 DEF HostStep

\* Every step keeps the types.
LEMMA TypeStep == TypeOK /\ [Next]_vars => TypeOK'
<1>1. ASSUME TypeOK, UNCHANGED vars PROVE TypeOK'
  BY <1>1 DEF TypeOK, vars
<1>2. QED
  BY <1>1, EditType, ButtonType, LifeType, PushType, PullType, HostType
  DEF Next, ContextStep

-----------------------------------------------------------------------------
\* What a step does to one context never leaves it owing a push that nothing
\* on the way leads to the next.
LEMMA OwedKept ==
    ASSUME NEW s \in SyncState, Owed(s)
    PROVE  /\ Owed(Scheduled(Asked(s)))
           /\ Owed(Flushed(Asked(s)))
           /\ Owed(Flushed([s EXCEPT !.timer = FALSE]))
           /\ s.at \in {"posting", "answered"} => Owed(Ended(s))
BY DEF Owed, Scheduled, Flushed, Ended, Asked, SyncState

\* A step of one context.
LEMMA OneOwed ==
    ASSUME TypeOK, AllOwed, NEW c \in Contexts, NEW s,
           sync' = [sync EXCEPT ![c] = s], Owed(s)
    PROVE  AllOwed'
BY DEF TypeOK, AllOwed

\* Every step of a context keeps the promise to push.
LEMMA ContextOwed ==
    ASSUME TypeOK, AllOwed, NEW c \in Contexts,
           Open(c) \/ Close(c) \/ PushNow(c) \/ ContextStep(c)
    PROVE  AllOwed'
<1>0. sync[c] \in SyncState /\ Owed(sync[c])
  BY DEF TypeOK, AllOwed
<1>1. ASSUME NEW doc PROVE Owed(Closed(doc)) /\ Owed([Closed(doc) EXCEPT !.open = TRUE])
  BY DEF Owed, Closed
<1>2. CASE Open(c) \/ Close(c)
  BY <1>1, <1>2, OneOwed DEF Open, Close
<1>3. CASE PushNow(c)
  BY <1>0, <1>3, OneOwed, OwedKept DEF PushNow
<1>4. CASE UNCHANGED sync
  BY <1>4 DEF AllOwed
<1>5. CASE TimerFires(c)
  BY <1>0, <1>5, OneOwed, OwedKept DEF TimerFires
<1>6. CASE ReadForPush(c)
  <2>1. PICK failed \in BOOLEAN :
          sync' = [sync EXCEPT ![c] = [@ EXCEPT !.at = "posting", !.asked = FALSE,
                                                !.doc = Read(MachineOf[c], failed)]]
    BY <1>6 DEF ReadForPush
  <2> DEFINE s == [sync[c] EXCEPT !.at = "posting", !.asked = FALSE,
                                  !.doc = Read(MachineOf[c], failed)]
  <2>2. Owed(s) /\ sync' = [sync EXCEPT ![c] = s]
    BY <1>0, <2>1 DEF Owed, SyncState
  <2>3. QED
    BY <2>2, OneOwed
<1>7. CASE Accept(c)
  <2> DEFINE s == [sync[c] EXCEPT !.at = "answered"]
  <2>1. Owed(s)
    BY <1>0, <1>7 DEF Owed, SyncState, Accept
  <2>2. sync' = [sync EXCEPT ![c] = s]
    BY <1>0, <1>7 DEF Accept, TypeOK, SyncState
  <2>3. QED
    BY <2>1, <2>2, OneOwed
<1>8. CASE PushEnds(c)
  BY <1>0, <1>8, OneOwed, OwedKept DEF PushEnds
<1>9. CASE PullEnds(c)
  BY <1>0, <1>4, <1>9, OneOwed, OwedKept DEF PullEnds
<1>10. QED
  BY <1>2, <1>3, <1>4, <1>5, <1>6, <1>7, <1>8, <1>9
  DEF ContextStep, Get, ReadForPull, TakeRemote

\* Every step keeps the promise to push.
LEMMA OwedStep == ASSUME TypeOK, AllOwed, [Next]_vars PROVE AllOwed'
<1>1. CASE UNCHANGED sync
  BY <1>1 DEF AllOwed
<1>2. QED
  BY <1>1, ContextOwed
  DEF Next, vars, Edit, PullNow, HostStep, HostTimer, BeginWrite, EndWrite, WriteFails, HostStops

-----------------------------------------------------------------------------
\* Taking the first document off the chain.
LEMMA TailOrder ==
    ASSUME NEW chain \in Seq(Numbered), chain # <<>>, Ascending(chain)
    PROVE  /\ Ascending(Tail(chain))
           /\ Head(chain) = chain[1]
           /\ Above(Tail(chain), Head(chain).n)
           /\ \A n \in Nat : Above(chain, n) => Above(Tail(chain), n) /\ n < Head(chain).n
           /\ \A n \in Int : AtMost(chain, n) => AtMost(Tail(chain), n) /\ Head(chain).n <= n
           /\ Tail(chain) # <<>> => Tail(chain)[Len(Tail(chain))] = chain[Len(chain)]
           /\ Tail(chain) = <<>> => Head(chain) = chain[Len(chain)]
<1>1. /\ Len(chain) \in Nat /\ Len(chain) > 0
      /\ Len(Tail(chain)) = Len(chain) - 1
      /\ Tail(chain) \in Seq(Numbered)
      /\ \A i \in 1..Len(Tail(chain)) : Tail(chain)[i] = chain[i + 1]
  BY HeadTailProperties, EmptySeq
<1>2. Head(chain) = chain[1]
  OBVIOUS
<1>3. \A i \in 1..Len(Tail(chain)) : i + 1 \in 1..Len(chain) /\ 1 < i + 1
  BY <1>1
<1>4. Ascending(Tail(chain)) /\ Above(Tail(chain), Head(chain).n)
  BY <1>1, <1>2, <1>3 DEF Ascending, Above
<1>5. /\ \A n \in Nat : Above(chain, n) => Above(Tail(chain), n) /\ n < Head(chain).n
      /\ \A n \in Int : AtMost(chain, n) => AtMost(Tail(chain), n) /\ Head(chain).n <= n
  BY <1>1, <1>2, <1>3 DEF Above, AtMost
<1>6. Tail(chain) # <<>> => Tail(chain)[Len(Tail(chain))] = chain[Len(chain)]
  BY <1>1, EmptySeq
<1>7. Tail(chain) = <<>> => Head(chain) = chain[Len(chain)]
  BY <1>1, <1>2, EmptySeq
<1>8. QED
  BY <1>2, <1>4, <1>5, <1>6, <1>7

\* Adding a newer document at the end of the chain.
LEMMA AppendOrder ==
    ASSUME NEW chain \in Seq(Numbered), NEW d \in Numbered,
           Ascending(chain), AtMost(chain, d.n - 1)
    PROVE  /\ Append(chain, d) # <<>>
           /\ Ascending(Append(chain, d))
           /\ Append(chain, d)[Len(Append(chain, d))] = d
           /\ AtMost(Append(chain, d), d.n)
           /\ \A n \in Nat : Above(chain, n) /\ n < d.n => Above(Append(chain, d), n)
<1>1. /\ Append(chain, d) \in Seq(Numbered)
      /\ Len(Append(chain, d)) = Len(chain) + 1
      /\ \A i \in 1..Len(chain) : Append(chain, d)[i] = chain[i]
      /\ Append(chain, d)[Len(chain) + 1] = d
      /\ Append(chain, d) # <<>>
  BY AppendProperties
<1>2. /\ \A i \in 1..Len(chain) : chain[i].n \in Nat
      /\ d.n \in Nat /\ Len(chain) \in Nat
  <2>1. \A e \in Numbered : e.n \in Nat
    BY DEF Numbered
  <2>2. \A i \in 1..Len(chain) : chain[i] \in Numbered
    OBVIOUS
  <2>3. QED
    BY <2>1, <2>2
<1>3. \A i \in 1..(Len(chain) + 1) : i \in 1..Len(chain) \/ i = Len(chain) + 1
  BY <1>2
<1>4. Ascending(Append(chain, d))
  BY <1>1, <1>2, <1>3 DEF Ascending, AtMost
<1>5. AtMost(Append(chain, d), d.n)
  BY <1>1, <1>2, <1>3 DEF AtMost
<1>6. \A n \in Nat : Above(chain, n) /\ n < d.n => Above(Append(chain, d), n)
  BY <1>1, <1>2, <1>3 DEF Above
<1>7. QED
  BY <1>1, <1>4, <1>5, <1>6

\* A document joins what the service holds: a newer one replaces it, and the
\* chain stays below it.
LEMMA AcceptOrder ==
    ASSUME TypeOK, InOrder, NEW c \in Contexts, Accept(c)  PROVE InOrder'
<1> DEFINE d == [n |-> host.accepted + 1, prefs |-> sync[c].doc]
<1>1. host \in HostState /\ disk.n \in Nat /\ host.accepted \in Nat /\ host.chain \in Seq(Numbered)
  BY DEF TypeOK, HostState
<1>2. /\ host'.chain = host.chain /\ host'.accepted = host.accepted + 1
      /\ host'.held = <<d>> /\ disk' = disk
  BY <1>1 DEF Accept, HostState
<1>3. <<d>> # <<>> /\ <<d>>[1].n = host.accepted + 1
  OBVIOUS
<1> HIDE DEF d
<1>4. \A i \in 1..Len(host.chain) : host.chain[i].n \in Nat
  <2>1. \A e \in Numbered : e.n \in Nat
    BY DEF Numbered
  <2>2. QED
    BY <1>1, <2>1
<1>5. AtMost(host.chain, host.accepted + 1)
  BY <1>1, <1>4 DEF InOrder, AtMost
<1>6. QED
  BY <1>1, <1>2, <1>3, <1>5 DEF InOrder

\* The pending document joins the chain as its newest.
LEMMA TimerOrder == ASSUME TypeOK, InOrder, HostTimer PROVE InOrder'
<1> DEFINE d == host.held[1]
           chain == Append(host.chain, host.held[1])
<1>1. /\ host \in HostState /\ disk.n \in Nat /\ host.accepted \in Nat
      /\ host.chain \in Seq(Numbered) /\ host.held # <<>> /\ d \in Numbered
  BY DEF TypeOK, HostState, HostTimer
<1>2. /\ d.n = host.accepted /\ disk.n < host.accepted
      /\ AtMost(host.chain, d.n - 1) /\ Ascending(host.chain) /\ Above(host.chain, disk.n)
  BY <1>1 DEF InOrder
<1>3. /\ chain # <<>> /\ Ascending(chain) /\ chain[Len(chain)] = d
      /\ AtMost(chain, d.n) /\ Above(chain, disk.n)
  BY <1>1, <1>2, AppendOrder
<1>4. /\ host'.chain = chain /\ host'.accepted = host.accepted
      /\ host'.held = <<>> /\ disk' = disk
  BY <1>1 DEF HostTimer, HostState
<1> HIDE DEF d, chain
<1>5. QED
  BY <1>1, <1>2, <1>3, <1>4 DEF InOrder

\* A write in progress has the head of the chain in hand.
LEMMA WriteOrder ==
    ASSUME TypeOK, InOrder, EndWrite \/ WriteFails  PROVE InOrder'
<1> DEFINE d == Head(host.chain)
           chain == Tail(host.chain)
<1>1. /\ host \in HostState /\ disk.n \in Nat /\ host.accepted \in Nat
      /\ host.chain \in Seq(Numbered) /\ host.chain # <<>>
  BY DEF TypeOK, HostState, EndWrite, WriteFails
<1>2. d \in Numbered /\ d.n \in Nat
  <2>1. d \in Numbered
    BY <1>1, HeadTailProperties
  <2>2. \A e \in Numbered : e.n \in Nat
    BY DEF Numbered
  <2>3. QED
    BY <2>1, <2>2
<1>3. /\ Ascending(chain) /\ Above(chain, d.n) /\ Above(chain, disk.n)
      /\ AtMost(chain, host.accepted) /\ disk.n < d.n /\ d.n <= host.accepted
      /\ chain # <<>> => chain[Len(chain)] = host.chain[Len(host.chain)]
      /\ chain = <<>> => d = host.chain[Len(host.chain)]
  BY <1>1, TailOrder DEF InOrder
<1>4. AtMost(host.chain, host.accepted - 1) => AtMost(chain, host.accepted - 1) /\ d.n <= host.accepted - 1
  BY <1>1, TailOrder DEF InOrder
<1>5. /\ host'.chain = chain /\ host'.accepted = host.accepted /\ host'.held = host.held
  BY <1>1 DEF EndWrite, WriteFails, HostState
<1>6. CASE EndWrite
  <2>1. disk'.n = d.n /\ ~disk'.torn
    BY <1>6 DEF EndWrite
  <2> HIDE DEF d, chain
  <2>2. QED
    BY <1>1, <1>2, <1>3, <1>4, <1>5, <2>1 DEF InOrder
<1>7. CASE WriteFails
  <2>1. disk' = disk /\ host'.lost = d.n
    BY <1>1, <1>7 DEF WriteFails, HostState
  <2> HIDE DEF d, chain
  <2>2. QED
    BY <1>1, <1>2, <1>3, <1>4, <1>5, <2>1 DEF InOrder
<1>8. QED
  BY <1>6, <1>7

\* A stop empties the chain and owns up to everything accepted.
LEMMA StopOrder == ASSUME TypeOK, InOrder, HostStops PROVE InOrder'
<1>1. host \in HostState /\ disk.n \in Nat /\ host.accepted \in Nat
  BY DEF TypeOK, HostState
<1>2. /\ host'.chain = <<>> /\ host'.held = <<>> /\ host'.accepted = host.accepted
      /\ host'.lost = host.accepted /\ disk' = disk
  BY <1>1 DEF HostStops, HostState
<1>3. QED
  BY <1>1, <1>2 DEF InOrder, Ascending, Above, AtMost

\* Every step keeps the documents in order.
LEMMA OrderStep == ASSUME TypeOK, InOrder, [Next]_vars PROVE InOrder'
<1>1. CASE UNCHANGED <<host, disk>>
  BY <1>1 DEF InOrder
<1>2. CASE BeginWrite
  <2>1. /\ host'.chain = host.chain /\ host'.held = host.held /\ host.chain # <<>>
        /\ host'.accepted = host.accepted /\ host'.lost = host.lost /\ disk'.n = disk.n
    BY <1>2 DEF BeginWrite, TypeOK, HostState
  <2>2. QED
    BY <2>1 DEF InOrder
<1>3. QED
  BY <1>1, <1>2, AcceptOrder, TimerOrder, WriteOrder, StopOrder
  DEF Next, vars, HostStep, ContextStep, Edit, Open, Close, PushNow, PullNow,
      TimerFires, ReadForPush, PushEnds, Get, ReadForPull, PullEnds, TakeRemote

\* The initial state satisfies the invariant.
LEMMA InitInv == Init => SyncInv
<1> SUFFICES ASSUME Init PROVE AllOwed /\ InOrder
  BY InitType DEF SyncInv
<1>1. AllOwed
  BY DEF Init, AllOwed, Owed, Closed
<1>2. InOrder
  BY DEF Init, InOrder, Ascending, Above, AtMost
<1>3. QED
  BY <1>1, <1>2

\* The invariant holds in every state.
THEOREM SyncInvariant == Spec => []SyncInv
<1>1. SyncInv /\ [Next]_vars => SyncInv'
  BY TypeStep, OwedStep, OrderStep DEF SyncInv
<1>2. QED
  BY <1>1, InitInv, PTL DEF Spec

\* Types are kept (prefs-sync.js, extension-prefs-host-service.mjs).
THEOREM SyncTypeCorrect == Spec => []TypeOK
<1>1. SyncInv => TypeOK
  BY DEF SyncInv
<1>2. QED
  BY <1>1, SyncInvariant, PTL

\* An idle context, of any number of contexts, has read its storage since it
\* was last asked for a push (prefs-sync.js, schedulePush and flush).
THEOREM EveryWishIsSent == Spec => []WishesAreSent
<1>1. SyncInv => WishesAreSent
  BY DEF SyncInv, AllOwed, Owed, WishesAreSent
<1>2. QED
  BY <1>1, SyncInvariant, PTL

\* A quiet prefs service has written the last document it accepted, or lost
\* it to a stop or a failed write (extension-prefs-host-service.mjs).
THEOREM QuietIsCurrent == Spec => []QuietHostIsCurrent
<1>1. SyncInv => QuietHostIsCurrent
  BY DEF SyncInv, TypeOK, InOrder, QuietHostIsCurrent
<1>2. QED
  BY <1>1, SyncInvariant, PTL

\* The file follows the order of acceptance: only the end of a write changes
\* its document, and the head of the chain is newer than the file.
THEOREM FileFollowsAcceptance == Spec => DiskFollowsAcceptance
<1>1. ASSUME SyncInv, [Next]_vars PROVE disk'.n >= disk.n
  <2>1. disk.n \in Nat
    BY <1>1 DEF SyncInv, TypeOK
  <2>2. CASE EndWrite
    <3>1. /\ host.chain \in Seq(Numbered) /\ host.chain # <<>>
          /\ Ascending(host.chain) /\ Above(host.chain, disk.n)
      BY <1>1, <2>2 DEF SyncInv, TypeOK, HostState, InOrder, EndWrite
    <3>2. disk.n < Head(host.chain).n /\ Head(host.chain) \in Numbered
      BY <2>1, <3>1, TailOrder, HeadTailProperties
    <3>3. QED
      BY <2>1, <2>2, <3>2 DEF EndWrite, Numbered
  <2>3. CASE disk' = disk
    BY <2>1, <2>3
  <2>4. CASE BeginWrite
    BY <1>1, <2>1, <2>4 DEF BeginWrite, SyncInv, TypeOK
  <2>5. QED
    BY <1>1, <2>2, <2>3, <2>4
    DEF Next, vars, HostStep, ContextStep, Edit, Open, Close, PushNow, PullNow,
        TimerFires, ReadForPush, Accept, PushEnds, Get, ReadForPull, PullEnds,
        TakeRemote, HostTimer, WriteFails, HostStops
<1>2. QED
  BY <1>1, SyncInvariant, PTL DEF Spec, DiskFollowsAcceptance
=============================================================================
