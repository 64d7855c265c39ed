----------------------------- MODULE ChatProofs -----------------------------
(***************************************************************************)
(* Proofs about the chats, for any projects, folders and bounds.           *)
(*                                                                         *)
(* Every operation of the store makes a sound store of a sound store.  The *)
(* surfaces then hand sound stores to each other.  That a surface in step  *)
(* holds what the storage holds rests on Recent: its newest read, unless   *)
(* it behind since or has a change to take in, is the storage as it is.     *)
(*                                                                         *)
(* That nothing is lost in step needs more: LossInv adds that a surface in *)
(* step holds every chat and message of the storage (Complete), that no    *)
(* chat is newer than the counter, so that a new number is nobody's        *)
(* (AllNumbered), and that only an open surface is in a turn (Awake).      *)
(***************************************************************************)
EXTENDS ChatProperties, SequenceTheorems, WellFoundedInduction, TLAPS

(* A store whose active chat may be a number past the bound.               *)
Loose == [sessions : [Sessions -> Session],
          projects : [Projects -> {"absent", "live", "archived"}],
          folders : [Folders -> Folder], active : Nat]

(* u is the set of ids used so far.                                        *)
Good(m, u) ==
    /\ m \in Loose
    /\ Sound(m)
    /\ \A f \in Folders : m.folders[f].there => f \in u

SoundAll ==
    /\ Good(stored, used)
    /\ \A s \in Surfaces : /\ Good(mem[s], used)
                           /\ \A j \in DOMAIN pulls[s] : Good(pulls[s][j].snap, used)

Recent ==
    \A s \in Surfaces :
        /\ up[s] = "closed" => pulls[s] = <<>> /\ due[s] = {}
        /\ pulls[s] # <<>> /\ "change" \notin due[s] /\ ~ pulls[s][Len(pulls[s])].behind
             => pulls[s][Len(pulls[s])].snap = stored

ChatInv == TypeOK /\ SoundAll /\ Recent /\ Lockstep

-----------------------------------------------------------------------------
\* The first of a list of chats is one of them, and the newest.
LEMMA FirstIsNewest ==
    ASSUME NEW k \in Nat, NEW S \in SUBSET (0..k), S # {}
    PROVE  First(S) \in S /\ \A j \in S : j <= First(S)
<1> DEFINE R == OpToRel(<, Nat)
           T == {k - i : i \in S}
<1> HIDE DEF R
<1>1. T \subseteq Nat /\ T # {}
  <2>1. \A i \in S : k - i \in Nat
    OBVIOUS
  <2>2. PICK i \in S : TRUE
    OBVIOUS
  <2>3. k - i \in T
    OBVIOUS
  <2>4. QED
    BY <2>1, <2>3
<1>2. PICK x \in T : \A y \in T : ~ (<<y, x>> \in R)
  <2>1. IsWellFoundedOn(R, Nat)
    BY NatLessThanWellFounded DEF R
  <2> HIDE DEF T
  <2>2. QED
    BY <1>1, <2>1, WFMin
<1>3. \A y \in T : ~ (y < x)
  <2>1. ASSUME NEW y \in T, y < x  PROVE <<y, x>> \in R
    BY <1>1, <2>1 DEF R, OpToRel
  <2>2. QED
    BY <1>2, <2>1
<1>4. PICK i \in S : x = k - i
  OBVIOUS
<1>5. \A j \in S : j <= i
  <2>1. ASSUME NEW j \in S  PROVE j <= i
    <3>1. k - j \in T
      OBVIOUS
    <3>2. ~ (k - j < k - i)
      BY <1>3, <1>4, <3>1
    <3>3. QED
      BY <3>2
  <2>2. QED
    BY <2>1
<1>6. QED
  BY <1>5 DEF First

\* A store is a loose one, and becomes a store again within the bound.
LEMMA LooseStore ==
    /\ \A m \in Store : m \in Loose
    /\ \A m \in Loose : m.active \in Sessions => m \in Store
BY BoundsAreNaturals DEF Loose, Store, Sessions

\* The empty chat, folder and store have the types.
LEMMA BlankType == NoSession \in Session /\ NoFolder \in Folder /\ Blank \in Store
<1>1. NoSession \in Session
  BY DEF NoSession, Session
<1>2. NoFolder \in Folder
  BY DEF NoFolder, Folder
<1>3. QED
  BY <1>1, <1>2, BoundsAreNaturals DEF Blank, Store

\* The empty store is sound.
LEMMA BlankSound == Sound(Blank)
BY DEF Sound, Blank, NoSession, NoFolder

\* And good.
LEMMA BlankGood == \A u : Good(Blank, u)
BY BlankSound, BlankType, LooseStore DEF Good, Blank, NoFolder

\* Making a chat keeps a store good.
LEMMA OpenedGood ==
    ASSUME NEW u, NEW m, Good(m, u), NEW n \in Nat, NEW p \in Projects \cup {None},
           NEW log \in Seq(Message), p # None => m.projects[p] # "absent"
    PROVE  Good(Opened(m, n, p, log), u)
<1> DEFINE o == Opened(m, n, p, log)
           c == [state |-> "live", project |-> p, folder |-> None, log |-> log]
<1>1. c \in Session
  BY DEF Session
<1>2. /\ o.sessions = [i \in Sessions |-> IF i = n THEN c ELSE m.sessions[i]]
      /\ o.projects = m.projects /\ o.folders = m.folders
      /\ o \in Loose
  BY <1>1 DEF Good, Loose, Opened
<1>3. Sound(o)
  BY <1>2, NoneIsNoId DEF Good, Sound
<1>4. QED
  BY <1>2, <1>3 DEF Good

\* So does the first chat of all.
LEMMA StartedGood ==
    ASSUME NEW u, NEW m, Good(m, u), NEW n \in Nat  PROVE Good(Started(m, n), u)
<1>1. <<>> \in Seq(Message)
  OBVIOUS
<1>2. QED
  BY <1>1, OpenedGood DEF Started

\* persist keeps a store good.
LEMMA WrittenGood ==
    ASSUME NEW u, NEW m, Good(m, u), NEW n \in Nat  PROVE Good(Written(m, n), u)
BY StartedGood DEF Written

\* ensureSession keeps a store good.
LEMMA EnsuredGood ==
    ASSUME NEW u, NEW m, Good(m, u), NEW n \in Nat  PROVE Good(Ensured(m, n), u)
<1>1. CASE Live(m) = {} \/ m.active \in Live(m)
  BY <1>1, StartedGood DEF Ensured
<1>2. CASE Live(m) # {} /\ m.active \notin Live(m)
  <2> DEFINE f == First(Live(m))
  <2>1. Live(m) \in SUBSET (0..MaxSessions)
    BY BoundsAreNaturals DEF Live, Sessions
  <2>2. MaxSessions \in Nat
    BY BoundsAreNaturals
  <2>3. f \in Live(m)
    BY <1>2, <2>1, <2>2, FirstIsNewest
  <2>4. f \in Nat
    BY <2>1, <2>2, <2>3
  <2> HIDE DEF f
  <2>5. Good([m EXCEPT !.active = f], u)
    BY <2>4 DEF Good, Loose, Sound
  <2>6. QED
    BY <1>2, <2>5 DEF Ensured, f
<1>3. QED
  BY <1>1, <1>2

-----------------------------------------------------------------------------
\* The end of hydrate makes a good store of a good one.
LEMMA CleanedGood ==
    ASSUME NEW u, NEW m, Good(m, u)  PROVE Good(Cleaned(m), u)
<1> DEFINE live(p) == p # None /\ m.projects[p] = "live"
           kept(f) == /\ m.folders[f].there
                      /\ m.folders[f].project = None \/ live(m.folders[f].project)
           project(p) == IF live(p) THEN p ELSE None
           folder(f) == IF f # None /\ kept(f) THEN f ELSE None
           ss == [i \in Sessions |->
                     [m.sessions[i] EXCEPT !.project = project(@), !.folder = folder(@)]]
           fs == [f \in Folders |-> IF kept(f) THEN m.folders[f] ELSE NoFolder]
           o == [m EXCEPT !.sessions = ss, !.folders = fs]
<1>1. ASSUME NEW i \in Sessions
      PROVE  /\ ss[i] \in Session
             /\ ss[i].project = project(m.sessions[i].project)
             /\ ss[i].folder = folder(m.sessions[i].folder)
  BY DEF Good, Loose, Session
<1>2. ASSUME NEW f \in Folders
      PROVE  fs[f] \in Folder /\ fs[f] = IF kept(f) THEN m.folders[f] ELSE NoFolder
  BY BlankType DEF Good, Loose
<1>3. ss \in [Sessions -> Session] /\ fs \in [Folders -> Folder]
  BY <1>1, <1>2
<1>4. ASSUME NEW i \in Sessions
      PROVE  /\ ss[i].project # None => m.projects[ss[i].project] # "absent"
             /\ ss[i].folder # None => /\ fs[ss[i].folder].there
                                       /\ fs[ss[i].folder].project = ss[i].project
  <2>1. m.sessions[i] \in Session
    BY DEF Good, Loose
  <2>2. m.sessions[i].folder \in Folders \cup {None}
    BY <2>1 DEF Session
  <2>3. CASE ss[i].folder # None
    <3>1. ss[i].folder = m.sessions[i].folder /\ kept(m.sessions[i].folder)
          /\ m.sessions[i].folder \in Folders
      BY <1>1, <2>2, <2>3
    <3>2. m.folders[m.sessions[i].folder].project = m.sessions[i].project
      BY <3>1, NoneIsNoId DEF Good, Sound
    <3>3. m.sessions[i].project # None
      BY <3>1, <3>2 DEF Good, Sound
    <3>4. QED
      BY <1>1, <1>2, <3>1, <3>2, <3>3
  <2>4. CASE ss[i].folder = None
    BY <1>1, <2>4
  <2>5. QED
    BY <2>3, <2>4
<1>5. ASSUME NEW f \in Folders, fs[f].there
      PROVE  fs[f].project # None /\ m.projects[fs[f].project] # "absent"
  <2>1. kept(f) /\ fs[f] = m.folders[f]
    BY <1>2, <1>5 DEF NoFolder
  <2>2. QED
    BY <2>1 DEF Good, Sound
<1> HIDE DEF ss, fs
<1>6. o.sessions = ss /\ o.folders = fs /\ o.projects = m.projects /\ o \in Loose
  BY <1>3 DEF Good, Loose
<1> HIDE DEF o
<1>7. Good(o, u)
  <2>1. \A f \in Folders : fs[f].there => f \in u
    BY <1>2 DEF Good, NoFolder, fs
  <2>2. Sound(o)
    BY <1>4, <1>5, <1>6 DEF Sound
  <2>3. QED
    BY <1>6, <2>1, <2>2 DEF Good
<1>8. QED
  BY <1>7 DEF Cleaned, o, ss, fs

\* hydrate makes a good store of what it read.
LEMMA HydratedGood ==
    ASSUME NEW u, NEW m, Good(m, u), NEW n \in Nat  PROVE Good(Hydrated(m, n), u)
BY EnsuredGood, CleanedGood DEF Hydrated

\* The transcript is one.
LEMMA LogType ==
    ASSUME NEW u, NEW m, Good(m, u)  PROVE Log(m) \in Seq(Message)
BY DEF Good, Loose, Log, Session

\* Another transcript keeps a store good.
LEMMA WithLogGood ==
    ASSUME NEW u, NEW m, Good(m, u), NEW log \in Seq(Message)  PROVE Good(WithLog(m, log), u)
<1> DEFINE ss == [i \in Sessions |-> IF i = m.active THEN [m.sessions[i] EXCEPT !.log = log]
                                     ELSE m.sessions[i]]
           o == [m EXCEPT !.sessions = ss]
<1>1. ASSUME NEW i \in Sessions
      PROVE  /\ ss[i] \in Session
             /\ ss[i].project = m.sessions[i].project /\ ss[i].folder = m.sessions[i].folder
  <2>1. m.sessions[i] \in Session
    BY DEF Good, Loose
  <2>2. /\ [m.sessions[i] EXCEPT !.log = log] \in Session
        /\ [m.sessions[i] EXCEPT !.log = log].project = m.sessions[i].project
        /\ [m.sessions[i] EXCEPT !.log = log].folder = m.sessions[i].folder
    BY <2>1 DEF Session
  <2>3. QED
    BY <2>1, <2>2
<1>2. ss \in [Sessions -> Session]
  BY <1>1
<1> HIDE DEF ss
<1>3. o.sessions = ss /\ o.folders = m.folders /\ o.projects = m.projects /\ o \in Loose
  BY <1>2 DEF Good, Loose
<1> HIDE DEF o
<1>4. Good(o, u)
  BY <1>1, <1>3 DEF Good, Sound
<1>5. QED
  BY <1>4 DEF WithLog, o, ss

\* A message does.
LEMMA AddMessageGood ==
    ASSUME NEW u, NEW m, Good(m, u), NEW n \in Nat, NEW message \in Message
    PROVE  Good(AddMessage(m, n, message), u)
<1> DEFINE w == Written(m, n)
<1>1. Good(w, u)
  BY WrittenGood
<1> HIDE DEF w
<1>2. Append(Log(w), message) \in Seq(Message)
  BY <1>1, LogType
<1>3. QED
  BY <1>1, <1>2, WithLogGood DEF AddMessage, w

\* A new chat does.
LEMMA CreateSessionGood ==
    ASSUME NEW u, NEW m, Good(m, u), NEW n \in Nat  PROVE Good(CreateSession(m, n), u)
<1>1. n + 1 \in Nat
  OBVIOUS
<1>2. QED
  BY <1>1, StartedGood, WrittenGood DEF CreateSession

\* So does a part of a transcript.
LEMMA PartType ==
    ASSUME NEW log \in Seq(Message), NEW k \in 0..Len(log)
    PROVE  SubSeq(log, 1, k) \in Seq(Message)
OBVIOUS

\* Deleting a message keeps a store good.
LEMMA DeleteMessageGood ==
    ASSUME NEW u, NEW m, Good(m, u), NEW k \in 1..Len(Log(m))  PROVE Good(DeleteMessage(m, k), u)
<1> DEFINE log == Log(m)
<1>1. log \in Seq(Message)
  BY LogType
<1> HIDE DEF log
<1>2. k \in 1..Len(log)
  BY DEF log
<1>3. SubSeq(log, 1, k - 1) \in Seq(Message) /\ SubSeq(log, k + 1, Len(log)) \in Seq(Message)
  BY <1>1, <1>2
<1>4. SubSeq(log, 1, k - 1) \o SubSeq(log, k + 1, Len(log)) \in Seq(Message)
  BY <1>3
<1>5. QED
  BY <1>4, WithLogGood DEF DeleteMessage, log

\* The question before a message is in the transcript.
LEMMA QuestionInLog ==
    ASSUME NEW u, NEW m, Good(m, u), NEW k \in 1..Len(Log(m)), Questions(m, k) # {}
    PROVE  First(Questions(m, k)) \in 1..Len(Log(m))
<1>1. k \in Nat /\ Len(Log(m)) \in Nat
  BY LogType
<1>2. Questions(m, k) \in SUBSET (0..k) /\ Questions(m, k) \subseteq 1..(k - 1)
  BY <1>1 DEF Questions
<1>3. First(Questions(m, k)) \in Questions(m, k)
  BY <1>1, <1>2, FirstIsNewest
<1>4. QED
  BY <1>1, <1>2, <1>3

\* The transcript up to the question is one.
LEMMA RetainedType ==
    ASSUME NEW u, NEW m, Good(m, u), NEW k \in 1..Len(Log(m)), Questions(m, k) # {}
    PROVE  SubSeq(Log(m), 1, First(Questions(m, k))) \in Seq(Message)
<1> DEFINE q == First(Questions(m, k))
<1>1. q \in 1..Len(Log(m)) /\ Log(m) \in Seq(Message)
  BY QuestionInLog, LogType
<1> HIDE DEF q
<1>2. q \in 0..Len(Log(m))
  BY <1>1
<1>3. SubSeq(Log(m), 1, q) \in Seq(Message)
  BY <1>1, <1>2, PartType
<1>4. QED
  BY <1>3 DEF q

\* Both ways to regenerate keep a store good.
LEMMA RegeneratedGood ==
    ASSUME NEW u, NEW m, Good(m, u), NEW k \in 1..Len(Log(m)), Questions(m, k) # {}, NEW n \in Nat,
           m.active \in Sessions
    PROVE  Good(Overwritten(m, k), u) /\ Good(Branched(m, k, n), u)
<1>1. SubSeq(Log(m), 1, First(Questions(m, k))) \in Seq(Message)
  BY RetainedType
<1>2. /\ m.sessions[m.active].project \in Projects \cup {None}
      /\ m.sessions[m.active].project # None
            => m.projects[m.sessions[m.active].project] # "absent"
  BY DEF Good, Loose, Session, Sound
<1>3. Good(Overwritten(m, k), u)
  BY <1>1, WithLogGood DEF Overwritten
<1>4. Good(Branched(m, k, n), u)
  BY <1>1, <1>2, OpenedGood DEF Branched
<1>5. QED
  BY <1>3, <1>4

\* The two forks keep a store good.
LEMMA ForkedGood ==
    ASSUME NEW u, NEW m, Good(m, u), NEW n \in Nat
    PROVE  /\ \A k \in 1..Len(Log(m)) : Good(ForkFromMessage(m, k, n), u)
           /\ \A i \in Sessions : Good(ForkSession(m, i, n), u)
<1>1. ASSUME NEW k \in 1..Len(Log(m))  PROVE Good(ForkFromMessage(m, k, n), u)
  <2>1. Log(m) \in Seq(Message) /\ k \in 0..Len(Log(m))
    BY LogType
  <2>2. SubSeq(Log(m), 1, k) \in Seq(Message)
    BY <2>1, PartType
  <2>3. QED
    BY <2>2, OpenedGood DEF ForkFromMessage
<1>2. ASSUME NEW i \in Sessions  PROVE Good(ForkSession(m, i, n), u)
  <2>1. /\ m.sessions[i].project \in Projects \cup {None}
        /\ m.sessions[i].log \in Seq(Message)
        /\ m.sessions[i].project # None => m.projects[m.sessions[i].project] # "absent"
    BY DEF Good, Loose, Session, Sound
  <2>2. QED
    BY <2>1, OpenedGood DEF ForkSession
<1>3. QED
  BY <1>1, <1>2

-----------------------------------------------------------------------------
\* One chat replaced by another that fits keeps a store good.
LEMMA ReplacedGood ==
    ASSUME NEW u, NEW m, Good(m, u), NEW i \in Sessions, NEW c \in Session,
           c.project # None => m.projects[c.project] # "absent",
           c.folder # None => /\ m.folders[c.folder].there
                              /\ m.folders[c.folder].project = c.project
    PROVE  Good(Put(m, i, c), u)
<1> DEFINE ss == [m.sessions EXCEPT ![i] = c]
           o == [m EXCEPT !.sessions = ss]
<1>1. /\ ss \in [Sessions -> Session]
      /\ \A j \in Sessions : ss[j] = IF j = i THEN c ELSE m.sessions[j]
  BY DEF Good, Loose
<1> HIDE DEF ss
<1>2. o.sessions = ss /\ o.folders = m.folders /\ o.projects = m.projects /\ o \in Loose
  BY <1>1 DEF Good, Loose
<1> HIDE DEF o
<1>3. Good(o, u)
  BY <1>1, <1>2 DEF Good, Sound
<1>4. QED
  BY <1>3 DEF Put, o, ss

\* Another active chat does.
LEMMA ActiveGood ==
    ASSUME NEW u, NEW m, Good(m, u), NEW i \in Nat
    PROVE  Good([m EXCEPT !.active = i], u)
BY DEF Good, Loose, Sound

\* The chats of a store are numbered.
LEMMA ListType ==
    ASSUME NEW m, NEW S, S \in {Live(m), Present(m)}, S # {}
    PROVE  First(S) \in Nat
<1>1. MaxSessions \in Nat
  BY BoundsAreNaturals
<1>2. S \in SUBSET (0..MaxSessions) /\ \A i \in S : i \in Nat
  BY <1>1 DEF Live, Present, Sessions
<1>3. First(S) \in S
  BY <1>1, <1>2, FirstIsNewest
<1>4. QED
  BY <1>2, <1>3

\* Archiving a chat keeps a store good.
LEMMA ArchivedGood ==
    ASSUME NEW u, NEW m, Good(m, u), NEW i \in Sessions, NEW b \in BOOLEAN, NEW n \in Nat
    PROVE  Good(SetSessionArchived(m, i, b, n), u)
<1> DEFINE c == [m.sessions[i] EXCEPT !.state = IF b THEN "archived" ELSE "live"]
           a == Put(m, i, c)
<1>1. m.sessions[i] \in Session
  BY DEF Good, Loose
<1>2. c \in Session /\ c.project = m.sessions[i].project /\ c.folder = m.sessions[i].folder
  BY <1>1 DEF Session
<1>3. Good(a, u)
  <2>1. /\ c.project # None => m.projects[c.project] # "absent"
        /\ c.folder # None => /\ m.folders[c.folder].there
                              /\ m.folders[c.folder].project = c.project
    BY <1>2 DEF Good, Sound
  <2> HIDE DEF c
  <2>2. QED
    BY <1>2, <2>1, ReplacedGood
<1> HIDE DEF a
<1>4. Good(Started(a, n), u)
  BY <1>3, StartedGood
<1>5. Live(a) # {} => Good([a EXCEPT !.active = First(Live(a))], u)
  BY <1>3, ListType, ActiveGood
<1>6. QED
  BY <1>3, <1>4, <1>5 DEF SetSessionArchived, a

\* Moving a chat to a project does.
LEMMA MovedGood ==
    ASSUME NEW u, NEW m, Good(m, u), NEW i \in Sessions, NEW p \in Projects \cup {None},
           p # None => m.projects[p] # "absent"
    PROVE  Good(SetSessionProject(m, i, p), u)
<1> DEFINE c == [m.sessions[i] EXCEPT !.project = p, !.folder = None]
<1>1. m.sessions[i] \in Session
  BY DEF Good, Loose
<1>2. c \in Session /\ c.project = p /\ c.folder = None
  BY <1>1 DEF Session
<1> HIDE DEF c
<1>3. Good(Put(m, i, c), u)
  BY <1>2, ReplacedGood
<1>4. QED
  BY <1>3 DEF SetSessionProject, c

\* Filing a chat in a folder does.
LEMMA FiledGood ==
    ASSUME NEW u, NEW m, Good(m, u), NEW i \in Sessions, NEW f \in Folders \cup {None},
           f # None => m.folders[f].there
    PROVE  Good(SetSessionFolder(m, i, f), u)
<1> DEFINE p == IF f = None THEN m.sessions[i].project ELSE m.folders[f].project
           c == [m.sessions[i] EXCEPT !.folder = f, !.project = p]
<1>1. m.sessions[i] \in Session
  BY DEF Good, Loose
<1>2. p \in Projects \cup {None} /\ (p # None => m.projects[p] # "absent")
  <2>1. CASE f = None
    BY <1>1, <2>1 DEF Session, Good, Sound
  <2>2. CASE f # None
    BY <2>2 DEF Good, Loose, Folder, Sound
  <2>3. QED
    BY <2>1, <2>2
<1>3. f # None => m.folders[f].there /\ m.folders[f].project = p
  OBVIOUS
<1> HIDE DEF p
<1>4. c \in Session /\ c.project = p /\ c.folder = f
  BY <1>1, <1>2 DEF Session
<1> HIDE DEF c
<1>5. Good(Put(m, i, c), u)
  BY <1>2, <1>3, <1>4, ReplacedGood
<1>6. QED
  BY <1>5 DEF SetSessionFolder, c, p

\* Deleting a chat does.
LEMMA DeletedGood ==
    ASSUME NEW u, NEW m, Good(m, u), NEW i \in Sessions, NEW n \in Nat
    PROVE  Good(DeleteSession(m, i, n), u)
<1> DEFINE d == Put(m, i, NoSession)
<1>1. Good(d, u)
  BY BlankType, ReplacedGood DEF NoSession
<1> HIDE DEF d
<1>2. Good(Started(d, n), u)
  BY <1>1, StartedGood
<1>3. Present(d) # {} => Good([d EXCEPT !.active = First(Present(d))], u)
  BY <1>1, ListType, ActiveGood
<1>4. QED
  BY <1>1, <1>2, <1>3 DEF DeleteSession, d

\* Making, archiving and restoring a project does.
LEMMA ProjectGood ==
    ASSUME NEW u, NEW m, Good(m, u), NEW p \in Projects, NEW state \in {"live", "archived"}
    PROVE  Good(SetProject(m, p, state), u)
<1> DEFINE ps == [m.projects EXCEPT ![p] = state]
           o == [m EXCEPT !.projects = ps]
<1>1. /\ ps \in [Projects -> {"absent", "live", "archived"}]
      /\ \A q \in Projects : m.projects[q] # "absent" => ps[q] # "absent"
  BY DEF Good, Loose
<1> HIDE DEF ps
<1>2. /\ o.sessions = m.sessions /\ o.folders = m.folders /\ o.projects = ps /\ o \in Loose
      /\ \A i \in Sessions : m.sessions[i].project \in Projects \cup {None}
      /\ \A f \in Folders : m.folders[f].project \in Projects \cup {None}
  BY <1>1 DEF Good, Loose, Session, Folder
<1> HIDE DEF o
<1>3. Good(o, u)
  BY <1>1, <1>2 DEF Good, Sound
<1>4. QED
  BY <1>3 DEF SetProject, o, ps

\* A folder with a new id in a live project does.
LEMMA CreatedFolderGood ==
    ASSUME NEW u, NEW m, Good(m, u), NEW f \in Folders, f \notin u,
           NEW p \in Projects, m.projects[p] # "absent"
    PROVE  Good(CreateFolder(m, f, p), u \cup {f})
<1> DEFINE fs == [m.folders EXCEPT ![f] = [there |-> TRUE, project |-> p]]
           o == [m EXCEPT !.folders = fs]
<1>1. [there |-> TRUE, project |-> p] \in Folder
  BY DEF Folder
<1>2. /\ fs \in [Folders -> Folder]
      /\ fs[f].there /\ fs[f].project = p
      /\ \A g \in Folders : g # f => fs[g] = m.folders[g]
  BY <1>1 DEF Good, Loose
<1> HIDE DEF fs
<1>3. o.sessions = m.sessions /\ o.folders = fs /\ o.projects = m.projects /\ o \in Loose
  BY <1>2 DEF Good, Loose
<1> HIDE DEF o
<1>4. ~ m.folders[f].there
  BY DEF Good
<1>5. \A i \in Sessions : m.sessions[i].folder # f
                          /\ m.sessions[i].folder \in Folders \cup {None}
  BY <1>4, NoneIsNoId DEF Good, Sound, Loose, Session
<1>6. Sound(o)
  <2>1. ASSUME NEW i \in Sessions
        PROVE  /\ o.sessions[i].project # None => o.projects[o.sessions[i].project] # "absent"
               /\ o.sessions[i].folder # None
                    => /\ o.folders[o.sessions[i].folder].there
                       /\ o.folders[o.sessions[i].folder].project = o.sessions[i].project
    BY <1>2, <1>3, <1>5 DEF Good, Sound
  <2>2. ASSUME NEW g \in Folders, o.folders[g].there
        PROVE  o.folders[g].project # None /\ o.projects[o.folders[g].project] # "absent"
    BY <1>2, <1>3, <2>2, NoneIsNoId DEF Good, Sound
  <2>3. QED
    BY <2>1, <2>2 DEF Sound
<1>7. Good(o, u \cup {f})
  BY <1>2, <1>3, <1>6 DEF Good
<1>8. QED
  BY <1>7 DEF CreateFolder, o, fs

\* Taking the chats out of some folders keeps the rest of each.
LEMMA UnfiledType ==
    ASSUME NEW u, NEW m, Good(m, u), NEW gone \in SUBSET Folders, NEW i \in Sessions
    PROVE  /\ Unfiled(m, gone) \in [Sessions -> Session]
           /\ Unfiled(m, gone)[i].project = m.sessions[i].project
           /\ Unfiled(m, gone)[i].folder
                 = IF m.sessions[i].folder \in gone THEN None ELSE m.sessions[i].folder
<1>1. ASSUME NEW j \in Sessions
      PROVE  /\ [m.sessions[j] EXCEPT !.folder = None] \in Session
             /\ [m.sessions[j] EXCEPT !.folder = None].project = m.sessions[j].project
             /\ [m.sessions[j] EXCEPT !.folder = None].folder = None
             /\ m.sessions[j] \in Session
  <2>1. m.sessions[j] \in Session
    BY DEF Good, Loose
  <2>2. QED
    BY <2>1 DEF Session
<1>2. QED
  BY <1>1 DEF Unfiled

\* Deleting a folder keeps a store good.
LEMMA DeletedFolderGood ==
    ASSUME NEW u, NEW m, Good(m, u), NEW f \in Folders
    PROVE  Good(DeleteFolder(m, f), u)
<1> DEFINE ss == Unfiled(m, {f})
           fs == [m.folders EXCEPT ![f] = NoFolder]
           o == [m EXCEPT !.sessions = ss, !.folders = fs]
<1>1. /\ ss \in [Sessions -> Session]
      /\ \A i \in Sessions :
            /\ ss[i].project = m.sessions[i].project
            /\ ss[i].folder = IF m.sessions[i].folder = f THEN None ELSE m.sessions[i].folder
  <2>1. ASSUME NEW i \in Sessions
        PROVE  /\ ss \in [Sessions -> Session]
               /\ ss[i].project = m.sessions[i].project
               /\ ss[i].folder = IF m.sessions[i].folder = f THEN None
                                 ELSE m.sessions[i].folder
    BY UnfiledType
  <2>2. 1 \in Sessions
    BY BoundsAreNaturals DEF Sessions
  <2>3. QED
    BY <2>1, <2>2
<1>2. /\ fs \in [Folders -> Folder]
      /\ ~ fs[f].there
      /\ \A g \in Folders : g # f => fs[g] = m.folders[g]
  BY BlankType DEF Good, Loose, NoFolder
<1> HIDE DEF ss, fs
<1>3. o.sessions = ss /\ o.folders = fs /\ o.projects = m.projects /\ o \in Loose
  BY <1>1, <1>2 DEF Good, Loose
<1> HIDE DEF o
<1>4. \A i \in Sessions : m.sessions[i].folder \in Folders \cup {None}
  BY DEF Good, Loose, Session
<1>5. Good(o, u)
  BY <1>1, <1>2, <1>3, <1>4 DEF Good, Sound
<1>6. QED
  BY <1>5 DEF DeleteFolder, o, ss, fs

\* Deleting a project does.
LEMMA DeletedProjectGood ==
    ASSUME NEW u, NEW m, Good(m, u), NEW p \in Projects
    PROVE  Good(DeleteProject(m, p), u)
<1> DEFINE gone == {f \in Folders : m.folders[f].there /\ m.folders[f].project = p}
           out == Unfiled(m, gone)
           ps == [m.projects EXCEPT ![p] = "absent"]
           fs == [f \in Folders |-> IF f \in gone THEN NoFolder ELSE m.folders[f]]
           ss == [i \in Sessions |->
                     IF out[i].project = p THEN [out[i] EXCEPT !.project = None] ELSE out[i]]
           o == [m EXCEPT !.projects = ps, !.folders = fs, !.sessions = ss]
<1>1. ASSUME NEW i \in Sessions
      PROVE  /\ ss[i] \in Session
             /\ ss[i].project = IF m.sessions[i].project = p THEN None
                                ELSE m.sessions[i].project
             /\ ss[i].folder = IF m.sessions[i].folder \in gone THEN None
                               ELSE m.sessions[i].folder
  <2>1. gone \in SUBSET Folders
    OBVIOUS
  <2> HIDE DEF gone
  <2>2. /\ out[i] \in Session
        /\ out[i].project = m.sessions[i].project
        /\ out[i].folder = IF m.sessions[i].folder \in gone THEN None
                           ELSE m.sessions[i].folder
    BY <2>1, UnfiledType
  <2> HIDE DEF out
  <2>3. /\ [out[i] EXCEPT !.project = None] \in Session
        /\ [out[i] EXCEPT !.project = None].project = None
        /\ [out[i] EXCEPT !.project = None].folder = out[i].folder
    BY <2>2 DEF Session
  <2>4. QED
    BY <2>2, <2>3
<1>2. /\ fs \in [Folders -> Folder]
      /\ \A f \in Folders : fs[f] = IF f \in gone THEN NoFolder ELSE m.folders[f]
  BY BlankType DEF Good, Loose
<1>3. /\ ps \in [Projects -> {"absent", "live", "archived"}]
      /\ \A q \in Projects : q # p => ps[q] = m.projects[q]
  BY DEF Good, Loose
<1>4. ss \in [Sessions -> Session]
  BY <1>1
<1>5. /\ \A i \in Sessions : /\ m.sessions[i].folder \in Folders \cup {None}
                             /\ m.sessions[i].project \in Projects \cup {None}
      /\ \A f \in Folders : m.folders[f].project \in Projects \cup {None}
      /\ \A f \in gone : f \in Folders /\ m.folders[f].project = p
      /\ \A f \in Folders : m.folders[f].there /\ f \notin gone => m.folders[f].project # p
  BY DEF Good, Loose, Session, Folder
<1> HIDE DEF ss, fs, ps, gone
<1>6. o.sessions = ss /\ o.folders = fs /\ o.projects = ps /\ o \in Loose
  BY <1>2, <1>3, <1>4 DEF Good, Loose
<1> HIDE DEF o
<1>7. ASSUME NEW i \in Sessions
      PROVE  /\ ss[i].project # None => ps[ss[i].project] # "absent"
             /\ ss[i].folder # None => /\ fs[ss[i].folder].there
                                       /\ fs[ss[i].folder].project = ss[i].project
  <2>1. ss[i].project # None => ps[ss[i].project] # "absent"
    BY <1>1, <1>3, <1>5, NoneIsNoId DEF Good, Sound
  <2>2. CASE ss[i].folder # None
    <3>1. m.sessions[i].folder \in Folders /\ m.sessions[i].folder \notin gone
          /\ ss[i].folder = m.sessions[i].folder
      BY <1>1, <1>5, <2>2
    <3>2. /\ m.folders[m.sessions[i].folder].there
          /\ m.folders[m.sessions[i].folder].project = m.sessions[i].project
      BY <3>1, NoneIsNoId DEF Good, Sound
    <3>3. QED
      BY <1>1, <1>2, <1>5, <2>1, <3>1, <3>2
  <2>3. QED
    BY <2>1, <2>2
<1>8. ASSUME NEW f \in Folders, fs[f].there
      PROVE  fs[f].project # None /\ ps[fs[f].project] # "absent" /\ f \in u
  <2>1. fs[f] = m.folders[f] /\ m.folders[f].there /\ f \notin gone
    BY <1>2, <1>8 DEF NoFolder
  <2>2. QED
    BY <1>3, <1>5, <2>1 DEF Good, Sound
<1>9. Good(o, u)
  BY <1>6, <1>7, <1>8 DEF Good, Sound
<1>10. QED
  BY <1>9 DEF DeleteProject, o, ss, fs, ps, out, gone

-----------------------------------------------------------------------------
\* Marking the reads under way keeps them.
LEMMA BehindType ==
    ASSUME NEW q \in Seq(Pull)
    PROVE  LET r == [j \in DOMAIN q |-> [q[j] EXCEPT !.behind = TRUE]] IN
           /\ r \in Seq(Pull) /\ Len(r) = Len(q) /\ DOMAIN r = DOMAIN q
           /\ \A j \in DOMAIN q : r[j].behind /\ r[j].snap = q[j].snap
<1> DEFINE r == [j \in DOMAIN q |-> [q[j] EXCEPT !.behind = TRUE]]
<1>1. Len(q) \in Nat /\ DOMAIN q = 1..Len(q) /\ \A j \in 1..Len(q) : q[j] \in Pull
  OBVIOUS
<1>2. ASSUME NEW j \in 1..Len(q)
      PROVE  r[j] \in Pull /\ r[j].behind /\ r[j].snap = q[j].snap
  <2>1. q[j] \in Pull
    BY <1>1
  <2>2. /\ [q[j] EXCEPT !.behind = TRUE] \in Pull
        /\ [q[j] EXCEPT !.behind = TRUE].behind
        /\ [q[j] EXCEPT !.behind = TRUE].snap = q[j].snap
    BY <2>1 DEF Pull
  <2>3. QED
    BY <1>1, <2>2
<1>3. DOMAIN r = 1..Len(q)
  BY <1>1
<1> HIDE DEF r
<1>4. r \in [1..Len(q) -> Pull]
  <2>1. r = [j \in 1..Len(q) |-> r[j]]
    BY <1>3 DEF r
  <2>2. QED
    BY <1>2, <2>1
<1>5. r \in Seq(Pull) /\ Len(r) = Len(q)
  BY <1>1, <1>4
<1>6. QED
  BY <1>1, <1>2, <1>3, <1>5 DEF r

\* A write changes what the surface holds, whether the storage takes it or not.
LEMMA WriteType ==
    ASSUME TypeOK, NEW u, NEW s \in Surfaces, NEW changed, Good(changed, u), Write(s, changed)
    PROVE  /\ mem'[s] \in Store /\ Good(mem'[s], u)
           /\ mem' = [mem EXCEPT ![s] = mem'[s]]
           /\ Set(s, mem'[s]) \/ SetFails(s)
           /\ stored' \in {stored, mem'[s]}
           /\ made' \in 0..MaxSessions
           /\ due' \in [Surfaces -> SUBSET {"boot", "change"}]
           /\ stale' \in [Surfaces -> BOOLEAN]
<1> DEFINE w == Written(changed, made + 1)
<1>1. made + 1 \in Nat /\ made \in Nat /\ MaxSessions \in Nat
  BY BoundsAreNaturals DEF TypeOK
<1>2. Good(w, u)
  BY <1>1, WrittenGood
<1>3. /\ w.active \in Sessions /\ mem' = [mem EXCEPT ![s] = w]
      /\ Set(s, w) \/ SetFails(s)
      /\ made' = IF w.active > made THEN w.active ELSE made
  BY DEF Write, Hold
<1> HIDE DEF w
<1>4. w \in Store /\ mem'[s] = w
  BY <1>2, <1>3, LooseStore DEF Good, TypeOK
<1>5. made' \in 0..MaxSessions
  BY <1>1, <1>3 DEF TypeOK, Sessions
<1>6. /\ due' \in [Surfaces -> SUBSET {"boot", "change"}] /\ stale' \in [Surfaces -> BOOLEAN]
      /\ stored' \in {stored, w}
  <2>1. CASE Set(s, w)
    BY <2>1 DEF TypeOK, Set, Told
  <2>2. CASE SetFails(s)
    BY <2>2 DEF TypeOK, SetFails
  <2>3. QED
    BY <1>3, <2>1, <2>2
<1>7. QED
  BY <1>2, <1>3, <1>4, <1>5, <1>6

\* The reads a write leaves.
LEMMA WritePulls ==
    ASSUME TypeOK, NEW s \in Surfaces, NEW changed, Write(s, changed), NEW t \in Surfaces
    PROVE  /\ pulls' \in [Surfaces -> Seq(Pull)]
           /\ Len(pulls'[t]) = Len(pulls[t]) /\ DOMAIN pulls'[t] = DOMAIN pulls[t]
           /\ \A j \in DOMAIN pulls[t] : pulls'[t][j].snap = pulls[t][j].snap
           /\ \A m : Set(s, m) /\ t = s => \A j \in DOMAIN pulls[t] : pulls'[t][j].behind
           /\ t # s \/ SetFails(s) => pulls'[t] = pulls[t]
<1> DEFINE q == pulls[s]
           r == [j \in DOMAIN q |-> [q[j] EXCEPT !.behind = TRUE]]
<1>1. q \in Seq(Pull)
  BY DEF TypeOK
<1>2. /\ r \in Seq(Pull) /\ Len(r) = Len(q) /\ DOMAIN r = DOMAIN q
      /\ \A j \in DOMAIN q : r[j].behind /\ r[j].snap = q[j].snap
  BY <1>1, BehindType
<1>3. \A m : Set(s, m) => pulls' = [pulls EXCEPT ![s] = r]
  BY DEF Set
<1>4. SetFails(s) => pulls' = pulls
  BY DEF SetFails
<1>5. PICK m : Set(s, m) \/ SetFails(s)
  BY DEF Write
<1> HIDE DEF q, r
<1>6. CASE \E n : Set(s, n)
  <2>1. pulls' = [pulls EXCEPT ![s] = r]
    BY <1>3, <1>6
  <2>2. pulls'[s] = r /\ (t # s => pulls'[t] = pulls[t])
    BY <2>1 DEF TypeOK
  <2>3. pulls' \in [Surfaces -> Seq(Pull)]
    BY <1>2, <2>1 DEF TypeOK
  <2>4. QED
    BY <1>2, <1>4, <2>2, <2>3 DEF q
<1>7. CASE ~ \E n : Set(s, n)
  BY <1>4, <1>5, <1>7 DEF TypeOK
<1>8. QED
  BY <1>6, <1>7

\* After a write every other open surface has a change to take in, and the
\* writer holds what it wrote; a write that fails leaves the writer out of step.
LEMMA WriteInStep ==
    ASSUME ChatInv, NEW s \in Surfaces, NEW changed, NEW u, Good(changed, u),
           Write(s, changed),
           \A t \in Surfaces : up'[t] = "closed" <=> up[t] = "closed"
    PROVE  Recent' /\ Lockstep'
<1>1. TypeOK
  BY DEF ChatInv
<1>2. mem' = [mem EXCEPT ![s] = mem'[s]] /\ (Set(s, mem'[s]) \/ SetFails(s))
  BY <1>1, WriteType
<1>3. CASE Set(s, mem'[s])
  <2>1. ASSUME NEW t \in Surfaces, t # s, up'[t] # "closed"  PROVE "change" \in due'[t]
    BY <1>3, <2>1 DEF Set, Told
  <2>2. ASSUME NEW t \in Surfaces
        PROVE  /\ up'[t] = "closed" => pulls'[t] = <<>> /\ due'[t] = {}
               /\ pulls'[t] # <<>> /\ "change" \notin due'[t]
                  /\ ~ pulls'[t][Len(pulls'[t])].behind
                    => pulls'[t][Len(pulls'[t])].snap = stored'
    <3>1. /\ pulls'[t] \in Seq(Pull) /\ pulls[t] \in Seq(Pull)
          /\ Len(pulls'[t]) = Len(pulls[t])
          /\ t = s => \A j \in DOMAIN pulls[t] : pulls'[t][j].behind
          /\ t # s => pulls'[t] = pulls[t]
      BY <1>1, <1>3, WritePulls DEF TypeOK
    <3>2. up'[t] = "closed" => pulls'[t] = <<>> /\ due'[t] = {}
      <4>1. up'[t] = "closed" => up[t] = "closed" /\ pulls[t] = <<>> /\ due[t] = {}
        BY DEF ChatInv, Recent
      <4>2. up[t] = "closed" => due'[t] = due[t]
        BY <1>3 DEF Set, Told
      <4>3. QED
        BY <3>1, <4>1, <4>2
    <3>3. CASE pulls'[t] # <<>> /\ up'[t] # "closed"
      <4>1. CASE t = s
        <5>1. Len(pulls'[t]) \in DOMAIN pulls[t]
          BY <3>1, <3>3
        <5>2. QED
          BY <3>1, <3>2, <4>1, <5>1
      <4>2. CASE t # s
        BY <2>1, <3>2, <3>3, <4>2
      <4>3. QED
        BY <4>1, <4>2
    <3>4. QED
      BY <3>2, <3>3
  <2>3. ASSUME NEW t \in Surfaces, InStep(t)'  PROVE mem'[t] = stored'
    <3>1. t = s
      BY <2>1, <2>3 DEF InStep
    <3>2. QED
      BY <1>3, <3>1 DEF Set
  <2>4. QED
    BY <2>2, <2>3 DEF Recent, Lockstep
<1>4. CASE SetFails(s)
  <2>1. UNCHANGED <<stored, due, pulls>> /\ stale' = [stale EXCEPT ![s] = TRUE]
    BY <1>4 DEF SetFails
  <2>2. Recent'
    BY <2>1 DEF ChatInv, Recent
  <2>3. ASSUME NEW t \in Surfaces, InStep(t)'  PROVE InStep(t) /\ mem'[t] = mem[t]
    BY <1>1, <1>2, <2>1, <2>3 DEF TypeOK, InStep
  <2>4. QED
    BY <2>1, <2>2, <2>3 DEF ChatInv, Lockstep
<1>5. QED
  BY <1>2, <1>3, <1>4

\* A write of a good store keeps the invariant.
LEMMA WriteKeeps ==
    ASSUME ChatInv, NEW s \in Surfaces, NEW changed, Good(changed, used'),
           Write(s, changed),
           used \subseteq used', used' \in SUBSET (Projects \cup Folders),
           up' \in [Surfaces -> {"closed", "starting", "greeting", "up"}],
           \A t \in Surfaces : up'[t] = "closed" <=> up[t] = "closed",
           turn' \in [Surfaces -> Turn], asked' \in 0..MaxTurns,
           budget' \in [Surfaces -> Allowance]
    PROVE  ChatInv'
<1>1. TypeOK
  BY DEF ChatInv
<1>2. /\ mem'[s] \in Store /\ Good(mem'[s], used')
      /\ mem' = [mem EXCEPT ![s] = mem'[s]]
      /\ stored' \in {stored, mem'[s]}
      /\ made' \in 0..MaxSessions
      /\ due' \in [Surfaces -> SUBSET {"boot", "change"}]
      /\ stale' \in [Surfaces -> BOOLEAN]
  BY <1>1, WriteType
<1>3. pulls' \in [Surfaces -> Seq(Pull)]
  BY <1>1, WritePulls
<1>4. TypeOK'
  BY <1>1, <1>2, <1>3 DEF TypeOK
<1>5. \A m : Good(m, used) => Good(m, used')
  BY DEF Good
<1>6. ASSUME NEW t \in Surfaces
      PROVE  /\ Good(mem'[t], used')
             /\ \A j \in DOMAIN pulls'[t] : Good(pulls'[t][j].snap, used')
  <2>1. Good(mem[t], used) /\ \A j \in DOMAIN pulls[t] : Good(pulls[t][j].snap, used)
    BY DEF ChatInv, SoundAll
  <2>2. /\ DOMAIN pulls'[t] = DOMAIN pulls[t]
        /\ \A j \in DOMAIN pulls[t] : pulls'[t][j].snap = pulls[t][j].snap
    BY <1>1, WritePulls
  <2>3. mem'[t] = IF t = s THEN mem'[s] ELSE mem[t]
    BY <1>1, <1>2 DEF TypeOK
  <2>4. QED
    BY <1>2, <1>5, <2>1, <2>2, <2>3
<1>7. SoundAll'
  <2>1. Good(stored, used')
    BY <1>5 DEF ChatInv, SoundAll
  <2>2. QED
    BY <1>2, <1>6, <2>1 DEF SoundAll
<1>8. Recent' /\ Lockstep'
  BY WriteInStep
<1>9. QED
  BY <1>4, <1>7, <1>8 DEF ChatInv

-----------------------------------------------------------------------------
\* What a surface may still do stays a number.
LEMMA BudgetType ==
    ASSUME TypeOK, NEW s \in Surfaces, Commanded(s) \/ TakesTurn(s)
    PROVE  budget' \in [Surfaces -> Allowance]
<1> DEFINE b == budget[s]
           fewer == [b EXCEPT !.edits = @ - 1]
           rest == [b EXCEPT !.turns = @ - 1]
<1>1. b \in Allowance
  BY DEF TypeOK
<1> USE DEF Allowance
<1>2. CASE Commanded(s)
  <2>1. b.edits - 1 \in Nat
    BY <1>1, <1>2 DEF Commanded
  <2>2. fewer \in Allowance
    BY <1>1, <2>1
  <2>3. budget' = [budget EXCEPT ![s] = fewer]
    BY <1>2 DEF Commanded
  <2> HIDE DEF fewer
  <2>4. QED
    BY <2>2, <2>3 DEF TypeOK
<1>3. CASE TakesTurn(s)
  <2>1. b.turns - 1 \in Nat
    BY <1>1, <1>3 DEF TakesTurn
  <2>2. rest \in Allowance
    BY <1>1, <2>1
  <2>3. budget' = [budget EXCEPT ![s] = rest]
    BY <1>3 DEF TakesTurn
  <2> HIDE DEF rest
  <2>4. QED
    BY <2>2, <2>3 DEF TypeOK
<1>4. QED
  BY <1>2, <1>3

\* A command that makes a good store of the surface's keeps the invariant.
LEMMA CommandKeeps ==
    ASSUME ChatInv, NEW s \in Surfaces, NEW changed, Good(changed, used),
           Command(s, changed)
    PROVE  ChatInv'
<1>1. budget' \in [Surfaces -> Allowance]
  BY BudgetType DEF ChatInv, Command
<1>2. /\ UNCHANGED <<up, turn, asked, used>> /\ Write(s, changed)
  BY DEF Command, Commanded
<1>3. QED
  BY <1>1, <1>2, WriteKeeps DEF ChatInv, TypeOK

\* What a surface holds is good, and the next chat has a number.
LEMMA HeldGood ==
    ASSUME ChatInv, NEW s \in Surfaces
    PROVE  /\ Good(mem[s], used) /\ mem[s] \in Store /\ made + 1 \in Nat
           /\ Log(mem[s]) \in Seq(Message)
<1>1. Good(mem[s], used)
  BY DEF ChatInv, SoundAll
<1>2. QED
  BY <1>1, LogType, BoundsAreNaturals DEF ChatInv, TypeOK

\* A message in the turn's name is one.
LEMMA SayGood ==
    ASSUME ChatInv, NEW s \in Surfaces, NEW n \in 0..MaxTurns,
           NEW role \in {"user", "assistant", "system"}
    PROVE  Good(AddMessage(mem[s], made + 1, [turn |-> n, role |-> role]), used)
<1>1. [turn |-> n, role |-> role] \in Message
  BY DEF Message
<1>2. QED
  BY <1>1, HeldGood, AddMessageGood

\* A question keeps the invariant.
LEMMA AskKeeps ==
    ASSUME ChatInv, NEW s \in Surfaces, Ask(s)  PROVE ChatInv'
<1>1. asked + 1 \in 0..MaxTurns
  BY BoundsAreNaturals DEF ChatInv, TypeOK, Ask
<1>2. Good(AddMessage(mem[s], made + 1, [turn |-> asked + 1, role |-> "user"]), used)
  BY <1>1, SayGood
<1>3. turn' \in [Surfaces -> Turn]
  BY <1>1 DEF ChatInv, TypeOK, Ask, Turn
<1>4. budget' \in [Surfaces -> Allowance]
  BY BudgetType DEF ChatInv, Ask
<1>5. QED
  BY <1>1, <1>2, <1>3, <1>4, WriteKeeps DEF ChatInv, TypeOK, Ask

\* The rest of a turn does.
LEMMA TurnKeeps ==
    ASSUME ChatInv, NEW s \in Surfaces, Answer(s) \/ Fail(s) \/ Notice(s) \/ EndTurn(s)
    PROVE  ChatInv'
<1>1. turn[s].n \in 0..MaxTurns /\ NoTurn \in Turn
  BY BoundsAreNaturals DEF ChatInv, TypeOK, Turn, NoTurn
<1>2. turn' \in [Surfaces -> Turn]
  <2>1. [turn[s] EXCEPT !.at = "answered"] \in Turn /\ [turn[s] EXCEPT !.at = "noticed"] \in Turn
    BY DEF ChatInv, TypeOK, Turn
  <2>2. QED
    BY <1>1, <2>1 DEF ChatInv, TypeOK, Answer, Fail, Notice, EndTurn
<1>3. UNCHANGED <<up, used, asked, budget>>
  BY DEF Answer, Fail, Notice, EndTurn
<1>4. CASE Answer(s) \/ Fail(s) \/ Notice(s)
  <2>1. PICK role \in {"assistant", "system"} : Say(s, role)
    BY <1>4 DEF Answer, Fail, Notice
  <2>2. Good(AddMessage(mem[s], made + 1, [turn |-> turn[s].n, role |-> role]), used)
    BY <1>1, SayGood
  <2>3. QED
    BY <1>2, <1>3, <2>1, <2>2, WriteKeeps DEF ChatInv, TypeOK, Say
<1>5. CASE EndTurn(s)
  <2>1. CASE s = Panel
    BY <1>2, <1>3, <1>5, <2>1, HeldGood, WriteKeeps DEF ChatInv, TypeOK, EndTurn
  <2>2. CASE s # Panel
    <3>1. UNCHANGED <<mem, stored, made, due, pulls, stale, up, used, asked, budget>>
      BY <1>5, <2>2 DEF EndTurn
    <3>2. TypeOK'
      BY <1>2, <3>1 DEF ChatInv, TypeOK
    <3>3. SoundAll' /\ Recent'
      BY <3>1 DEF ChatInv, SoundAll, Recent
    <3>4. Lockstep'
      BY <3>1 DEF ChatInv, Lockstep, InStep
    <3>5. QED
      BY <3>2, <3>3, <3>4 DEF ChatInv
  <2>3. QED
    BY <2>1, <2>2
<1>6. QED
  BY <1>4, <1>5

\* Regenerating does.
LEMMA RegenerateKeeps ==
    ASSUME ChatInv, NEW s \in Surfaces, NEW k, NEW mode, Regenerate(s, k, mode)
    PROVE  ChatInv'
<1>1. k \in 1..Len(Log(mem[s])) /\ Questions(mem[s], k) # {}
  BY DEF Regenerate
<1>2. mem[s].active \in Sessions
  BY <1>1 DEF Log
<1>3. Good(Prepared(s, k, mode), used)
  BY <1>1, <1>2, HeldGood, RegeneratedGood DEF Prepared
<1>4. Log(mem[s])[First(Questions(mem[s], k))].turn \in 0..MaxTurns
  <2>1. First(Questions(mem[s], k)) \in 1..Len(Log(mem[s]))
    BY <1>1, HeldGood, QuestionInLog
  <2>2. Log(mem[s])[First(Questions(mem[s], k))] \in Message
    BY <2>1, HeldGood
  <2>3. QED
    BY <2>2 DEF Message
<1>5. turn' \in [Surfaces -> Turn]
  <2>1. [n |-> Log(mem[s])[First(Questions(mem[s], k))].turn, at |-> "waiting"] \in Turn
    BY <1>4 DEF Turn
  <2>2. turn' = turn \/ turn' = [turn EXCEPT ![s] =
            [n |-> Log(mem[s])[First(Questions(mem[s], k))].turn, at |-> "waiting"]]
    BY DEF Regenerate, Commanded
  <2>3. QED
    BY <2>1, <2>2 DEF ChatInv, TypeOK
<1>6. budget' \in [Surfaces -> Allowance]
  BY BudgetType DEF ChatInv, Regenerate
<1>7. UNCHANGED <<up, asked, used>> /\ Write(s, Prepared(s, k, mode))
  BY DEF Regenerate, Commanded
<1>8. QED
  BY <1>3, <1>5, <1>6, <1>7, WriteKeeps DEF ChatInv, TypeOK

\* The refusal to regenerate does.
LEMMA RefuseKeeps ==
    ASSUME ChatInv, NEW s \in Surfaces, NEW k, RefuseRegeneration(s, k)
    PROVE  ChatInv'
<1>1. k \in 1..Len(Log(mem[s]))
  BY DEF RefuseRegeneration
<1>2. Log(mem[s])[k] \in Message
  BY <1>1, HeldGood
<1>3. Log(mem[s])[k].turn \in 0..MaxTurns
  BY <1>2 DEF Message
<1>4. QED
  BY <1>3, SayGood, CommandKeeps DEF RefuseRegeneration

\* The commands of both surfaces do.
LEMMA EditKeeps ==
    ASSUME ChatInv, NEW s \in Surfaces, Edit(s)  PROVE ChatInv'
<1>1. CASE Touch(s)
  BY <1>1, HeldGood, CommandKeeps DEF Touch
<1>2. CASE NewChat(s)
  BY <1>2, HeldGood, CreateSessionGood, CommandKeeps DEF NewChat
<1>3. ASSUME NEW i \in Sessions, Switch(s, i)  PROVE ChatInv'
  <2>1. i \in Nat
    BY DEF Sessions
  <2>2. QED
    BY <1>3, <2>1, HeldGood, ActiveGood, CommandKeeps DEF Switch, SwitchSession
<1>4. ASSUME NEW k \in 1..Len(Log(mem[s])), ForkMessage(s, k)  PROVE ChatInv'
  BY <1>4, HeldGood, ForkedGood, CommandKeeps DEF ForkMessage
<1>5. ASSUME NEW k \in 1..Len(Log(mem[s])), EraseMessage(s, k)  PROVE ChatInv'
  BY <1>5, HeldGood, DeleteMessageGood, CommandKeeps DEF EraseMessage
<1>6. QED
  BY <1>1, <1>2, <1>3, <1>4, <1>5 DEF Edit

\* A new project and a new folder do.
LEMMA NewKeeps ==
    ASSUME ChatInv, NEW p \in Projects
    PROVE  /\ NewProject(p) => ChatInv'
           /\ \A f \in Folders : NewFolder(f, p) => ChatInv'
<1> Main \in Surfaces
  BY DEF Surfaces
<1>1. CASE NewProject(p)
  <2>1. Good(SetProject(mem[Main], p, "live"), used)
    BY HeldGood, ProjectGood
  <2>2. Good(SetProject(mem[Main], p, "live"), used')
    BY <1>1, <2>1 DEF Good, NewProject
  <2>3. budget' \in [Surfaces -> Allowance]
    BY <1>1, BudgetType DEF ChatInv, NewProject
  <2>4. used \subseteq used' /\ used' \in SUBSET (Projects \cup Folders)
    BY <1>1 DEF ChatInv, TypeOK, NewProject
  <2>5. QED
    BY <1>1, <2>2, <2>3, <2>4, WriteKeeps DEF ChatInv, TypeOK, NewProject, Commanded
<1>2. ASSUME NEW f \in Folders, NewFolder(f, p)  PROVE ChatInv'
  <2>1. Good(CreateFolder(mem[Main], f, p), used')
    BY <1>2, HeldGood, CreatedFolderGood DEF NewFolder
  <2>2. budget' \in [Surfaces -> Allowance]
    BY <1>2, BudgetType DEF ChatInv, NewFolder
  <2>3. used \subseteq used' /\ used' \in SUBSET (Projects \cup Folders)
    BY <1>2 DEF ChatInv, TypeOK, NewFolder
  <2>4. QED
    BY <1>2, <2>1, <2>2, <2>3, WriteKeeps DEF ChatInv, TypeOK, NewFolder, Commanded
<1>3. QED
  BY <1>1, <1>2

\* The commands of the main workspace do.
LEMMA OrganiseKeeps ==
    ASSUME ChatInv, Organise  PROVE ChatInv'
<1> Main \in Surfaces
  BY DEF Surfaces
<1>1. ASSUME NEW i \in Sessions, ForkChat(i) \/ EraseChat(i)  PROVE ChatInv'
  BY <1>1, HeldGood, ForkedGood, DeletedGood, CommandKeeps DEF ForkChat, EraseChat
<1>2. ASSUME NEW i \in Sessions, NEW b \in BOOLEAN, ArchiveChat(i, b)  PROVE ChatInv'
  BY <1>2, HeldGood, ArchivedGood, CommandKeeps DEF ArchiveChat
<1>3. ASSUME NEW i \in Sessions, NEW p \in Projects \cup {None}, MoveChat(i, p)
      PROVE  ChatInv'
  BY <1>3, HeldGood, MovedGood, CommandKeeps DEF MoveChat
<1>4. ASSUME NEW i \in Sessions, NEW f \in Folders \cup {None}, FileChat(i, f)
      PROVE  ChatInv'
  BY <1>4, HeldGood, FiledGood, CommandKeeps DEF FileChat
<1>5. ASSUME NEW p \in Projects, EraseProject(p)  PROVE ChatInv'
  BY <1>5, HeldGood, DeletedProjectGood, CommandKeeps DEF EraseProject
<1>6. ASSUME NEW p \in Projects, NEW b \in BOOLEAN, ArchiveProject(p, b)  PROVE ChatInv'
  BY <1>6, HeldGood, ProjectGood, CommandKeeps DEF ArchiveProject
<1>7. ASSUME NEW f \in Folders, EraseFolder(f)  PROVE ChatInv'
  BY <1>7, HeldGood, DeletedFolderGood, CommandKeeps DEF EraseFolder
<1>8. QED
  BY <1>1, <1>2, <1>3, <1>4, <1>5, <1>6, <1>7, NewKeeps DEF Organise

-----------------------------------------------------------------------------
\* ensureSession leaves a live chat active, if its number is within the bound.
LEMMA EnsuredActive ==
    ASSUME NEW m \in Loose, NEW n \in 1..(MaxSessions + 1),
           Ensured(m, n).active \in 0..MaxSessions
    PROVE  Ensured(m, n).active \in Live(Ensured(m, n))
<1>1. CASE Live(m) = {}
  <2>1. Ensured(m, n) = Started(m, n)
    BY <1>1 DEF Ensured
  <2>2. /\ Started(m, n).active = n
        /\ n \in Sessions => Started(m, n).sessions[n].state = "live"
    BY DEF Started, Opened, Loose
  <2>3. n \in Sessions
    BY <2>1, <2>2, BoundsAreNaturals DEF Sessions
  <2>4. QED
    BY <2>1, <2>2, <2>3 DEF Live
<1>2. CASE Live(m) # {} /\ m.active \in Live(m)
  BY <1>2 DEF Ensured
<1>3. CASE Live(m) # {} /\ m.active \notin Live(m)
  <2> DEFINE f == First(Live(m))
  <2>1. Live(m) \in SUBSET (0..MaxSessions) /\ MaxSessions \in Nat
    BY BoundsAreNaturals DEF Live, Sessions
  <2>2. f \in Live(m)
    BY <1>3, <2>1, FirstIsNewest
  <2> HIDE DEF f
  <2>3. /\ [m EXCEPT !.active = f].active = f
        /\ [m EXCEPT !.active = f].sessions = m.sessions
    BY DEF Loose
  <2>4. QED
    BY <1>3, <2>2, <2>3 DEF Ensured, Live, f
<1>4. QED
  BY <1>1, <1>2, <1>3

\* The end of hydrate keeps the active chat and which chats are live.
LEMMA CleanedLive ==
    ASSUME NEW m \in Loose
    PROVE  Cleaned(m).active = m.active /\ Live(Cleaned(m)) = Live(m)
<1> DEFINE live(p) == p # None /\ m.projects[p] = "live"
           kept(f) == /\ m.folders[f].there
                      /\ m.folders[f].project = None \/ live(m.folders[f].project)
           project(p) == IF live(p) THEN p ELSE None
           folder(f) == IF f # None /\ kept(f) THEN f ELSE None
           ss == [i \in Sessions |->
                     [m.sessions[i] EXCEPT !.project = project(@), !.folder = folder(@)]]
           fs == [f \in Folders |-> IF kept(f) THEN m.folders[f] ELSE NoFolder]
           o == [m EXCEPT !.sessions = ss, !.folders = fs]
<1>1. \A i \in Sessions : ss[i].state = m.sessions[i].state
  BY DEF Loose, Session
<1> HIDE DEF ss, fs
<1>2. o.sessions = ss /\ o.active = m.active
  BY DEF Loose
<1> HIDE DEF o
<1>3. o.active = m.active /\ Live(o) = Live(m)
  BY <1>1, <1>2 DEF Live
<1>4. QED
  BY <1>3 DEF Cleaned, o, ss, fs

\* What hydrate or ensureSession made needs no ensureSession any more.
LEMMA EnsuredTwice ==
    ASSUME NEW u, NEW m, Good(m, u), NEW n \in 1..(MaxSessions + 1), NEW k,
           NEW x \in {Hydrated(m, n), Ensured(m, n)}, x.active \in 0..MaxSessions
    PROVE  Ensured(x, k) = x
<1> DEFINE e == Ensured(m, n)
<1>1. n \in Nat /\ m \in Loose
  BY BoundsAreNaturals DEF Good
<1>2. e \in Loose
  BY <1>1, EnsuredGood DEF Good
<1>3. Cleaned(e).active = e.active /\ Live(Cleaned(e)) = Live(e)
  BY <1>2, CleanedLive
<1>4. x = Cleaned(e) \/ x = e
  BY DEF Hydrated
<1>5. e.active \in 0..MaxSessions
  BY <1>3, <1>4
<1>6. e.active \in Live(e)
  BY <1>1, <1>5, EnsuredActive
<1> HIDE DEF e
<1>7. x.active \in Live(x)
  BY <1>3, <1>4, <1>6
<1>8. QED
  BY <1>7 DEF Ensured

-----------------------------------------------------------------------------
\* Opening and closing a surface keep the invariant.
LEMMA OpenCloseKeeps ==
    ASSUME ChatInv, NEW s \in Surfaces, Open(s) \/ Close(s)  PROVE ChatInv'
<1>1. CASE Open(s)
  <2> DEFINE b == budget[s]
             fewer == [b EXCEPT !.openings = @ - 1]
  <2>1. budget' \in [Surfaces -> Allowance]
    <3>1. b \in Allowance
      BY DEF ChatInv, TypeOK
    <3>2. b.openings - 1 \in Nat
      BY <1>1, <3>1 DEF Open, Allowance
    <3>3. fewer \in Allowance
      BY <3>1, <3>2 DEF Allowance
    <3>4. budget' = [budget EXCEPT ![s] = fewer]
      BY <1>1 DEF Open
    <3> HIDE DEF fewer
    <3>5. QED
      BY <3>3, <3>4 DEF ChatInv, TypeOK
  <2>2. /\ UNCHANGED <<mem, stored, pulls, stale, turn, made, used, asked>>
        /\ up' = [up EXCEPT ![s] = "starting"] /\ due' = [due EXCEPT ![s] = {"boot"}]
        /\ up[s] = "closed"
    BY <1>1 DEF Open
  <2>3. TypeOK'
    BY <2>1, <2>2 DEF ChatInv, TypeOK
  <2>4. SoundAll'
    BY <2>2 DEF ChatInv, SoundAll
  <2>5. Recent'
    BY <2>2 DEF ChatInv, TypeOK, Recent
  <2>6. Lockstep'
    BY <2>2 DEF ChatInv, TypeOK, Lockstep, InStep
  <2>7. QED
    BY <2>3, <2>4, <2>5, <2>6 DEF ChatInv
<1>2. CASE Close(s)
  <2>1. /\ UNCHANGED <<stored, made, used, asked, budget>>
        /\ up' = [up EXCEPT ![s] = "closed"] /\ mem' = [mem EXCEPT ![s] = Blank]
        /\ due' = [due EXCEPT ![s] = {}] /\ pulls' = [pulls EXCEPT ![s] = <<>>]
        /\ stale' = [stale EXCEPT ![s] = FALSE] /\ turn' = [turn EXCEPT ![s] = NoTurn]
    BY <1>2 DEF Close
  <2>2. Blank \in Store /\ <<>> \in Seq(Pull) /\ NoTurn \in Turn
    BY BlankType, BoundsAreNaturals DEF NoTurn, Turn
  <2>3. TypeOK'
    BY <2>1, <2>2 DEF ChatInv, TypeOK
  <2>4. Good(Blank, used)
    BY <2>2, BlankSound, LooseStore DEF Good, Blank, NoFolder
  <2>5. SoundAll'
    BY <2>1, <2>4 DEF ChatInv, TypeOK, SoundAll
  <2>6. Recent'
    BY <2>1 DEF ChatInv, TypeOK, Recent
  <2>7. Lockstep'
    BY <2>1 DEF ChatInv, TypeOK, Lockstep, InStep
  <2>8. QED
    BY <2>3, <2>5, <2>6, <2>7 DEF ChatInv
<1>3. QED
  BY <1>1, <1>2

\* Asking the storage does.
LEMMA ReadKeeps ==
    ASSUME ChatInv, NEW s \in Surfaces, NEW why \in {"boot", "change"}, NEW failed \in BOOLEAN,
           Read(s, why, failed)
    PROVE  ChatInv'
<1> DEFINE q == pulls[s]
           new == [snap |-> IF failed THEN Blank ELSE stored,
                   boot |-> why = "boot", behind |-> failed]
           r == Append(q, new)
<1>1. /\ UNCHANGED <<mem, stored, up, stale, turn, made, used, asked, budget>>
      /\ due' = [due EXCEPT ![s] = @ \ {why}] /\ pulls' = [pulls EXCEPT ![s] = r]
      /\ why \in due[s]
  BY DEF Read
<1>2. /\ new \in Pull /\ q \in Seq(Pull) /\ Good(new.snap, used)
      /\ ~ new.behind => new.snap = stored
  <2>1. new \in Pull /\ q \in Seq(Pull)
    BY BlankType DEF ChatInv, TypeOK, Pull
  <2>2. new.snap \in {Blank, stored} /\ (~ new.behind => new.snap = stored)
    OBVIOUS
  <2>3. Good(new.snap, used)
    BY <2>2, BlankGood DEF ChatInv, SoundAll
  <2>4. QED
    BY <2>1, <2>2, <2>3
<1> HIDE DEF new, q
<1>3. /\ r \in Seq(Pull) /\ r # <<>> /\ r[Len(r)] = new
      /\ \A j \in DOMAIN r : r[j] = new \/ (j \in DOMAIN q /\ r[j] = q[j])
  BY <1>2
<1> HIDE DEF r
<1>4. TypeOK'
  BY <1>1, <1>3 DEF ChatInv, TypeOK
<1>5. SoundAll'
  BY <1>1, <1>2, <1>3 DEF ChatInv, TypeOK, SoundAll, q
<1>6. up[s] # "closed"
  BY <1>1 DEF ChatInv, TypeOK, Recent
<1>7. Recent'
  BY <1>1, <1>2, <1>3, <1>6 DEF ChatInv, TypeOK, Recent
<1>8. Lockstep'
  BY <1>1, <1>3 DEF ChatInv, TypeOK, Lockstep, InStep
<1>9. QED
  BY <1>4, <1>5, <1>7, <1>8 DEF ChatInv

\* Taking in what the storage answered does.  A surface that is in step after
\* it took in its newest read, which is the storage as it is.
LEMMA AssignKeeps ==
    ASSUME ChatInv, NEW s \in Surfaces, Assign(s)  PROVE ChatInv'
<1> DEFINE q == pulls[s]
           pull == Head(q)
           m == Hydrated(pull.snap, made + 1)
<1>1. q \in Seq(Pull) /\ q # <<>> /\ made \in Nat /\ MaxSessions \in Nat
  BY BoundsAreNaturals DEF ChatInv, TypeOK, Assign
<1>2. /\ pull \in Pull /\ Tail(q) \in Seq(Pull) /\ pull = q[1] /\ 1 \in DOMAIN q
      /\ Len(q) \in Nat /\ Len(q) > 0
      /\ Tail(q) = <<>> => Len(q) = 1
      /\ Tail(q) # <<>> => Tail(q)[Len(Tail(q))] = q[Len(q)]
      /\ \A j \in DOMAIN Tail(q) : j + 1 \in DOMAIN q /\ Tail(q)[j] = q[j + 1]
  <2> HIDE DEF q
  <2>1. /\ Len(q) \in Nat /\ Len(q) > 0 /\ DOMAIN q = 1..Len(q)
        /\ Tail(q) \in Seq(Pull) /\ Len(Tail(q)) = Len(q) - 1
        /\ pull = q[1] /\ q[1] \in Pull
    BY <1>1
  <2>2. \A j \in 1..(Len(q) - 1) : Tail(q)[j] = q[j + 1]
    BY <1>1
  <2>3. DOMAIN Tail(q) = 1..(Len(q) - 1)
    BY <2>1
  <2>4. Tail(q) = <<>> => Len(q) = 1
    <3>1. \A r \in Seq(Pull) : r = <<>> => Len(r) = 0
      OBVIOUS
    <3> DEFINE t == Tail(q)
               k == Len(q)
               l == Len(t)
    <3>2. t \in Seq(Pull) /\ k \in Nat /\ l = k - 1
      BY <2>1
    <3>3. t = <<>> => l = 0
      BY <3>1, <3>2, Zenon
    <3> HIDE DEF t, k, l
    <3>4. l = 0 => k = 1
      BY <3>2
    <3>5. QED
      BY <3>3, <3>4, Zenon DEF t, k
  <2>5. Tail(q) # <<>> => Len(q) - 1 \in 1..(Len(q) - 1)
    BY <2>1
  <2>6. QED
    BY <2>1, <2>2, <2>3, <2>4, <2>5
<1>3. Good(m, used)
  <2>1. Good(pull.snap, used)
    BY <1>2 DEF ChatInv, SoundAll
  <2>2. made + 1 \in Nat
    BY <1>1
  <2>3. QED
    BY <2>1, <2>2, HydratedGood
<1>4. /\ m.active \in Sessions /\ mem' = [mem EXCEPT ![s] = m]
      /\ made' = IF m.active > made THEN m.active ELSE made
      /\ stale' = [stale EXCEPT ![s] = pull.behind]
      /\ pulls' = [pulls EXCEPT ![s] = Tail(q)]
      /\ UNCHANGED <<stored, due, turn, used, asked, budget>>
  BY DEF Assign, Hold
<1>5. /\ up' \in [Surfaces -> {"closed", "starting", "greeting", "up"}]
      /\ up'[s] # "closed" /\ \A t \in Surfaces \ {s} : up'[t] = up[t]
  <2>1. up[s] # "closed"
    BY <1>1 DEF ChatInv, Recent
  <2>2. QED
    BY <2>1 DEF ChatInv, TypeOK, Assign
<1>6. Len(q) = 1 /\ "change" \notin due[s] /\ ~ pull.behind => m = Hydrated(stored, made + 1)
  BY <1>1, <1>2 DEF ChatInv, Recent
<1> HIDE DEF m, pull, q
<1>7. m \in Store
  BY <1>3, <1>4, LooseStore DEF Good
<1>8. made' \in 0..MaxSessions
  BY <1>1, <1>4 DEF ChatInv, TypeOK, Sessions
<1>9. pull.behind \in BOOLEAN
  BY <1>2 DEF Pull
<1>10. TypeOK'
  BY <1>2, <1>4, <1>5, <1>7, <1>8, <1>9 DEF ChatInv, TypeOK
<1>11. SoundAll'
  <2>1. \A j \in DOMAIN Tail(q) : Good(Tail(q)[j].snap, used)
    BY <1>2 DEF ChatInv, SoundAll, q
  <2>2. QED
    BY <1>3, <1>4, <2>1 DEF ChatInv, TypeOK, SoundAll
<1>12. Recent'
  <2>1. Tail(q) # <<>> /\ "change" \notin due[s] /\ ~ Tail(q)[Len(Tail(q))].behind
          => Tail(q)[Len(Tail(q))].snap = stored
    BY <1>1, <1>2 DEF ChatInv, Recent, q
  <2>2. QED
    BY <1>4, <1>5, <2>1 DEF ChatInv, TypeOK, Recent
<1>13. Lockstep'
  <2>1. made + 1 \in 1..(MaxSessions + 1)
    BY <1>1 DEF ChatInv, TypeOK
  <2>2. ASSUME NEW t \in Surfaces, t # s, InStep(t)'
        PROVE  InStep(t) /\ mem'[t] = mem[t]
    BY <1>4, <1>5, <2>2 DEF ChatInv, TypeOK, InStep
  <2>3. ASSUME InStep(s)'  PROVE mem'[s] = Hydrated(stored, made + 1)
    <3>1. Len(q) = 1 /\ due[s] = {} /\ ~ pull.behind
      BY <1>2, <1>4, <2>3 DEF ChatInv, TypeOK, InStep
    <3>2. QED
      BY <1>4, <1>6, <3>1 DEF ChatInv, TypeOK
  <2>4. QED
    BY <1>4, <2>1, <2>2, <2>3 DEF ChatInv, Lockstep
<1>14. QED
  BY <1>10, <1>11, <1>12, <1>13 DEF ChatInv

\* The end of the main workspace's start does.
LEMMA GreetKeeps ==
    ASSUME ChatInv, NEW s \in Surfaces, Greet(s) \/ FollowDeepLink(s)  PROVE ChatInv'
<1> DEFINE m == Ensured(mem[s], made + 1)
<1>1. /\ up' = [up EXCEPT ![s] = "up"] /\ up[s] = "greeting"
      /\ UNCHANGED <<turn, used, asked, budget>>
  BY DEF Greet, FollowDeepLink
<1>2. /\ up' \in [Surfaces -> {"closed", "starting", "greeting", "up"}]
      /\ \A t \in Surfaces : up'[t] = "closed" <=> up[t] = "closed"
  BY <1>1 DEF ChatInv, TypeOK
<1>3. Good(m, used) /\ Good(CreateSession(m, made + 1), used)
  BY HeldGood, EnsuredGood, CreateSessionGood
<1>4. ASSUME UNCHANGED <<mem, stored, due, pulls, stale, made>>  PROVE ChatInv'
  <2>1. TypeOK'
    BY <1>1, <1>2, <1>4 DEF ChatInv, TypeOK
  <2>2. SoundAll' /\ Recent'
    BY <1>1, <1>2, <1>4 DEF ChatInv, SoundAll, Recent
  <2>3. Lockstep'
    BY <1>2, <1>4 DEF ChatInv, Lockstep, InStep
  <2>4. QED
    BY <2>1, <2>2, <2>3 DEF ChatInv
<1>5. CASE FollowDeepLink(s)
  BY <1>4, <1>5 DEF FollowDeepLink
<1>6. CASE Greet(s) /\ Log(m) # <<>>
  <2>1. Write(s, CreateSession(m, made + 1))
    BY <1>6 DEF Greet
  <2>2. QED
    BY <1>1, <1>2, <1>3, <2>1, WriteKeeps DEF ChatInv, TypeOK
<1>7. CASE Greet(s) /\ Log(m) = <<>>
  <2>1. /\ m.active \in Sessions /\ mem' = [mem EXCEPT ![s] = m]
        /\ made' = IF m.active > made THEN m.active ELSE made
        /\ UNCHANGED <<stored, due, pulls, stale>>
    BY <1>7 DEF Greet, Hold
  <2>2. made \in Nat /\ MaxSessions \in Nat /\ made \in 0..MaxSessions
    BY BoundsAreNaturals DEF ChatInv, TypeOK
  <2>3. ASSUME InStep(s)
        PROVE  \/ m = Ensured(stored, made + 1)
               \/ \E n \in 1..(MaxSessions + 1) :
                      m \in {Hydrated(stored, n), Ensured(stored, n)}
    <3>1. CASE mem[s] = stored
      BY <3>1
    <3>2. CASE mem[s] # stored
      <4>1. PICK n \in 1..(MaxSessions + 1) :
                    mem[s] \in {Hydrated(stored, n), Ensured(stored, n)}
        BY <2>3, <3>2 DEF ChatInv, Lockstep
      <4>2. mem[s].active \in 0..MaxSessions /\ Good(stored, used)
        BY DEF ChatInv, TypeOK, SoundAll, Store
      <4>3. m = mem[s]
        BY <4>1, <4>2, EnsuredTwice
      <4>4. QED
        BY <4>1, <4>3
    <3>3. QED
      BY <3>1, <3>2
  <2> HIDE DEF m
  <2>4. m \in Store
    BY <1>3, <2>1, LooseStore DEF Good
  <2>5. TypeOK'
    <3>1. made' \in 0..MaxSessions
      BY <2>1, <2>2 DEF Sessions
    <3>2. QED
      BY <1>1, <1>2, <2>1, <2>4, <3>1 DEF ChatInv, TypeOK
  <2>6. SoundAll' /\ Recent'
    BY <1>1, <1>2, <1>3, <2>1 DEF ChatInv, TypeOK, SoundAll, Recent
  <2>7. Lockstep'
    <3>1. made + 1 \in 1..(MaxSessions + 1)
      BY <2>2
    <3>2. ASSUME NEW t \in Surfaces, InStep(t)'
          PROVE  InStep(t) /\ mem'[t] = IF t = s THEN m ELSE mem[t]
      BY <1>2, <2>1, <3>2 DEF ChatInv, TypeOK, InStep
    <3>3. QED
      BY <2>1, <2>3, <3>1, <3>2 DEF ChatInv, Lockstep
  <2>8. QED
    BY <2>5, <2>6, <2>7 DEF ChatInv
<1>8. QED
  BY <1>5, <1>6, <1>7

-----------------------------------------------------------------------------
\* The start has the invariant.
LEMMA InitHasIt == Init => ChatInv
<1> SUFFICES ASSUME Init  PROVE ChatInv
  OBVIOUS
<1>1. stored \in Store /\ Sound(stored)
  BY StoredAreStores, StoredIsSound DEF Init
<1>2. Blank \in Store /\ Sound(Blank) /\ NoTurn \in Turn /\ <<>> \in Seq(Pull)
  BY BlankType, BlankSound, BoundsAreNaturals DEF NoTurn, Turn
<1>3. made \in 0..MaxSessions
  <2> DEFINE S == Present(stored) \cup {0}
  <2>1. MaxSessions \in Nat
    BY BoundsAreNaturals
  <2>2. S \in SUBSET (0..MaxSessions) /\ S # {}
    BY <2>1 DEF Present, Sessions
  <2> HIDE DEF S
  <2>3. First(S) \in S
    BY <2>1, <2>2, FirstIsNewest
  <2>4. QED
    BY <2>2, <2>3 DEF Init, S
<1>4. TypeOK
  BY <1>1, <1>2, <1>3, BoundsAreNaturals, LimitsAreNaturals DEF Init, TypeOK, Surfaces
<1>5. Good(stored, used)
  BY <1>1, LooseStore DEF Good, Init
<1>6. Good(Blank, used)
  BY <1>2, LooseStore DEF Good, Blank, NoFolder
<1>7. SoundAll
  <2>1. ASSUME NEW s \in Surfaces  PROVE mem[s] = Blank /\ DOMAIN pulls[s] = {}
    BY DEF Init
  <2>2. QED
    BY <1>5, <1>6, <2>1 DEF SoundAll
<1>8. Recent /\ Lockstep
  BY DEF Init, Recent, Lockstep, InStep
<1>9. QED
  BY <1>4, <1>7, <1>8 DEF ChatInv

\* Every step keeps it.
LEMMA StepKeeps == ChatInv /\ [Next]_vars => ChatInv'
<1> SUFFICES ASSUME ChatInv, [Next]_vars  PROVE ChatInv'
  OBVIOUS
<1>1. ASSUME NEW s \in Surfaces, Sync(s)  PROVE ChatInv'
  BY <1>1, AssignKeeps, ReadKeeps DEF Sync
<1>2. ASSUME NEW s \in Surfaces, Talk(s)  PROVE ChatInv'
  BY <1>2, AskKeeps, TurnKeeps, RefuseKeeps, RegenerateKeeps DEF Talk
<1>3. CASE UNCHANGED vars
  <2>1. TypeOK'
    BY <1>3 DEF ChatInv, TypeOK, vars
  <2>2. SoundAll' /\ Recent'
    BY <1>3 DEF ChatInv, SoundAll, Recent, vars
  <2>3. Lockstep'
    BY <1>3 DEF ChatInv, Lockstep, InStep, vars
  <2>4. QED
    BY <2>1, <2>2, <2>3 DEF ChatInv
<1>4. QED
  BY <1>1, <1>2, <1>3, OpenCloseKeeps, GreetKeeps, EditKeeps, OrganiseKeeps DEF Next

\* The invariant the others follow from: good stores everywhere, and a newest
\* read that is the storage as it is unless the surface behind since or has a
\* change to take in.
THEOREM ChatInvariant == Spec => []ChatInv
BY InitHasIt, StepKeeps, PTL DEF Spec

\* The variables of the two surfaces keep their types.
THEOREM ChatTypeCorrect == Spec => []TypeOK
<1>1. ChatInv => TypeOK
  BY DEF ChatInv
<1>2. QED
  BY <1>1, ChatInvariant, PTL

\* No chat, folder or project of a surface, of the storage or of a read under
\* way points at a parent that is not there, whatever the surfaces interleave.
THEOREM TreeSound == Spec => []TreeIsSound
<1>1. ChatInv => TreeIsSound
  BY DEF ChatInv, SoundAll, Good, TreeIsSound
<1>2. QED
  BY <1>1, ChatInvariant, PTL

\* A surface with nothing to take in holds what the storage holds, or what
\* hydrate and ensureSession make of it.
THEOREM SurfacesInLockstep == Spec => []Lockstep
<1>1. ChatInv => Lockstep
  BY DEF ChatInv
<1>2. QED
  BY <1>1, ChatInvariant, PTL

-----------------------------------------------------------------------------
(* No write of a surface in step loses a chat or a message.                  *)

\* The chats and messages of m are in o.
Keeps(m, o) ==
    \A i \in Present(m) :
        /\ o.sessions[i].state # "absent"
        /\ \A j \in DOMAIN m.sessions[i].log :
            \E k \in DOMAIN o.sessions[i].log : o.sessions[i].log[k] = m.sessions[i].log[j]

\* The chats of o are chats of m, or not newer than the active one.
Grows(m, o) == \A i \in Present(o) : i \in Present(m) \/ i <= o.active

\* No chat is newer than k.
Numbered(m, k) == \A i \in Present(m) : i <= k

AllNumbered ==
    /\ Numbered(stored, made)
    /\ \A s \in Surfaces : /\ Numbered(mem[s], made)
                           /\ \A j \in DOMAIN pulls[s] : Numbered(pulls[s][j].snap, made)

\* A surface in step holds everything the storage holds.
Complete == \A s \in Surfaces : InStep(s) => Keeps(stored, mem[s])

\* Only an open surface is in a turn.
Awake == \A s \in Surfaces : turn[s].at # "idle" => up[s] # "closed"

LossInv == ChatInv /\ AllNumbered /\ Complete /\ Awake

\* Keeping is an order.
LEMMA KeepsIsOrder ==
    /\ \A m : Keeps(m, m)
    /\ \A m, o, q : Keeps(m, o) /\ Keeps(o, q) => Keeps(m, q)
<1>1. ASSUME NEW m  PROVE Keeps(m, m)
  BY DEF Keeps, Present
<1>2. ASSUME NEW m, NEW o, NEW q, Keeps(m, o), Keeps(o, q)  PROVE Keeps(m, q)
  <2> SUFFICES ASSUME NEW i \in Present(m)
               PROVE  /\ q.sessions[i].state # "absent"
                      /\ \A j \in DOMAIN m.sessions[i].log :
                           \E k \in DOMAIN q.sessions[i].log :
                               q.sessions[i].log[k] = m.sessions[i].log[j]
    BY DEF Keeps
  <2>1. i \in Present(o)
    BY <1>2 DEF Keeps, Present
  <2>2. QED
    BY <1>2, <2>1 DEF Keeps
<1>3. QED
  BY <1>1, <1>2

\* A store with the same transcripts keeps all.
LEMMA SameLogsKeep ==
    ASSUME NEW m, NEW o,
           \A i \in Sessions : /\ o.sessions[i].log = m.sessions[i].log
                               /\ o.sessions[i].state = "absent" <=> m.sessions[i].state = "absent"
    PROVE  Keeps(m, o) /\ Grows(m, o)
BY DEF Keeps, Grows, Present

\* Making a chat does, if its number is new.
LEMMA OpenedKeeps ==
    ASSUME NEW m \in Loose, NEW n \in Nat, NEW p, NEW log
    PROVE  /\ Grows(m, Opened(m, n, p, log))
           /\ n \notin Present(m) => Keeps(m, Opened(m, n, p, log))
<1> DEFINE c == [state |-> "live", project |-> p, folder |-> None, log |-> log]
           ss == [i \in Sessions |-> IF i = n THEN c ELSE m.sessions[i]]
           o == [m EXCEPT !.sessions = ss, !.active = n]
<1>1. o.sessions = ss /\ o.active = n
  BY DEF Loose
<1>2. \A i \in Sessions : ss[i] = IF i = n THEN c ELSE m.sessions[i]
  OBVIOUS
<1> HIDE DEF ss, c, o
<1>3. Grows(m, o)
  BY <1>1, <1>2 DEF Grows, Present, Sessions
<1>4. n \notin Present(m) => Keeps(m, o)
  BY <1>1, <1>2 DEF Keeps, Present
<1>5. QED
  BY <1>3, <1>4 DEF Opened, o, ss, c

\* So does starting with a blank chat.
LEMMA StartedKeeps ==
    ASSUME NEW m \in Loose, NEW n \in Nat
    PROVE  Grows(m, Started(m, n)) /\ (n \notin Present(m) => Keeps(m, Started(m, n)))
BY OpenedKeeps DEF Started

\* Making another chat the active one does.
LEMMA ActiveKeeps ==
    ASSUME NEW m \in Loose, NEW k
    PROVE  Keeps(m, [m EXCEPT !.active = k]) /\ Grows(m, [m EXCEPT !.active = k])
<1>1. [m EXCEPT !.active = k].sessions = m.sessions
  BY DEF Loose
<1>2. QED
  BY <1>1, SameLogsKeep

\* ensureSession does.
LEMMA EnsuredKeeps ==
    ASSUME NEW m \in Loose, NEW n \in Nat
    PROVE  Grows(m, Ensured(m, n)) /\ (n \notin Present(m) => Keeps(m, Ensured(m, n)))
<1>1. CASE Live(m) = {}
  BY <1>1, StartedKeeps DEF Ensured
<1>2. CASE Live(m) # {} /\ m.active \in Live(m)
  BY <1>2, KeepsIsOrder DEF Ensured, Grows
<1>3. CASE Live(m) # {} /\ m.active \notin Live(m)
  BY <1>3, ActiveKeeps DEF Ensured
<1>4. QED
  BY <1>1, <1>2, <1>3

\* And the cleaning of hydrate.
LEMMA CleanedKeeps ==
    ASSUME NEW m \in Loose
    PROVE  Keeps(m, Cleaned(m)) /\ Grows(m, Cleaned(m)) /\ Present(Cleaned(m)) = Present(m)
<1> DEFINE live(p) == p # None /\ m.projects[p] = "live"
           kept(f) == /\ m.folders[f].there
                      /\ m.folders[f].project = None \/ live(m.folders[f].project)
           project(p) == IF live(p) THEN p ELSE None
           folder(f) == IF f # None /\ kept(f) THEN f ELSE None
           ss == [i \in Sessions |->
                     [m.sessions[i] EXCEPT !.project = project(@), !.folder = folder(@)]]
           fs == [f \in Folders |-> IF kept(f) THEN m.folders[f] ELSE NoFolder]
           o == [m EXCEPT !.sessions = ss, !.folders = fs]
<1>1. ASSUME NEW i \in Sessions
      PROVE  ss[i].log = m.sessions[i].log /\ ss[i].state = m.sessions[i].state
  BY DEF Loose, Session
<1>2. o.sessions = ss
  BY DEF Loose
<1>3. o = Cleaned(m)
  BY DEF Cleaned
<1> HIDE DEF ss, o
<1>4. \A i \in Sessions : /\ o.sessions[i].log = m.sessions[i].log
                          /\ o.sessions[i].state = m.sessions[i].state
  BY <1>1, <1>2
<1>5. Present(o) = Present(m)
  BY <1>4 DEF Present
<1>6. QED
  BY <1>3, <1>4, <1>5, SameLogsKeep

\* Hydrating does.
LEMMA HydratedKeeps ==
    ASSUME NEW u, NEW m, Good(m, u), NEW n \in Nat
    PROVE  /\ \A i \in Present(Hydrated(m, n)) : i \in Present(m) \/ i <= Hydrated(m, n).active
           /\ n \notin Present(m) => Keeps(m, Hydrated(m, n))
<1> DEFINE e == Ensured(m, n)
<1>1. m \in Loose /\ e \in Loose
  BY EnsuredGood DEF Good
<1>2. Grows(m, e) /\ (n \notin Present(m) => Keeps(m, e))
  BY <1>1, EnsuredKeeps
<1> HIDE DEF e
<1>3. Keeps(e, Cleaned(e)) /\ Present(Cleaned(e)) = Present(e) /\ Cleaned(e).active = e.active
  BY <1>1, CleanedKeeps, CleanedLive
<1>4. QED
  BY <1>2, <1>3, KeepsIsOrder DEF Hydrated, Grows, e

\* A longer transcript of the active chat keeps all.
LEMMA WithLogKeeps ==
    ASSUME NEW m \in Loose, NEW log
    PROVE  /\ Grows(m, WithLog(m, log)) /\ WithLog(m, log).active = m.active
           /\ (\A j \in DOMAIN Log(m) : \E k \in DOMAIN log : log[k] = Log(m)[j])
                 => Keeps(m, WithLog(m, log))
<1> DEFINE ss == [i \in Sessions |-> IF i = m.active THEN [m.sessions[i] EXCEPT !.log = log]
                                     ELSE m.sessions[i]]
           o == [m EXCEPT !.sessions = ss]
<1>1. ASSUME NEW i \in Sessions
      PROVE  /\ ss[i].state = m.sessions[i].state
             /\ ss[i].log = IF i = m.active THEN log ELSE m.sessions[i].log
  <2>1. m.sessions[i] \in Session
    BY DEF Loose
  <2>2. /\ [m.sessions[i] EXCEPT !.log = log].state = m.sessions[i].state
        /\ [m.sessions[i] EXCEPT !.log = log].log = log
    BY <2>1 DEF Session
  <2>3. QED
    BY <2>2
<1>2. o.sessions = ss /\ o.active = m.active
  BY DEF Loose
<1>3. o = WithLog(m, log)
  BY DEF WithLog
<1> HIDE DEF ss, o
<1>4. Grows(m, o)
  BY <1>1, <1>2 DEF Grows, Present
<1>5. ASSUME \A j \in DOMAIN Log(m) : \E k \in DOMAIN log : log[k] = Log(m)[j]
      PROVE  Keeps(m, o)
  <2> SUFFICES ASSUME NEW i \in Present(m)
               PROVE  /\ o.sessions[i].state # "absent"
                      /\ \A j \in DOMAIN m.sessions[i].log :
                           \E k \in DOMAIN o.sessions[i].log :
                               o.sessions[i].log[k] = m.sessions[i].log[j]
    BY DEF Keeps
  <2>1. i \in Sessions /\ o.sessions[i].state # "absent"
    BY <1>1, <1>2 DEF Present
  <2>2. CASE i # m.active
    BY <1>1, <1>2, <2>1, <2>2
  <2>3. CASE i = m.active
    BY <1>1, <1>2, <1>5, <2>1, <2>3 DEF Log
  <2>4. QED
    BY <2>1, <2>2, <2>3
<1>6. QED
  BY <1>2, <1>3, <1>4, <1>5

\* Adding a message does, in a store that gets a chat for it if it has none.
LEMMA AddMessageKeeps ==
    ASSUME NEW u, NEW m, Good(m, u), NEW n \in Nat, NEW message
    PROVE  Grows(m, AddMessage(m, n, message)) /\ Keeps(m, AddMessage(m, n, message))
<1> DEFINE w == Written(m, n)
<1>1. Good(w, u)
  BY WrittenGood
<1>2. /\ Present(m) = {} => Grows(m, w) /\ \A i \in Present(w) : i <= w.active
      /\ Present(m) # {} => w = m
  BY StartedKeeps DEF Good, Written, Grows
<1> HIDE DEF w
<1>3. w \in Loose /\ Log(w) \in Seq(Message)
  BY <1>1, LogType DEF Good
<1>4. \A j \in DOMAIN Log(w) : /\ j \in DOMAIN Append(Log(w), message)
                               /\ Append(Log(w), message)[j] = Log(w)[j]
  BY <1>3
<1>5. /\ Grows(w, AddMessage(m, n, message)) /\ Keeps(w, AddMessage(m, n, message))
      /\ AddMessage(m, n, message).active = w.active
  BY <1>3, <1>4, WithLogKeeps DEF AddMessage, w
<1>6. CASE Present(m) = {}
  BY <1>2, <1>5, <1>6 DEF Grows, Keeps
<1>7. CASE Present(m) # {}
  BY <1>2, <1>5, <1>7
<1>8. QED
  BY <1>6, <1>7

\* A new chat does.
LEMMA CreateSessionKeeps ==
    ASSUME NEW u, NEW m, Good(m, u), NEW n \in Nat
    PROVE  /\ Grows(m, CreateSession(m, n))
           /\ n \notin Present(m) => Keeps(m, CreateSession(m, n))
<1>1. CASE Present(m) = {}
  <2>1. Good(Written(m, n), u) /\ n + 1 \in Nat
    BY WrittenGood
  <2> DEFINE w == Written(m, n)
  <2>2. /\ Grows(w, Started(w, n + 1))
        /\ Started(w, n + 1).active = n + 1
    <3> HIDE DEF w
    <3>1. w \in Loose
      BY <2>1 DEF Good, w
    <3>2. Started(w, n + 1).active = n + 1
      BY <3>1 DEF Started, Opened, Loose
    <3>3. QED
      BY <2>1, <3>1, <3>2, StartedKeeps
  <2>3. Present(Written(m, n)) \subseteq {n}
    <3>1. Written(m, n) = Started(m, n) /\ Grows(m, Started(m, n))
      BY <1>1, StartedKeeps DEF Written, Good
    <3>2. \A i \in Sessions : i # n => Started(m, n).sessions[i] = m.sessions[i]
      BY DEF Started, Opened, Good, Loose
    <3>3. QED
      BY <1>1, <3>1, <3>2 DEF Present
  <2>4. QED
    BY <1>1, <2>2, <2>3 DEF CreateSession, Grows, Keeps
<1>2. CASE Present(m) # {}
  BY <1>2, StartedKeeps DEF CreateSession, Good
<1>3. QED
  BY <1>1, <1>2

\* Putting a chat in the place of one with the same transcript does.
LEMMA PutKeeps ==
    ASSUME NEW m \in Loose, NEW i \in Sessions, NEW c
    PROVE  /\ Put(m, i, c).active = m.active
           /\ c.state = "absent" \/ m.sessions[i].state # "absent" => Grows(m, Put(m, i, c))
           /\ c.log = m.sessions[i].log /\ (c.state = "absent" <=> m.sessions[i].state = "absent")
                => Keeps(m, Put(m, i, c))
<1> DEFINE o == Put(m, i, c)
<1>1. /\ o.active = m.active
      /\ \A j \in Sessions : o.sessions[j] = IF j = i THEN c ELSE m.sessions[j]
  BY DEF Put, Loose
<1> HIDE DEF o
<1>2. c.state = "absent" \/ m.sessions[i].state # "absent" => Grows(m, o)
  BY <1>1 DEF Grows, Present
<1>3. c.log = m.sessions[i].log /\ (c.state = "absent" <=> m.sessions[i].state = "absent")
        => Keeps(m, o)
  BY <1>1, SameLogsKeep
<1>4. QED
  BY <1>1, <1>2, <1>3 DEF o

\* Archiving or restoring a chat, with what becomes active, does.
LEMMA ArchivedKeeps ==
    ASSUME NEW u, NEW m, Good(m, u), NEW i \in Present(m), NEW b \in BOOLEAN, NEW n \in Nat
    PROVE  /\ Grows(m, SetSessionArchived(m, i, b, n))
           /\ n \notin Present(m) => Keeps(m, SetSessionArchived(m, i, b, n))
<1> DEFINE c == [m.sessions[i] EXCEPT !.state = IF b THEN "archived" ELSE "live"]
           a == Put(m, i, c)
<1>1. i \in Sessions /\ m.sessions[i] \in Session /\ m.sessions[i].state # "absent" /\ m \in Loose
  BY DEF Good, Loose, Present
<1>2. c.log = m.sessions[i].log /\ c.state # "absent" /\ c \in Session
  BY <1>1 DEF Session
<1> HIDE DEF c
<1>3. a \in Loose
  BY <1>1, <1>2 DEF Put, Loose
<1>4. Keeps(m, a) /\ Grows(m, a) /\ Present(a) = Present(m)
  <2>1. \A j \in Sessions : a.sessions[j] = IF j = i THEN c ELSE m.sessions[j]
    BY <1>1 DEF Put, Loose
  <2>2. QED
    BY <1>1, <1>2, <2>1, PutKeeps DEF Present
<1> HIDE DEF a
<1>5. CASE b /\ m.active = i /\ Live(a) # {}
  <2>1. SetSessionArchived(m, i, b, n) = [a EXCEPT !.active = First(Live(a))]
    BY <1>5 DEF SetSessionArchived, a, c
  <2>2. QED
    BY <1>3, <1>4, <2>1, ActiveKeeps, KeepsIsOrder DEF Grows
<1>6. CASE b /\ m.active = i /\ Live(a) = {}
  <2>1. SetSessionArchived(m, i, b, n) = Started(a, n)
    BY <1>6 DEF SetSessionArchived, a, c
  <2>2. QED
    BY <1>3, <1>4, <2>1, StartedKeeps, KeepsIsOrder DEF Grows
<1>7. CASE ~(b /\ m.active = i)
  <2>1. SetSessionArchived(m, i, b, n) = a
    BY <1>7 DEF SetSessionArchived, a, c
  <2>2. QED
    BY <1>4, <2>1
<1>8. QED
  BY <1>5, <1>6, <1>7

\* Filing and moving a chat do.
LEMMA MovedKeeps ==
    ASSUME NEW m \in Loose, NEW i \in Present(m), NEW p, NEW f
    PROVE  /\ Keeps(m, SetSessionProject(m, i, p)) /\ Grows(m, SetSessionProject(m, i, p))
           /\ Keeps(m, SetSessionFolder(m, i, f)) /\ Grows(m, SetSessionFolder(m, i, f))
<1>1. i \in Sessions /\ m.sessions[i] \in Session
  BY DEF Present, Loose
<1>2. ASSUME NEW c, c.log = m.sessions[i].log, c.state = m.sessions[i].state
      PROVE  Keeps(m, Put(m, i, c)) /\ Grows(m, Put(m, i, c))
  BY <1>1, <1>2, PutKeeps DEF Present
<1>3. Keeps(m, SetSessionProject(m, i, p)) /\ Grows(m, SetSessionProject(m, i, p))
  <2> DEFINE c == [m.sessions[i] EXCEPT !.project = p, !.folder = None]
  <2>1. c.log = m.sessions[i].log /\ c.state = m.sessions[i].state
    BY <1>1 DEF Session
  <2> HIDE DEF c
  <2>2. QED
    BY <1>2, <2>1 DEF SetSessionProject, c
<1>4. Keeps(m, SetSessionFolder(m, i, f)) /\ Grows(m, SetSessionFolder(m, i, f))
  <2> DEFINE c == [m.sessions[i] EXCEPT
                      !.folder = f, !.project = IF f = None THEN @ ELSE m.folders[f].project]
  <2>1. c.log = m.sessions[i].log /\ c.state = m.sessions[i].state
    BY <1>1 DEF Session
  <2> HIDE DEF c
  <2>2. QED
    BY <1>2, <2>1 DEF SetSessionFolder, c
<1>5. QED
  BY <1>3, <1>4

\* Taking chats out of folders and projects leaves their transcripts.
LEMMA UnfiledKeeps ==
    ASSUME NEW m \in Loose, NEW gone, NEW i \in Sessions
    PROVE  /\ Unfiled(m, gone)[i].log = m.sessions[i].log
           /\ Unfiled(m, gone)[i].state = m.sessions[i].state
           /\ Unfiled(m, gone)[i] \in Session
<1>1. m.sessions[i] \in Session
  BY DEF Loose
<1>2. /\ [m.sessions[i] EXCEPT !.folder = None].log = m.sessions[i].log
      /\ [m.sessions[i] EXCEPT !.folder = None].state = m.sessions[i].state
      /\ [m.sessions[i] EXCEPT !.folder = None] \in Session
  BY <1>1 DEF Session
<1>3. QED
  BY <1>1, <1>2 DEF Unfiled

\* What is done to projects and folders keeps every chat.
LEMMA TreeKeeps ==
    ASSUME NEW m \in Loose, NEW p, NEW f
    PROVE  /\ \A state : Keeps(m, SetProject(m, p, state)) /\ Grows(m, SetProject(m, p, state))
           /\ Keeps(m, CreateFolder(m, f, p)) /\ Grows(m, CreateFolder(m, f, p))
           /\ Keeps(m, DeleteFolder(m, f)) /\ Grows(m, DeleteFolder(m, f))
           /\ Keeps(m, DeleteProject(m, p)) /\ Grows(m, DeleteProject(m, p))
<1>1. \A state : SetProject(m, p, state).sessions = m.sessions
  BY DEF SetProject, Loose
<1>2. CreateFolder(m, f, p).sessions = m.sessions
  BY DEF CreateFolder, Loose
<1>3. DeleteFolder(m, f).sessions = Unfiled(m, {f})
  BY DEF DeleteFolder, Loose
<1>4. \A i \in Sessions :
         /\ DeleteProject(m, p).sessions[i].log = m.sessions[i].log
         /\ DeleteProject(m, p).sessions[i].state = m.sessions[i].state
  <2> DEFINE gone == {g \in Folders : m.folders[g].there /\ m.folders[g].project = p}
             out == Unfiled(m, gone)
             ss == [i \in Sessions |->
                       IF out[i].project = p THEN [out[i] EXCEPT !.project = None] ELSE out[i]]
  <2>1. DeleteProject(m, p).sessions = ss
    BY DEF DeleteProject, Loose
  <2> HIDE DEF gone
  <2>2. ASSUME NEW i \in Sessions
        PROVE  ss[i].log = m.sessions[i].log /\ ss[i].state = m.sessions[i].state
    <3>1. /\ out[i].log = m.sessions[i].log /\ out[i].state = m.sessions[i].state
          /\ out[i] \in Session
      BY UnfiledKeeps
    <3> HIDE DEF out
    <3>2. /\ [out[i] EXCEPT !.project = None].log = out[i].log
          /\ [out[i] EXCEPT !.project = None].state = out[i].state
      BY <3>1 DEF Session
    <3>3. QED
      BY <3>1, <3>2
  <2>3. QED
    BY <2>1, <2>2
<1>5. QED
  BY <1>1, <1>2, <1>3, <1>4, UnfiledKeeps, SameLogsKeep

\* Deleting a chat makes none but a newer one.
LEMMA DeletedGrows ==
    ASSUME NEW u, NEW m, Good(m, u), NEW i \in Present(m), NEW n \in Nat
    PROVE  Grows(m, DeleteSession(m, i, n))
<1> DEFINE d == Put(m, i, NoSession)
<1>1. i \in Sessions /\ m \in Loose
  BY DEF Good, Present
<1>2. Good(d, u)
  BY <1>1, BlankType, ReplacedGood DEF NoSession
<1>3. /\ Grows(m, d) /\ d \in Loose
      /\ Present(d) \subseteq Present(m)
  <2>1. \A j \in Sessions : d.sessions[j] = IF j = i THEN NoSession ELSE m.sessions[j]
    BY <1>1 DEF Put, Loose
  <2> HIDE DEF d
  <2>2. QED
    BY <1>1, <1>2, <2>1 DEF Grows, Present, NoSession, Good
<1> HIDE DEF d
<1>4. /\ Grows(d, Started(d, n))
      /\ \A k : Grows(d, [d EXCEPT !.active = k])
  BY <1>3, StartedKeeps, ActiveKeeps
<1>5. ASSUME NEW o, Grows(d, o)  PROVE Grows(m, o)
  BY <1>3, <1>5 DEF Grows
<1>6. QED
  BY <1>3, <1>4, <1>5 DEF DeleteSession, d

-----------------------------------------------------------------------------
\* What holds of a step that loses nothing but what it is asked to remove.
LosesNothing ==
    /\ AllNumbered' /\ Complete'
    /\ (\A s \in Surfaces : up[s] = "closed" \/ InStep(s)) => Kept \/ Destructive

\* The transcripts of the storage are kept in a step just if they are kept.
LEMMA KeptIsKeeps == Kept <=> Keeps(stored, stored')
BY DEF Kept, Keeps

\* The next chat's number is new.
LEMMA NumberIsNew ==
    ASSUME LossInv
    PROVE  /\ made \in Nat /\ made + 1 \in Nat
           /\ \A m : Numbered(m, made) => made + 1 \notin Present(m)
           /\ \A s \in Surfaces : made + 1 \notin Present(mem[s])
           /\ made + 1 \notin Present(stored)
<1>1. made \in Nat /\ made + 1 \in Nat
  BY BoundsAreNaturals DEF LossInv, ChatInv, TypeOK
<1>2. \A m : Numbered(m, made) => made + 1 \notin Present(m)
  BY <1>1 DEF Numbered
<1>3. QED
  BY <1>1, <1>2 DEF LossInv, AllNumbered

\* Every chat of a larger bound is numbered too.
LEMMA NumberedUp ==
    ASSUME NEW m, NEW k \in Nat, NEW l \in Nat, k <= l, Numbered(m, k)
    PROVE  Numbered(m, l)
BY DEF Numbered, Present, Sessions

\* A write of a store that only adds to what the surface held loses nothing.
LEMMA WriteSafe ==
    ASSUME LossInv, NEW s \in Surfaces, up[s] # "closed", NEW o, NEW u, Good(o, u),
           Write(s, o), Grows(mem[s], o), Destructive \/ Keeps(mem[s], o),
           \A t \in Surfaces : up'[t] = "closed" <=> up[t] = "closed"
    PROVE  LosesNothing
<1> DEFINE w == Written(o, made + 1)
<1>1. TypeOK /\ made \in Nat /\ made + 1 \in Nat
  BY NumberIsNew DEF LossInv, ChatInv
<1>2. /\ mem' = [mem EXCEPT ![s] = w] /\ mem'[s] = w /\ w.active \in Sessions
      /\ made' = IF w.active > made THEN w.active ELSE made
      /\ stored' \in {stored, w}
      /\ Set(s, w) \/ SetFails(s)
  <2>1. mem' = [mem EXCEPT ![s] = w] /\ w.active \in Sessions
        /\ made' = IF w.active > made THEN w.active ELSE made
    BY DEF Write, Hold
  <2>2. mem'[s] = w
    BY <1>1, <2>1 DEF TypeOK
  <2>3. stored' \in {stored, w} /\ (Set(s, w) \/ SetFails(s))
    BY <1>1, <2>2, WriteType
  <2>4. QED
    BY <2>1, <2>2, <2>3
<1>3. Grows(mem[s], w) /\ Keeps(o, w)
  <2>1. CASE Present(o) = {}
    <3>1. w = Started(o, made + 1) /\ Grows(o, w)
      BY <1>1, <2>1, StartedKeeps DEF Written, Good
    <3>2. QED
      BY <2>1, <3>1 DEF Grows, Keeps
  <2>2. CASE Present(o) # {}
    BY <2>2, KeepsIsOrder DEF Written
  <2>3. QED
    BY <2>1, <2>2
<1> HIDE DEF w
<1>4. made' \in Nat /\ made <= made' /\ w.active <= made'
  BY <1>1, <1>2 DEF Sessions
<1>5. Numbered(w, made') /\ Numbered(stored', made')
  <2>1. Numbered(mem[s], made) /\ Numbered(stored, made)
    BY DEF LossInv, AllNumbered
  <2>2. ASSUME NEW i \in Present(w)  PROVE i <= made'
    <3>1. i \in Nat /\ w.active \in Nat
      BY <1>2 DEF Present, Sessions
    <3>2. i <= made \/ i <= w.active
      BY <1>3, <2>1, <2>2 DEF Grows, Numbered
    <3>3. QED
      BY <1>1, <1>4, <3>1, <3>2
  <2>3. Numbered(w, made')
    BY <2>2 DEF Numbered
  <2>4. QED
    BY <1>1, <1>2, <1>4, <2>1, <2>3, NumberedUp
<1>6. AllNumbered'
  <2>1. ASSUME NEW t \in Surfaces  PROVE Numbered(mem'[t], made')
    <3>1. mem'[t] = IF t = s THEN w ELSE mem[t]
      BY <1>1, <1>2 DEF TypeOK
    <3>2. Numbered(mem[t], made')
      BY <1>1, <1>4, NumberedUp DEF LossInv, AllNumbered
    <3>3. QED
      BY <1>5, <3>1, <3>2
  <2>2. ASSUME NEW t \in Surfaces, NEW j \in DOMAIN pulls'[t]
        PROVE  Numbered(pulls'[t][j].snap, made')
    <3>1. j \in DOMAIN pulls[t] /\ pulls'[t][j].snap = pulls[t][j].snap
      BY <1>1, WritePulls
    <3>2. Numbered(pulls[t][j].snap, made)
      BY <3>1 DEF LossInv, AllNumbered
    <3>3. QED
      BY <1>1, <1>4, <3>1, <3>2, NumberedUp
  <2>3. QED
    BY <1>5, <2>1, <2>2 DEF AllNumbered
<1>7. Complete'
  <2> SUFFICES ASSUME NEW t \in Surfaces, InStep(t)'  PROVE Keeps(stored', mem'[t])
    BY DEF Complete
  <2>1. CASE Set(s, w)
    <3>1. t = s
      BY <2>1 DEF Set, Told, InStep
    <3>2. mem'[t] = stored'
      BY <1>2, <2>1, <3>1 DEF Set
    <3>3. QED
      BY <3>2, KeepsIsOrder
  <2>2. CASE SetFails(s)
    <3>1. t # s /\ InStep(t) /\ stored' = stored
      BY <1>1, <2>2 DEF SetFails, InStep, TypeOK
    <3>2. mem'[t] = mem[t]
      BY <1>1, <1>2, <3>1 DEF TypeOK
    <3>3. QED
      BY <3>1, <3>2 DEF LossInv, Complete
  <2>3. QED
    BY <1>2, <2>1, <2>2
<1>8. ASSUME \A t \in Surfaces : up[t] = "closed" \/ InStep(t), ~ Destructive
      PROVE  Kept
  <2>1. Keeps(stored, mem[s])
    BY <1>8 DEF LossInv, Complete
  <2>2. Keeps(mem[s], o) /\ Keeps(o, w)
    BY <1>3, <1>8
  <2>3. Keeps(stored, stored')
    BY <1>2, <2>1, <2>2, KeepsIsOrder
  <2>4. QED
    BY <2>3, KeptIsKeeps
<1>9. QED
  BY <1>6, <1>7, <1>8 DEF LosesNothing

\* A command that does so.
LEMMA CommandSafe ==
    ASSUME LossInv, NEW s \in Surfaces, NEW o, NEW u, Good(o, u), Command(s, o),
           Grows(mem[s], o), Destructive \/ Keeps(mem[s], o)
    PROVE  LosesNothing
BY WriteSafe DEF Command, Commanded

\* A turn loses nothing, whatever chat is active by then.
LEMMA TurnSafe ==
    ASSUME LossInv, NEW s \in Surfaces, Ask(s) \/ Answer(s) \/ Fail(s) \/ Notice(s) \/ EndTurn(s)
    PROVE  LosesNothing
<1>1. ChatInv /\ up[s] # "closed" /\ up' = up
  BY DEF LossInv, Awake, Ask, TakesTurn, Answer, Fail, Notice, EndTurn
<1>2. ASSUME NEW n \in 0..MaxTurns, NEW role \in {"user", "assistant", "system"},
             Write(s, AddMessage(mem[s], made + 1, [turn |-> n, role |-> role]))
      PROVE  LosesNothing
  <2> DEFINE o == AddMessage(mem[s], made + 1, [turn |-> n, role |-> role])
  <2>1. Good(o, used) /\ Grows(mem[s], o) /\ Keeps(mem[s], o)
    BY <1>1, SayGood, HeldGood, AddMessageKeeps
  <2> HIDE DEF o
  <2>2. QED
    BY <1>1, <1>2, <2>1, WriteSafe DEF o
<1>3. CASE Ask(s)
  <2>1. asked + 1 \in 0..MaxTurns
    BY <1>1, <1>3, BoundsAreNaturals DEF ChatInv, TypeOK, Ask
  <2>2. QED
    BY <1>2, <1>3, <2>1 DEF Ask
<1>4. CASE Answer(s) \/ Fail(s) \/ Notice(s)
  <2>1. turn[s].n \in 0..MaxTurns
    BY <1>1, BoundsAreNaturals DEF ChatInv, TypeOK, Turn
  <2>2. QED
    BY <1>2, <1>4, <2>1 DEF Answer, Fail, Notice, Say
<1>5. CASE EndTurn(s) /\ s = Panel
  BY <1>1, <1>5, HeldGood, KeepsIsOrder, WriteSafe DEF EndTurn, Grows
<1>6. CASE EndTurn(s) /\ s # Panel
  <2>1. UNCHANGED <<mem, stored, made, due, pulls, stale, up>>
    BY <1>6 DEF EndTurn
  <2>2. AllNumbered' /\ Complete'
    BY <2>1 DEF LossInv, AllNumbered, Complete, InStep
  <2>3. QED
    BY <2>1, <2>2, KeepsIsOrder, KeptIsKeeps DEF LosesNothing
<1>7. QED
  BY <1>3, <1>4, <1>5, <1>6

\* Regenerating loses nothing, but in its overwriting mode.
LEMMA RegenerateSafe ==
    ASSUME LossInv, NEW s \in Surfaces, NEW k, NEW mode \in Modes, Regenerate(s, k, mode)
    PROVE  LosesNothing
<1> DEFINE o == Prepared(s, k, mode)
<1>1. ChatInv /\ up[s] # "closed" /\ up' = up /\ Write(s, o)
      /\ k \in 1..Len(Log(mem[s])) /\ Questions(mem[s], k) # {}
  BY DEF LossInv, Regenerate, TakesTurn, Commanded
<1>2. Good(mem[s], used) /\ mem[s] \in Loose /\ made + 1 \in Nat
  BY <1>1, HeldGood DEF Good
<1>3. Good(o, used)
  <2>1. mem[s].active \in Sessions
    BY <1>1 DEF Log
  <2>2. QED
    BY <1>1, <1>2, <2>1, RegeneratedGood DEF Prepared
<1>4. Grows(mem[s], o) /\ (Destructive \/ Keeps(mem[s], o))
  <2>1. CASE mode = "overwrite"
    BY <1>1, <1>2, <2>1, WithLogKeeps DEF Prepared, Overwritten, Destructive
  <2>2. CASE mode = "branch"
    BY <1>2, <2>2, NumberIsNew, OpenedKeeps DEF Prepared, Branched
  <2>3. QED
    BY <2>1, <2>2 DEF Modes
<1> HIDE DEF o
<1>5. QED
  BY <1>1, <1>3, <1>4, WriteSafe

\* Nor does a refusal to.
LEMMA RefuseSafe ==
    ASSUME LossInv, NEW s \in Surfaces, NEW k, RefuseRegeneration(s, k)
    PROVE  LosesNothing
<1> DEFINE message == [turn |-> Log(mem[s])[k].turn, role |-> "system"]
           o == AddMessage(mem[s], made + 1, message)
<1>1. ChatInv /\ Command(s, o) /\ Log(mem[s])[k] \in Message
  BY HeldGood DEF LossInv, RefuseRegeneration
<1>2. Log(mem[s])[k].turn \in 0..MaxTurns
  BY <1>1 DEF Message
<1>3. Good(o, used)
  BY <1>1, <1>2, SayGood
<1> HIDE DEF message
<1>4. Grows(mem[s], o) /\ Keeps(mem[s], o)
  BY <1>1, HeldGood, AddMessageKeeps
<1> HIDE DEF o
<1>5. QED
  BY <1>1, <1>3, <1>4, CommandSafe

\* The commands of both surfaces lose nothing, but the erasing of a message.
LEMMA EditSafe ==
    ASSUME LossInv, NEW s \in Surfaces, Edit(s)  PROVE LosesNothing
<1>1. ChatInv /\ Good(mem[s], used) /\ mem[s] \in Loose /\ made + 1 \in Nat
      /\ made + 1 \notin Present(mem[s])
  BY NumberIsNew, HeldGood DEF LossInv, Good
<1>2. CASE Touch(s)
  BY <1>1, <1>2, KeepsIsOrder, CommandSafe DEF Touch, Grows
<1>3. CASE NewChat(s)
  BY <1>1, <1>3, CreateSessionGood, CreateSessionKeeps, CommandSafe DEF NewChat
<1>4. ASSUME NEW i \in Sessions, Switch(s, i)  PROVE LosesNothing
  <2>1. i \in Nat
    BY DEF Sessions
  <2>2. QED
    BY <1>1, <1>4, <2>1, ActiveGood, ActiveKeeps, CommandSafe DEF Switch, SwitchSession
<1>5. ASSUME NEW k \in 1..Len(Log(mem[s])), ForkMessage(s, k)  PROVE LosesNothing
  <2>1. Good(ForkFromMessage(mem[s], k, made + 1), used)
    BY <1>1, ForkedGood
  <2>2. /\ Grows(mem[s], ForkFromMessage(mem[s], k, made + 1))
        /\ Keeps(mem[s], ForkFromMessage(mem[s], k, made + 1))
    BY <1>1, OpenedKeeps DEF ForkFromMessage
  <2>3. QED
    BY <1>5, <2>1, <2>2, CommandSafe DEF ForkMessage
<1>6. ASSUME NEW k \in 1..Len(Log(mem[s])), EraseMessage(s, k)  PROVE LosesNothing
  <2>1. Good(DeleteMessage(mem[s], k), used)
    BY <1>1, DeleteMessageGood
  <2>2. Grows(mem[s], DeleteMessage(mem[s], k))
    BY <1>1, WithLogKeeps DEF DeleteMessage
  <2>3. Destructive
    BY <1>6 DEF Destructive
  <2>4. QED
    BY <1>6, <2>1, <2>2, <2>3, CommandSafe DEF EraseMessage
<1>7. QED
  BY <1>2, <1>3, <1>4, <1>5, <1>6 DEF Edit

\* Those of the main workspace lose nothing, but the erasing of a chat.
LEMMA OrganiseSafe ==
    ASSUME LossInv, Organise  PROVE LosesNothing
<1> DEFINE m == mem[Main]
<1>1. Main \in Surfaces /\ ChatInv /\ Good(m, used) /\ m \in Loose /\ made + 1 \in Nat
      /\ made + 1 \notin Present(m)
  BY NumberIsNew, HeldGood DEF LossInv, Good, Surfaces
<1>2. Live(m) \subseteq Present(m)
  BY DEF Live, Present
<1>3. ASSUME NEW i \in Sessions, ForkChat(i)  PROVE LosesNothing
  <2>1. Good(ForkSession(m, i, made + 1), used)
    BY <1>1, ForkedGood
  <2>2. Grows(m, ForkSession(m, i, made + 1)) /\ Keeps(m, ForkSession(m, i, made + 1))
    BY <1>1, OpenedKeeps DEF ForkSession
  <2>3. QED
    BY <1>1, <1>3, <2>1, <2>2, CommandSafe DEF ForkChat
<1>4. ASSUME NEW i \in Sessions, EraseChat(i)  PROVE LosesNothing
  <2>1. Good(DeleteSession(m, i, made + 1), used) /\ Grows(m, DeleteSession(m, i, made + 1))
    BY <1>1, <1>2, <1>4, DeletedGood, DeletedGrows DEF EraseChat
  <2>2. Destructive
    BY <1>4 DEF Destructive
  <2>3. QED
    BY <1>1, <1>4, <2>1, <2>2, CommandSafe DEF EraseChat
<1>5. ASSUME NEW i \in Sessions, NEW b \in BOOLEAN, ArchiveChat(i, b)  PROVE LosesNothing
  <2>1. i \in Present(m)
    BY <1>2, <1>5 DEF ArchiveChat
  <2>2. QED
    BY <1>1, <1>5, <2>1, ArchivedGood, ArchivedKeeps, CommandSafe DEF ArchiveChat
<1>6. ASSUME NEW i \in Sessions, NEW p \in Projects \cup {None}, MoveChat(i, p)  PROVE LosesNothing
  <2>1. i \in Present(m)
    BY <1>2, <1>6 DEF MoveChat
  <2>2. Good(SetSessionProject(m, i, p), used)
    BY <1>1, <1>6, MovedGood DEF MoveChat
  <2>3. QED
    BY <1>1, <1>6, <2>1, <2>2, MovedKeeps, CommandSafe DEF MoveChat
<1>7. ASSUME NEW i \in Sessions, NEW f \in Folders \cup {None}, FileChat(i, f)  PROVE LosesNothing
  <2>1. i \in Present(m)
    BY <1>2, <1>7 DEF FileChat
  <2>2. Good(SetSessionFolder(m, i, f), used)
    BY <1>1, <1>7, FiledGood DEF FileChat
  <2>3. QED
    BY <1>1, <1>7, <2>1, <2>2, MovedKeeps, CommandSafe DEF FileChat
<1>8. ASSUME NEW p \in Projects, NewProject(p)  PROVE LosesNothing
  BY <1>1, <1>8, ProjectGood, TreeKeeps, WriteSafe DEF NewProject, Commanded
<1>9. ASSUME NEW p \in Projects, EraseProject(p)  PROVE LosesNothing
  BY <1>1, <1>9, DeletedProjectGood, TreeKeeps, CommandSafe DEF EraseProject
<1>10. ASSUME NEW p \in Projects, NEW b \in BOOLEAN, ArchiveProject(p, b)  PROVE LosesNothing
  BY <1>1, <1>10, ProjectGood, TreeKeeps, CommandSafe DEF ArchiveProject
<1>11. ASSUME NEW p \in Projects, NEW f \in Folders, NewFolder(f, p)  PROVE LosesNothing
  <2>1. Good(CreateFolder(m, f, p), used \cup {f})
    BY <1>1, <1>11, CreatedFolderGood DEF NewFolder
  <2>2. QED
    BY <1>1, <1>11, <2>1, TreeKeeps, WriteSafe DEF NewFolder, Commanded
<1>12. ASSUME NEW f \in Folders, EraseFolder(f)  PROVE LosesNothing
  BY <1>1, <1>12, DeletedFolderGood, TreeKeeps, CommandSafe DEF EraseFolder
<1>13. QED
  BY <1>3, <1>4, <1>5, <1>6, <1>7, <1>8, <1>9, <1>10, <1>11, <1>12 DEF Organise

-----------------------------------------------------------------------------
\* Opening and closing a surface lose nothing.
LEMMA OpenCloseSafe ==
    ASSUME LossInv, NEW s \in Surfaces, Open(s) \/ Close(s)  PROVE LosesNothing
<1>1. TypeOK /\ made \in Nat
  BY NumberIsNew DEF LossInv, ChatInv
<1>2. UNCHANGED <<stored, made>>
  BY DEF Open, Close
<1>3. CASE Open(s)
  <2>1. UNCHANGED <<mem, pulls, stale>> /\ due' = [due EXCEPT ![s] = {"boot"}]
        /\ up' = [up EXCEPT ![s] = "starting"]
    BY <1>3 DEF Open
  <2>2. AllNumbered'
    BY <1>2, <2>1 DEF LossInv, AllNumbered
  <2>3. Complete'
    BY <1>1, <1>2, <2>1 DEF LossInv, Complete, InStep, TypeOK
  <2>4. QED
    BY <1>2, <2>2, <2>3, KeepsIsOrder, KeptIsKeeps DEF LosesNothing
<1>4. CASE Close(s)
  <2>1. /\ up' = [up EXCEPT ![s] = "closed"] /\ mem' = [mem EXCEPT ![s] = Blank]
        /\ due' = [due EXCEPT ![s] = {}] /\ pulls' = [pulls EXCEPT ![s] = <<>>]
        /\ stale' = [stale EXCEPT ![s] = FALSE]
    BY <1>4 DEF Close
  <2>2. Numbered(Blank, made)
    BY DEF Numbered, Present, Blank, NoSession
  <2>3. AllNumbered'
    BY <1>1, <1>2, <2>1, <2>2 DEF LossInv, AllNumbered, TypeOK
  <2>4. Complete'
    BY <1>1, <1>2, <2>1 DEF LossInv, Complete, InStep, TypeOK
  <2>5. QED
    BY <1>2, <2>3, <2>4, KeepsIsOrder, KeptIsKeeps DEF LosesNothing
<1>5. QED
  BY <1>3, <1>4

\* Asking the storage loses nothing.
LEMMA ReadSafe ==
    ASSUME LossInv, NEW s \in Surfaces, NEW why \in {"boot", "change"}, NEW failed \in BOOLEAN,
           Read(s, why, failed)
    PROVE  LosesNothing
<1> DEFINE q == pulls[s]
           new == [snap |-> IF failed THEN Blank ELSE stored,
                   boot |-> why = "boot", behind |-> failed]
           r == Append(q, new)
<1>1. /\ UNCHANGED <<mem, stored, up, stale, made>>
      /\ due' = [due EXCEPT ![s] = @ \ {why}] /\ pulls' = [pulls EXCEPT ![s] = r]
  BY DEF Read
<1>2. new \in Pull /\ q \in Seq(Pull) /\ new.snap \in {Blank, stored} /\ TypeOK
  BY BlankType DEF LossInv, ChatInv, TypeOK, Pull
<1> HIDE DEF new, q
<1>3. /\ r # <<>>
      /\ \A j \in DOMAIN r : r[j] = new \/ (j \in DOMAIN q /\ r[j] = q[j])
  BY <1>2
<1> HIDE DEF r
<1>4. AllNumbered'
  <2>1. Numbered(Blank, made)
    BY DEF Numbered, Present, Blank, NoSession
  <2>2. QED
    BY <1>1, <1>2, <1>3, <2>1 DEF LossInv, AllNumbered, TypeOK, q
<1>5. Complete'
  BY <1>1, <1>2, <1>3 DEF LossInv, Complete, InStep, TypeOK
<1>6. QED
  BY <1>1, <1>4, <1>5, KeepsIsOrder, KeptIsKeeps DEF LosesNothing

\* Nor does taking in the answer: the last read of a surface that is in step
\* afterwards was the storage as it is.
LEMMA AssignSafe ==
    ASSUME LossInv, NEW s \in Surfaces, Assign(s)  PROVE LosesNothing
<1> DEFINE q == pulls[s]
           pull == Head(q)
           m == Hydrated(pull.snap, made + 1)
<1>1. /\ TypeOK /\ made \in Nat /\ made + 1 \in Nat /\ made + 1 \notin Present(stored)
      /\ q \in Seq(Pull) /\ q # <<>> /\ Good(stored, used)
  BY NumberIsNew DEF LossInv, ChatInv, SoundAll, TypeOK, Assign
<1>2. /\ m.active \in Sessions /\ mem' = [mem EXCEPT ![s] = m]
      /\ made' = IF m.active > made THEN m.active ELSE made
      /\ stale' = [stale EXCEPT ![s] = pull.behind]
      /\ pulls' = [pulls EXCEPT ![s] = Tail(q)]
      /\ UNCHANGED <<stored, due>>
      /\ \A t \in Surfaces \ {s} : up'[t] = up[t]
  BY <1>1 DEF Assign, Hold, TypeOK
<1>3. /\ pull = q[1] /\ 1 \in DOMAIN q /\ pull \in Pull
      /\ \A j \in DOMAIN Tail(q) : j + 1 \in DOMAIN q /\ Tail(q)[j] = q[j + 1]
      /\ Tail(q) = <<>> => Len(q) = 1
  <2> HIDE DEF q
  <2>1. /\ Len(q) \in Nat /\ Len(q) > 0 /\ DOMAIN q = 1..Len(q)
        /\ Tail(q) \in Seq(Pull) /\ Len(Tail(q)) = Len(q) - 1
        /\ pull = q[1] /\ q[1] \in Pull
    BY <1>1
  <2>2. \A j \in 1..(Len(q) - 1) : Tail(q)[j] = q[j + 1]
    BY <1>1
  <2>3. DOMAIN Tail(q) = 1..(Len(q) - 1)
    BY <2>1
  <2>4. Tail(q) = <<>> => Len(q) = 1
    <3>1. \A r \in Seq(Pull) : r = <<>> => Len(r) = 0
      OBVIOUS
    <3> DEFINE t == Tail(q)
               k == Len(q)
               l == Len(t)
    <3>2. t \in Seq(Pull) /\ k \in Nat /\ l = k - 1
      BY <2>1
    <3>3. t = <<>> => l = 0
      BY <3>1, <3>2, Zenon
    <3> HIDE DEF t, k, l
    <3>4. l = 0 => k = 1
      BY <3>2
    <3>5. QED
      BY <3>3, <3>4, Zenon DEF t, k
  <2>5. QED
    BY <2>1, <2>2, <2>3, <2>4
<1>4. /\ \A j \in DOMAIN q : Numbered(q[j].snap, made)
      /\ Good(pull.snap, used)
  BY <1>3 DEF LossInv, AllNumbered, ChatInv, SoundAll
<1>5. Len(q) = 1 /\ due[s] = {} /\ ~ pull.behind => pull.snap = stored
  BY <1>1, <1>3 DEF LossInv, ChatInv, Recent
<1>6. /\ \A i \in Present(m) : i \in Present(pull.snap) \/ i <= m.active
      /\ pull.snap = stored => Keeps(stored, m)
  BY <1>1, <1>4, HydratedKeeps
<1> HIDE DEF m, pull, q
<1>7. made' \in Nat /\ made <= made' /\ m.active <= made'
  BY <1>1, <1>2 DEF Sessions
<1>8. Numbered(m, made')
  <2>1. Numbered(pull.snap, made)
    BY <1>3, <1>4
  <2>2. ASSUME NEW i \in Present(m)  PROVE i <= made'
    <3>1. i \in Nat /\ m.active \in Nat
      BY <1>2 DEF Present, Sessions
    <3>2. i <= made \/ i <= m.active
      BY <1>6, <2>1 DEF Numbered
    <3>3. QED
      BY <1>1, <1>7, <3>1, <3>2
  <2>3. QED
    BY <2>2 DEF Numbered
<1>9. AllNumbered'
  <2>1. \A t \in Surfaces : Numbered(mem[t], made') /\ Numbered(stored, made')
    BY <1>1, <1>7, NumberedUp DEF LossInv, AllNumbered
  <2>2. ASSUME NEW t \in Surfaces, NEW j \in DOMAIN pulls'[t]
        PROVE  Numbered(pulls'[t][j].snap, made')
    <3>1. CASE t = s
      <4>1. pulls'[t] = Tail(q)
        BY <1>1, <1>2, <3>1 DEF TypeOK
      <4>2. Numbered(pulls'[t][j].snap, made)
        BY <1>3, <1>4, <4>1
      <4>3. QED
        BY <1>1, <1>7, <4>2, NumberedUp
    <3>2. CASE t # s
      <4>1. pulls'[t] = pulls[t]
        BY <1>1, <1>2, <3>2 DEF TypeOK
      <4>2. Numbered(pulls'[t][j].snap, made)
        BY <4>1 DEF LossInv, AllNumbered
      <4>3. QED
        BY <1>1, <1>7, <4>2, NumberedUp
    <3>3. QED
      BY <3>1, <3>2
  <2>3. QED
    BY <1>1, <1>2, <1>8, <2>1, <2>2 DEF AllNumbered, TypeOK
<1>10. Complete'
  <2> SUFFICES ASSUME NEW t \in Surfaces, InStep(t)'  PROVE Keeps(stored, mem'[t])
    BY <1>2 DEF Complete
  <2>1. CASE t = s
    <3>1. Tail(q) = <<>> /\ due[s] = {} /\ ~ pull.behind
      BY <1>1, <1>2, <2>1 DEF InStep, TypeOK
    <3>2. QED
      BY <1>1, <1>2, <1>3, <1>5, <1>6, <2>1, <3>1 DEF TypeOK
  <2>2. CASE t # s
    <3>1. InStep(t) /\ mem'[t] = mem[t]
      BY <1>1, <1>2, <2>2 DEF InStep, TypeOK
    <3>2. QED
      BY <3>1 DEF LossInv, Complete
  <2>3. QED
    BY <2>1, <2>2
<1>11. QED
  BY <1>2, <1>9, <1>10, KeepsIsOrder, KeptIsKeeps DEF LosesNothing

\* Nor does the end of the main workspace's start.
LEMMA GreetSafe ==
    ASSUME LossInv, NEW s \in Surfaces, Greet(s) \/ FollowDeepLink(s)  PROVE LosesNothing
<1> DEFINE m == Ensured(mem[s], made + 1)
<1>1. /\ TypeOK /\ ChatInv /\ made \in Nat /\ made + 1 \in Nat
      /\ made + 1 \notin Present(mem[s]) /\ Good(mem[s], used) /\ mem[s] \in Loose
  BY NumberIsNew, HeldGood DEF LossInv, ChatInv, Good
<1>2. /\ up' = [up EXCEPT ![s] = "up"] /\ up[s] # "closed"
      /\ \A t \in Surfaces : up'[t] = "closed" <=> up[t] = "closed"
  BY <1>1 DEF Greet, FollowDeepLink, TypeOK
<1>3. Good(m, used) /\ Grows(mem[s], m) /\ Keeps(mem[s], m)
  BY <1>1, EnsuredGood, EnsuredKeeps
<1>4. CASE FollowDeepLink(s)
  <2>1. UNCHANGED <<mem, stored, made, due, pulls, stale>>
    BY <1>4 DEF FollowDeepLink
  <2>2. AllNumbered' /\ Complete'
    BY <1>2, <2>1 DEF LossInv, AllNumbered, Complete, InStep
  <2>3. QED
    BY <2>1, <2>2, KeepsIsOrder, KeptIsKeeps DEF LosesNothing
<1>5. CASE Greet(s) /\ Log(m) # <<>>
  <2> DEFINE o == CreateSession(m, made + 1)
  <2>1. Present(m) = Present(mem[s])
    <3>1. Live(mem[s]) # {}
      <4>1. ASSUME Live(mem[s]) = {}  PROVE Log(m) = <<>>
        <5>1. m = Started(mem[s], made + 1)
          BY <4>1 DEF Ensured
        <5>2. /\ Started(mem[s], made + 1).active = made + 1
              /\ made + 1 \in Sessions
                   => Started(mem[s], made + 1).sessions[made + 1].log = <<>>
          BY <1>1 DEF Started, Opened, Loose
        <5>3. QED
          BY <5>1, <5>2 DEF Log
      <4>2. QED
        BY <1>5, <4>1
    <3>2. m.sessions = mem[s].sessions
      BY <1>1, <3>1 DEF Ensured, Loose
    <3>3. QED
      BY <3>2 DEF Present
  <2> HIDE DEF m
  <2>2. Good(o, used) /\ Grows(m, o) /\ Keeps(m, o)
    BY <1>1, <1>3, <2>1, CreateSessionGood, CreateSessionKeeps
  <2>3. Write(s, o)
    BY <1>5 DEF Greet, m
  <2> HIDE DEF o
  <2>4. Grows(mem[s], o) /\ Keeps(mem[s], o)
    BY <1>3, <2>1, <2>2, KeepsIsOrder DEF Grows
  <2>5. QED
    BY <1>2, <2>2, <2>3, <2>4, WriteSafe
<1>6. CASE Greet(s) /\ Log(m) = <<>>
  <2>1. /\ m.active \in Sessions /\ mem' = [mem EXCEPT ![s] = m]
        /\ made' = IF m.active > made THEN m.active ELSE made
        /\ UNCHANGED <<stored, due, pulls, stale>>
    BY <1>6 DEF Greet, Hold
  <2> HIDE DEF m
  <2>2. made' \in Nat /\ made <= made' /\ m.active <= made'
    BY <1>1, <2>1 DEF Sessions
  <2>3. Numbered(m, made')
    <3>1. Numbered(mem[s], made)
      BY DEF LossInv, AllNumbered
    <3>2. ASSUME NEW i \in Present(m)  PROVE i <= made'
      <4>1. i \in Nat /\ m.active \in Nat
        BY <2>1 DEF Present, Sessions
      <4>2. i <= made \/ i <= m.active
        BY <1>3, <3>1 DEF Grows, Numbered
      <4>3. QED
        BY <1>1, <2>2, <4>1, <4>2
    <3>3. QED
      BY <3>2 DEF Numbered
  <2>4. AllNumbered'
    <3>1. \A t \in Surfaces : /\ Numbered(mem[t], made') /\ Numbered(stored, made')
                              /\ \A j \in DOMAIN pulls[t] : Numbered(pulls[t][j].snap, made')
      BY <1>1, <2>2, NumberedUp DEF LossInv, AllNumbered
    <3>2. QED
      BY <1>1, <2>1, <2>3, <3>1 DEF AllNumbered, TypeOK
  <2>5. Complete'
    <3> SUFFICES ASSUME NEW t \in Surfaces, InStep(t)'  PROVE Keeps(stored, mem'[t])
      BY <2>1 DEF Complete
    <3>1. InStep(t) /\ mem'[t] = IF t = s THEN m ELSE mem[t]
      BY <1>1, <1>2, <2>1 DEF InStep, TypeOK
    <3>2. Keeps(stored, mem[t])
      BY <3>1 DEF LossInv, Complete
    <3>3. QED
      BY <1>3, <3>1, <3>2, KeepsIsOrder
  <2>6. QED
    BY <2>1, <2>4, <2>5, KeepsIsOrder, KeptIsKeeps DEF LosesNothing
<1>7. QED
  BY <1>4, <1>5, <1>6

\* Only an open surface takes a turn, and closing ends it.
LEMMA AwakeKept ==
    ASSUME LossInv, Next  PROVE Awake'
<1> SUFFICES ASSUME NEW t \in Surfaces, turn'[t].at # "idle"  PROVE up'[t] # "closed"
  BY DEF Awake
<1>1. TypeOK /\ Awake
  BY DEF LossInv, ChatInv
<1>2. ASSUME UNCHANGED <<up, turn>>  PROVE up'[t] # "closed"
  BY <1>1, <1>2 DEF Awake
<1>3. ASSUME NEW s \in Surfaces, Open(s) \/ Close(s)  PROVE up'[t] # "closed"
  <2>1. CASE Open(s)
    BY <1>1, <2>1 DEF TypeOK, Awake, Open
  <2>2. CASE Close(s)
    <3>1. t # s
      BY <1>1, <2>2 DEF TypeOK, Close, NoTurn
    <3>2. turn'[t] = turn[t] /\ up'[t] = up[t]
      BY <1>1, <2>2, <3>1 DEF TypeOK, Close
    <3>3. QED
      BY <1>1, <3>2 DEF Awake
  <2>3. QED
    BY <1>3, <2>1, <2>2
<1>4. ASSUME NEW s \in Surfaces, Greet(s) \/ FollowDeepLink(s)  PROVE up'[t] # "closed"
  BY <1>1, <1>4 DEF TypeOK, Awake, Greet, FollowDeepLink
<1>5. ASSUME NEW s \in Surfaces, Sync(s)  PROVE up'[t] # "closed"
  <2>1. CASE Assign(s)
    <3>1. up[s] # "closed"
      BY <2>1 DEF LossInv, ChatInv, Recent, Assign
    <3>2. QED
      BY <1>1, <2>1, <3>1 DEF TypeOK, Awake, Assign
  <2>2. ASSUME NEW why, NEW failed, Read(s, why, failed)  PROVE up'[t] # "closed"
    BY <1>2, <2>2 DEF Read
  <2>3. QED
    BY <1>5, <2>1, <2>2 DEF Sync
<1>6. ASSUME NEW s \in Surfaces, Talk(s)  PROVE up'[t] # "closed"
  <2>1. up' = up /\ up[s] # "closed" /\ \A x \in Surfaces \ {s} : turn'[x] = turn[x]
    <3>1. CASE Ask(s) \/ Answer(s) \/ Fail(s) \/ Notice(s) \/ EndTurn(s)
      BY <1>1, <3>1 DEF TypeOK, Awake, Ask, TakesTurn, Answer, Fail, Notice, EndTurn
    <3>2. ASSUME NEW k, RefuseRegeneration(s, k)
          PROVE  /\ up' = up /\ up[s] # "closed" /\ turn' = turn
      BY <3>2 DEF RefuseRegeneration, Command, Commanded
    <3>3. ASSUME NEW k, NEW mode, Regenerate(s, k, mode)
          PROVE  /\ up' = up /\ up[s] # "closed"
                 /\ \A x \in Surfaces \ {s} : turn'[x] = turn[x]
      BY <1>1, <3>3 DEF TypeOK, Regenerate, TakesTurn, Commanded
    <3>4. QED
      BY <1>6, <3>1, <3>2, <3>3 DEF Talk
  <2>2. QED
    BY <1>1, <2>1 DEF Awake
<1>7. ASSUME NEW s \in Surfaces, Edit(s)  PROVE up'[t] # "closed"
  <2>1. UNCHANGED <<up, turn>>
    BY <1>7 DEF Edit, Touch, NewChat, Switch, ForkMessage, EraseMessage, Command, Commanded
  <2>2. QED
    BY <1>2, <2>1
<1>8. CASE Organise
  <2>1. UNCHANGED <<up, turn>>
    BY <1>8 DEF Organise, ForkChat, EraseChat, ArchiveChat, MoveChat, FileChat, NewProject,
                EraseProject, ArchiveProject, NewFolder, EraseFolder, Command, Commanded
  <2>2. QED
    BY <1>2, <2>1
<1>9. QED
  BY <1>3, <1>4, <1>5, <1>6, <1>7, <1>8 DEF Next

\* The start has the stronger invariant, and every step keeps it.
LEMMA InitLosesNothing == Init => LossInv
<1> SUFFICES ASSUME Init  PROVE LossInv
  OBVIOUS
<1>1. ChatInv /\ MaxSessions \in Nat
  BY InitHasIt, BoundsAreNaturals
<1>2. Numbered(stored, made)
  <2> DEFINE S == Present(stored) \cup {0}
  <2>1. S \in SUBSET (0..MaxSessions) /\ S # {}
    BY <1>1 DEF Present, Sessions
  <2>2. made = First(S)
    BY DEF Init
  <2> HIDE DEF S
  <2>3. \A j \in S : j <= made
    BY <1>1, <2>1, <2>2, FirstIsNewest
  <2>4. QED
    BY <2>3 DEF Numbered, S
<1>3. \A s \in Surfaces : /\ mem[s] = Blank /\ DOMAIN pulls[s] = {} /\ up[s] = "closed"
                          /\ turn[s].at = "idle"
  BY DEF Init, NoTurn
<1>4. Present(Blank) = {}
  BY DEF Present, Blank, NoSession
<1>5. AllNumbered
  BY <1>2, <1>3, <1>4 DEF AllNumbered, Numbered
<1>6. Complete /\ Awake
  BY <1>3 DEF Complete, InStep, Awake
<1>7. QED
  BY <1>1, <1>5, <1>6 DEF LossInv

LEMMA StepLosesNothing == LossInv /\ [Next]_vars => LossInv' /\ (LosesNothing \/ UNCHANGED vars)
<1> SUFFICES ASSUME LossInv, [Next]_vars  PROVE LossInv' /\ (LosesNothing \/ UNCHANGED vars)
  OBVIOUS
<1>1. ChatInv'
  BY StepKeeps DEF LossInv
<1>2. CASE UNCHANGED vars
  <2>1. AllNumbered' /\ Complete' /\ Awake'
    BY <1>2 DEF LossInv, AllNumbered, Complete, Awake, InStep, vars
  <2>2. QED
    BY <1>1, <1>2, <2>1 DEF LossInv
<1>3. CASE Next
  <2>1. ASSUME NEW s \in Surfaces, Sync(s)  PROVE LosesNothing
    BY <2>1, AssignSafe, ReadSafe DEF Sync
  <2>2. ASSUME NEW s \in Surfaces, Talk(s)  PROVE LosesNothing
    BY <2>2, TurnSafe, RefuseSafe, RegenerateSafe DEF Talk
  <2>3. LosesNothing
    BY <1>3, <2>1, <2>2, OpenCloseSafe, GreetSafe, EditSafe, OrganiseSafe DEF Next
  <2>4. QED
    BY <1>1, <1>3, <2>3, AwakeKept DEF LossInv, LosesNothing
<1>4. QED
  BY <1>2, <1>3

\* While every open surface is in step, no step takes a chat or a message out
\* of the storage but one of a command that is there to remove something.
THEOREM NothingLostInStep == Spec => InStepKeepsAll
<1> DEFINE P == (\A s \in Surfaces : up[s] = "closed" \/ InStep(s)) => Kept \/ Destructive
<1>1. LossInv /\ [Next]_vars => [P]_vars
  BY StepLosesNothing DEF LosesNothing
<1>2. Spec => []LossInv
  BY InitLosesNothing, StepLosesNothing, PTL DEF Spec
<1> HIDE DEF P
<1>3. Spec => [][P]_vars
  BY <1>1, <1>2, PTL DEF Spec
<1>4. QED
  BY <1>3 DEF InStepKeepsAll, P
=============================================================================
