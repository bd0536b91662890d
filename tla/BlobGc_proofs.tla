---------------------------- MODULE BlobGc_proofs ----------------------------
(***************************************************************************)
(* Proofs about the asset store and its collector, for any assets,         *)
(* sessions, histories and limits: a pass removes nothing that is reachable *)
(* but blobs that came into use after it had marked memory, a recovery      *)
(* lacks no other bytes, and a pass that did not use up its deletions has   *)
(* removed all the garbage it looked at.                                   *)
(***************************************************************************)
EXTENDS BlobGc, SequenceTheorems, TLAPS

\* What a session's history, and an import, keep in memory, and what a session is
\* about to use or may use: m its state, i its import, o the document that is being
\* opened, p the hashes its proposals name.
Holds(stack, h) == \E k \in DOMAIN stack : h \in stack[k]
Remembers(m, h) ==
    m # NoSession /\ (h \in m.doc \/ Holds(m.undo, h) \/ Holds(m.redo, h))
Imports(i, h) == i # NoImport /\ i.hash = h
InUse(m, i, o, p, h) ==
    \/ Remembers(m, h) \/ Imports(i, h)
    \/ o # NoDocument /\ h \in o.doc
    \/ m # NoSession /\ h \in p
Uses(s, h) == InUse(memory[s], imports[s], opening[s], proposals[s], h)

\* What the journal of a candidate names, and what the files of one that is
\* whole name and embed.
Logs(f, h) == f # NoFiles /\ h \in f.logged
Names(f, h) == Logs(f, h) /\ f.whole
Embeds(f, h) == f # NoFiles /\ f.whole /\ h \in f.base

\* A session with its recovery files, its import, and whether it is rotating: a
\* session's files hold its document, an import that stored its bytes can count
\* on them, and files that can be recovered name or embed all they need.  What
\* is there are the blobs, and those that went although they had come into use.
Sound(m, f, i, rotates, there) ==
    /\ m # NoSession => f # NoFiles /\ f.whole /\ f.doc = m.doc
    /\ rotates => m # NoSession /\ f.base = m.doc /\ ~(i # NoImport /\ i.stored)
    /\ i # NoImport /\ i.stored => m # NoSession /\ i.hash \in there
    /\ f # NoFiles /\ f.whole /\ f.consistent =>
          /\ f.doc \subseteq f.base \cup f.logged
          /\ f.doc \cup f.logged \subseteq f.base \cup there
There == Stored \cup lost
SoundSession(s) ==
    /\ Sound(memory[s], files[s], imports[s], s \in rotating, There)
    /\ memory[s] = NoSession => proposals[s] = {}

Reading(s) == s \in pass.toRead \cup pass.halfRead

\* A blob that the pass may still remove, and those it spares or removes knowing
\* no better.
MayGo(h) == h \in pass.toSweep /\ (pass.step = "sweep" => blobs[h] = "old")
Known == pass.marked \cup pass.revived

\* What a pass knows of the blobs in use, and the garbage it is to remove.
Marks ==
    /\ \A h \in InMemory \cup Unstaged : MayGo(h) => h \in Known
    /\ pass.step # "read" => pass.toRead = {} /\ pass.halfRead = {}
    /\ pass.step # "sweep" => \A h \in Hashes : blobs[h] = "old" => h \in pass.toSweep
    /\ pass.step # "list" =>
          \A s \in Sessions : \A h \in Hashes :
             Names(files[s], h) /\ ~Reading(s) /\ MayGo(h) => h \in Known
Garbage ==
    \A h \in pass.garbage :
       /\ h \notin InMemory /\ h \notin Unstaged /\ h \notin Logged /\ h \notin Embedded
       /\ h \notin pass.marked
       /\ \A s \in pass.halfRead : ~Logs(files[s], h)
       /\ blobs[h] \in {"old", "absent"}
       /\ pass.step = "sweep" /\ pass.deleted < MaxDeletes /\ blobs[h] = "old" =>
             h \in pass.toSweep

GcInv ==
    /\ TypeOK
    /\ \A s \in Sessions : SoundSession(s)
    /\ pass # NoPass => Marks /\ Garbage
-----------------------------------------------------------------------------
(* Histories and records.                                                  *)

LEMMA PushHolds ==
    ASSUME NEW stack \in Seq(Document), NEW doc \in Document
    PROVE  /\ Append(stack, doc) \in Seq(Document)
           /\ \A h : Holds(Append(stack, doc), h) => Holds(stack, h) \/ h \in doc
<1>1. /\ Append(stack, doc) \in Seq(Document) /\ Len(Append(stack, doc)) = Len(stack) + 1
      /\ \A i \in 1..Len(stack) : Append(stack, doc)[i] = stack[i]
      /\ Append(stack, doc)[Len(stack) + 1] = doc
      /\ Len(stack) \in Nat /\ DOMAIN stack = 1..Len(stack)
  BY AppendProperties, LenProperties
<1>2. DOMAIN Append(stack, doc) = 1..(Len(stack) + 1)
  BY <1>1, LenProperties
<1> DEFINE pushed == Append(stack, doc)
<1>3. \A h : Holds(pushed, h) => Holds(stack, h) \/ h \in doc
  <2> SUFFICES ASSUME NEW h, NEW i \in 1..(Len(stack) + 1), h \in pushed[i]
               PROVE  Holds(stack, h) \/ h \in doc
    BY <1>2 DEF Holds
  <2>1. CASE i = Len(stack) + 1
    BY <1>1, <2>1
  <2>2. CASE i \in 1..Len(stack)
    BY <1>1, <2>2 DEF Holds
  <2> QED BY <1>1, <2>1, <2>2
<1> QED BY <1>1, <1>3

LEMMA PopHolds ==
    ASSUME NEW stack \in Seq(Document), stack # <<>>
    PROVE  /\ Front(stack) \in Seq(Document) /\ Last(stack) \in Document
           /\ \A h : Holds(Front(stack), h) => Holds(stack, h)
           /\ \A h : h \in Last(stack) => Holds(stack, h)
<1>1. /\ Len(stack) \in Nat \ {0} /\ DOMAIN stack = 1..Len(stack)
      /\ \A i \in 1..Len(stack) : stack[i] \in Document
  BY EmptySeq, LenProperties, ElementOfSeq
<1> DEFINE n == Len(stack) - 1
           front == SubSeq(stack, 1, n)
<1>2. 1 \in Int /\ n \in Nat /\ \A i \in 1..n : stack[i] \in Document
  BY <1>1
<1>3. /\ front \in Seq(Document) /\ Len(front) = (IF 1 <= n THEN n - 1 + 1 ELSE 0)
      /\ \A i \in 1..(n - 1 + 1) : front[i] = stack[1 + i - 1]
  BY <1>2, SubSeqProperties
<1>4. Len(front) = n /\ DOMAIN front = 1..n
  <2> HIDE DEF n, front
  <2>1. Len(front) = n
    BY <1>2, <1>3
  <2>2. DOMAIN front = 1..Len(front)
    BY <1>3, LenProperties
  <2> QED BY <2>1, <2>2
<1>5. \A i \in 1..n : front[i] = stack[i] /\ i \in DOMAIN stack
  BY <1>1, <1>2, <1>3
<1>6. \A h : Holds(front, h) => Holds(stack, h)
  BY <1>4, <1>5 DEF Holds
<1>7. Last(stack) \in Document /\ \A h : h \in Last(stack) => Holds(stack, h)
  BY <1>1 DEF Last, Holds
<1> QED BY <1>3, <1>6, <1>7 DEF Front

LEMMA TrimHolds ==
    ASSUME NEW stack \in Seq(Document)
    PROVE  /\ LastOf(stack) \in Seq(Document)
           /\ \A h : Holds(LastOf(stack), h) => Holds(stack, h)
<1> DEFINE n == Len(stack)
           m == IF n > MaxHistory THEN 2 ELSE 1
           kept == SubSeq(stack, m, n)
<1>1. /\ n \in Nat /\ DOMAIN stack = 1..n
      /\ \A i \in 1..n : stack[i] \in Document
  BY LenProperties, ElementOfSeq
<1>2. m \in {1, 2}
  OBVIOUS
<1> HIDE DEF m
<1>3. m \in Int /\ n \in Int /\ \A i \in m..n : stack[i] \in Document
  BY <1>1, <1>2
<1>4. /\ kept \in Seq(Document) /\ Len(kept) = (IF m <= n THEN n - m + 1 ELSE 0)
      /\ \A i \in 1..(n - m + 1) : kept[i] = stack[m + i - 1]
  BY <1>3, SubSeqProperties
<1>5. \A i \in DOMAIN kept : i \in 1..(n - m + 1) /\ m + i - 1 \in 1..n
  BY <1>1, <1>2, <1>4, LenProperties
<1>6. \A h : Holds(kept, h) => Holds(stack, h)
  BY <1>1, <1>4, <1>5 DEF Holds
<1> QED BY <1>4, <1>6 DEF LastOf, m

LEMMA EmptyHolds == <<>> \in Seq(Document) /\ \A h : ~Holds(<<>>, h)
BY EmptySeq DEF Holds

LEMMA SessionFacts ==
    /\ \A m \in Session : /\ m.doc \in Document /\ m.undo \in Seq(Document)
                          /\ m.redo \in Seq(Document) /\ m # NoSession
    /\ \A doc \in Document, undo \in Seq(Document), redo \in Seq(Document) :
          [doc |-> doc, undo |-> undo, redo |-> redo] \in Session
BY NullRecordsAssumption DEF Session

LEMMA FileFacts ==
    \A f \in Files : /\ f.doc \in Document /\ f.base \in Document /\ f.logged \in Document
                     /\ f.consistent \in BOOLEAN /\ f.whole \in BOOLEAN /\ f # NoFiles
BY NullRecordsAssumption DEF Files

LEMMA ImportFacts ==
    /\ \A i \in Import : /\ i.hash \in Hashes /\ i.stored \in BOOLEAN /\ i.staged \in BOOLEAN
                         /\ i # NoImport
    /\ \A h \in Hashes, stored \in BOOLEAN, staged \in BOOLEAN :
          [hash |-> h, stored |-> stored, staged |-> staged] \in Import
BY NullRecordsAssumption DEF Import

LEMMA OpenedFacts ==
    /\ \A o \in Opened : o.doc \in Document /\ o # NoDocument
    /\ \A doc \in Document : [doc |-> doc] \in Opened
BY NullRecordsAssumption DEF Opened

LEMMA PassFacts ==
    \A c \in Pass : /\ c.step \in {"list", "read", "sweep"} /\ c.marked \in Document
                    /\ c.toRead \subseteq Sessions /\ c.halfRead \subseteq Sessions
                    /\ c.toSweep \in Document /\ c.deleted \in Nat /\ c.revived \in Document
                    /\ c.garbage \in Document /\ c # NoPass
BY NullRecordsAssumption DEF Pass

\* What is in memory or about to be used, logged and embedded, session by session.
Index ==
    /\ \A h : h \in InMemory \cup Unstaged <=> \E s \in Sessions : Uses(s, h)
    /\ \A h : h \in Logged <=> \E s \in Sessions : Names(files[s], h)
    /\ \A h : h \in Embedded <=> \E s \in Sessions : Embeds(files[s], h)
    /\ InMemory \subseteq Hashes /\ Unstaged \subseteq Hashes
    /\ Logged \subseteq Hashes /\ Embedded \subseteq Hashes

LEMMA OwnTypes ==
    ASSUME TypeOK, NEW s \in Sessions
    PROVE  /\ memory[s] \in Session \cup {NoSession} /\ files[s] \in Files \cup {NoFiles}
           /\ imports[s] \in Import \cup {NoImport} /\ opening[s] \in Opened \cup {NoDocument}
           /\ proposals[s] \in Document
BY DEF TypeOK

LEMMA Reachable == TypeOK => Index
<1> SUFFICES ASSUME TypeOK PROVE Index
  OBVIOUS
<1>1. \A h : h \in Staged \cup {imports[s].hash : s \in Importing(FALSE)} <=>
         \E s \in Sessions : Imports(imports[s], h)
  <2>1. \A s \in Sessions : imports[s] # NoImport => imports[s].staged \in BOOLEAN
    BY OwnTypes, ImportFacts
  <2> QED BY <2>1 DEF Staged, Importing, Imports
<1>2. \A s \in Sessions : \A h : h \in UNION HistoryOf(s) <=>
         Holds(memory[s].undo, h) \/ Holds(memory[s].redo, h)
  BY DEF HistoryOf, Holds, ToSet
<1>3. \A h : h \in UNION {memory[s].doc \cup proposals[s] \cup UNION HistoryOf(s) : s \in Live} <=>
         \E s \in Sessions : Remembers(memory[s], h) \/ (memory[s] # NoSession /\ h \in proposals[s])
  BY <1>2 DEF Live, Remembers
<1>4. \A h : h \in UNION {opening[s].doc : s \in Opening} <=>
         \E s \in Sessions : opening[s] # NoDocument /\ h \in opening[s].doc
  BY DEF Opening
<1>5. \A h : h \in InMemory \cup Unstaged <=> \E s \in Sessions : Uses(s, h)
  <2> DEFINE remembered == UNION {memory[s].doc \cup proposals[s] \cup UNION HistoryOf(s) : s \in Live}
             unstaged == {imports[s].hash : s \in Importing(FALSE)}
             opened == UNION {opening[s].doc : s \in Opening}
  <2>1. InMemory = Staged \cup remembered /\ Unstaged = unstaged \cup opened
    BY DEF InMemory, Unstaged
  <2> HIDE DEF remembered, unstaged, opened
  <2>2. \A h : h \in InMemory \cup Unstaged <=>
           h \in Staged \cup unstaged \/ h \in remembered \/ h \in opened
    BY <2>1
  <2>3. \A h : h \in Staged \cup unstaged <=> \E s \in Sessions : Imports(imports[s], h)
    BY <1>1 DEF unstaged
  <2>4. \A h : h \in remembered <=> \E s \in Sessions :
           Remembers(memory[s], h) \/ (memory[s] # NoSession /\ h \in proposals[s])
    BY <1>3 DEF remembered
  <2>5. \A h : h \in opened <=> \E s \in Sessions : opening[s] # NoDocument /\ h \in opening[s].doc
    BY <1>4 DEF opened
  <2> QED BY <2>2, <2>3, <2>4, <2>5 DEF Uses, InUse
<1>6. \A h : h \in Logged <=> \E s \in Sessions : Names(files[s], h)
  BY DEF Logged, Whole, Names, Logs
<1>7. \A h : h \in Embedded <=> \E s \in Sessions : Embeds(files[s], h)
  BY DEF Embedded, Whole, Embeds
<1>8. \A stack \in Seq(Document) : \A h : Holds(stack, h) => h \in Hashes
  BY ElementOfSeq, LenProperties DEF Holds, Document
<1>9. \A s \in Sessions : \A h : Uses(s, h) => h \in Hashes
  <2> SUFFICES ASSUME NEW s \in Sessions, NEW h, Uses(s, h) PROVE h \in Hashes
    OBVIOUS
  <2>1. Remembers(memory[s], h) => h \in Hashes
    BY <1>8, OwnTypes, SessionFacts DEF Remembers, Document
  <2>2. Imports(imports[s], h) => h \in Hashes
    BY OwnTypes, ImportFacts DEF Imports
  <2>3. opening[s] # NoDocument /\ h \in opening[s].doc => h \in Hashes
    BY OwnTypes, OpenedFacts DEF Document
  <2>4. h \in proposals[s] => h \in Hashes
    BY OwnTypes DEF Document
  <2> QED BY <2>1, <2>2, <2>3, <2>4 DEF Uses, InUse
<1>10. \A s \in Sessions : \A h : Names(files[s], h) \/ Embeds(files[s], h) => h \in Hashes
  BY OwnTypes, FileFacts DEF Names, Logs, Embeds, Document
<1>11. InMemory \cup Unstaged \subseteq Hashes /\ Logged \subseteq Hashes /\ Embedded \subseteq Hashes
  BY <1>5, <1>6, <1>7, <1>9, <1>10
<1> QED BY <1>5, <1>6, <1>7, <1>11 DEF Index

LEMMA OwnState ==
    ASSUME GcInv, NEW s \in Sessions
    PROVE  /\ memory \in [Sessions -> Session \cup {NoSession}]
           /\ files \in [Sessions -> Files \cup {NoFiles}]
           /\ imports \in [Sessions -> Import \cup {NoImport}]
           /\ opening \in [Sessions -> Opened \cup {NoDocument}]
           /\ proposals \in [Sessions -> Document]
           /\ memory[s] \in Session \cup {NoSession} /\ files[s] \in Files \cup {NoFiles}
           /\ imports[s] \in Import \cup {NoImport} /\ opening[s] \in Opened \cup {NoDocument}
           /\ proposals[s] \in Document
           /\ rotating \subseteq Sessions /\ pass \in Pass \cup {NoPass}
           /\ blobs \in [Hashes -> {"absent", "fresh", "old"}] /\ lost \in Document
           /\ Sound(memory[s], files[s], imports[s], s \in rotating, There)
           /\ memory[s] = NoSession => proposals[s] = {}
BY DEF GcInv, TypeOK, SoundSession

-----------------------------------------------------------------------------
(* The steps of a session.                                                 *)

\* Storing bytes makes no blob old, and takes nothing away.
LEMMA PutFacts ==
    ASSUME blobs \in [Hashes -> {"absent", "fresh", "old"}], lost \in Document,
           NEW put \in Document, Put(put)
    PROVE  /\ blobs' \in [Hashes -> {"absent", "fresh", "old"}] /\ lost' \in Document
           /\ put \subseteq Stored' /\ Stored \subseteq Stored' /\ There \subseteq There'
           /\ \A h \in Hashes : /\ blobs'[h] = "old" <=> blobs[h] = "old"
                                /\ h \notin put => blobs'[h] = blobs[h]
<1>1. /\ \A h \in Hashes : blobs'[h] = IF h \in put \ Stored THEN "fresh" ELSE blobs[h]
      /\ blobs' \in [Hashes -> {"absent", "fresh", "old"}]
      /\ lost' = lost \ put /\ put \subseteq Hashes
  BY DEF Put, Document
<1>2. put \subseteq Stored' /\ Stored \subseteq Stored'
  BY <1>1 DEF Stored
<1>3. There \subseteq There'
  BY <1>1, <1>2 DEF There
<1>4. lost' \in Document
  BY <1>1 DEF Document
<1>5. \A h \in Hashes : /\ blobs'[h] = "old" <=> blobs[h] = "old"
                        /\ h \notin put => blobs'[h] = blobs[h]
  BY <1>1 DEF Stored
<1> QED BY <1>1, <1>2, <1>3, <1>4, <1>5

\* A step that stores nothing and brings nothing into use.
LEMMA NothingStored ==
    ASSUME GcInv, UNCHANGED <<blobs, lost>>
    PROVE  Put({}) /\ {} \in Document
<1>1. blobs \in [Hashes -> {"absent", "fresh", "old"}]
  BY DEF GcInv, TypeOK
<1>2. blobs = [h \in Hashes |-> IF h \in {} \ Stored THEN "fresh" ELSE blobs[h]]
  BY <1>1
<1>3. lost = lost \ {}
  OBVIOUS
<1> QED BY <1>2, <1>3 DEF Put, Document

LEMMA NothingRevived ==
    ASSUME GcInv, pass' = pass
    PROVE  Revived({})
<1>1. pass \in Pass \cup {NoPass}
  BY DEF GcInv, TypeOK
<1>2. pass \in Pass =>
        pass = [pass EXCEPT !.garbage = @ \ {},
                            !.revived = @ \cup (({} \cap pass.toSweep) \ pass.marked)]
  BY DEF Pass, Document
<1> QED BY <1>1, <1>2 DEF Revived

LEMMA RevivedFacts ==
    ASSUME NEW used, pass \in Pass,
           Revived(used)
    PROVE  /\ pass' \in Pass /\ pass' # NoPass
           /\ pass'.step = pass.step /\ pass'.marked = pass.marked
           /\ pass'.toRead = pass.toRead /\ pass'.halfRead = pass.halfRead
           /\ pass'.toSweep = pass.toSweep /\ pass'.deleted = pass.deleted
           /\ pass'.garbage = pass.garbage \ used
           /\ pass.revived \subseteq pass'.revived
           /\ \A h \in used : h \in pass.toSweep => h \in pass.marked \cup pass'.revived
<1>1. pass' = [pass EXCEPT !.garbage = @ \ used,
                           !.revived = @ \cup ((used \cap pass.toSweep) \ pass.marked)]
  BY PassFacts DEF Revived
<1>2. pass.toSweep \in Document
  BY PassFacts
<1>3. pass' \in Pass
  BY <1>1, <1>2 DEF Pass, Document
<1>4. pass' # NoPass
  BY <1>3, PassFacts
<1> QED BY <1>1, <1>3, <1>4 DEF Pass

\* A step that leaves s with m, f, i, o and p brings nothing into use but used.
Brings(s, used, m, f, i, o, p) ==
    \A h \in Hashes :
       /\ InUse(m, i, o, p, h) => Uses(s, h) \/ h \in used
       /\ Names(f, h) => Names(files[s], h) \/ Uses(s, h) \/ h \in used
       /\ Logs(f, h) => Logs(files[s], h) \/ Uses(s, h) \/ h \in used
       /\ Embeds(f, h) => Embeds(files[s], h) \/ Uses(s, h) \/ h \in used

LEMMA SessionKeeps ==
    ASSUME GcInv, NEW s \in Sessions, NEW m \in Session \cup {NoSession},
           NEW f \in Files \cup {NoFiles}, NEW i \in Import \cup {NoImport},
           NEW o \in Opened \cup {NoDocument}, NEW p \in Document, NEW used,
           NEW put \in Document,
           memory' = [memory EXCEPT ![s] = m], files' = [files EXCEPT ![s] = f],
           imports' = [imports EXCEPT ![s] = i], opening' = [opening EXCEPT ![s] = o],
           proposals' = [proposals EXCEPT ![s] = p],
           rotating' \subseteq Sessions,
           \A t \in Sessions \ {s} : t \in rotating' <=> t \in rotating,
           Put(put), \A h \in put : Uses(s, h) \/ h \in used,
           Sound(m, f, i, s \in rotating', There'), m = NoSession => p = {},
           Brings(s, used, m, f, i, o, p),
           Revived(used)
    PROVE  GcInv'
<1>1. /\ memory \in [Sessions -> Session \cup {NoSession}]
      /\ files \in [Sessions -> Files \cup {NoFiles}]
      /\ imports \in [Sessions -> Import \cup {NoImport}]
      /\ opening \in [Sessions -> Opened \cup {NoDocument}]
      /\ proposals \in [Sessions -> Document]
      /\ blobs \in [Hashes -> {"absent", "fresh", "old"}] /\ lost \in Document
      /\ pass \in Pass \cup {NoPass} /\ TypeOK
  BY OwnState DEF GcInv
<1>2. /\ memory'[s] = m /\ files'[s] = f /\ imports'[s] = i /\ opening'[s] = o
      /\ proposals'[s] = p
      /\ \A t \in Sessions \ {s} :
            /\ memory'[t] = memory[t] /\ files'[t] = files[t] /\ imports'[t] = imports[t]
            /\ opening'[t] = opening[t] /\ proposals'[t] = proposals[t]
  BY <1>1
<1>3. pass' \in Pass \cup {NoPass} /\ (pass' # NoPass => pass # NoPass)
  <2>1. CASE pass = NoPass
    BY <2>1 DEF Revived
  <2>2. CASE pass \in Pass
    BY <2>2, RevivedFacts, PassFacts
  <2> QED BY <1>1, <2>1, <2>2
<1>4. /\ blobs' \in [Hashes -> {"absent", "fresh", "old"}] /\ lost' \in Document
      /\ There \subseteq There'
      /\ \A h \in Hashes : /\ blobs'[h] = "old" <=> blobs[h] = "old"
                           /\ h \notin put => blobs'[h] = blobs[h]
  BY <1>1, PutFacts
<1>5. TypeOK'
  <2>1. /\ memory' \in [Sessions -> Session \cup {NoSession}]
        /\ files' \in [Sessions -> Files \cup {NoFiles}]
        /\ imports' \in [Sessions -> Import \cup {NoImport}]
        /\ opening' \in [Sessions -> Opened \cup {NoDocument}]
        /\ proposals' \in [Sessions -> Document]
    BY <1>1
  <2> QED BY <1>3, <1>4, <2>1 DEF TypeOK
<1>6. ASSUME NEW t \in Sessions
      PROVE  SoundSession(t)'
  <2>1. CASE t = s
    BY <1>2, <2>1 DEF SoundSession
  <2>2. CASE t # s
    <3>1. /\ Sound(memory[t], files[t], imports[t], t \in rotating, There)
          /\ memory[t] = NoSession => proposals[t] = {}
      BY OwnState
    <3>2. Sound(memory[t], files[t], imports[t], t \in rotating, There')
      BY <1>4, <3>1 DEF Sound
    <3> QED BY <1>2, <2>2, <3>1, <3>2 DEF SoundSession
  <2> QED BY <2>1, <2>2
<1>7. ASSUME pass' # NoPass
      PROVE  Marks' /\ Garbage'
  <2>1. pass # NoPass /\ pass \in Pass
    BY <1>1, <1>3, <1>7
  <2>2. /\ pass'.step = pass.step /\ pass'.marked = pass.marked
        /\ pass'.toRead = pass.toRead /\ pass'.halfRead = pass.halfRead
        /\ pass'.toSweep = pass.toSweep /\ pass'.deleted = pass.deleted
        /\ pass'.garbage = pass.garbage \ used
        /\ pass.revived \subseteq pass'.revived
        /\ \A h \in used : h \in pass.toSweep => h \in pass.marked \cup pass'.revived
    BY <2>1, RevivedFacts
  <2>3. Marks /\ Garbage /\ pass.garbage \subseteq Hashes
    BY <2>1, PassFacts DEF GcInv, Document
  <2>4. /\ \A h : h \in InMemory \cup Unstaged <=> \E t \in Sessions : Uses(t, h)
        /\ \A h : h \in Logged <=> \E t \in Sessions : Names(files[t], h)
        /\ \A h : h \in Embedded <=> \E t \in Sessions : Embeds(files[t], h)
    BY <1>1, Reachable DEF Index
  <2>5. /\ \A h : h \in InMemory' \cup Unstaged' <=> \E t \in Sessions : Uses(t, h)'
        /\ \A h : h \in Logged' <=> \E t \in Sessions : Names(files'[t], h)
        /\ \A h : h \in Embedded' <=> \E t \in Sessions : Embeds(files'[t], h)
        /\ InMemory' \subseteq Hashes /\ Unstaged' \subseteq Hashes
        /\ Logged' \subseteq Hashes /\ Embedded' \subseteq Hashes
    <3>1. TypeOK' => Index'
      BY Reachable, PTL
    <3> QED BY <1>5, <3>1 DEF Index, Names, Logs, Embeds
  <2>6. \A h : /\ Uses(s, h)' <=> InUse(m, i, o, p, h)
               /\ \A t \in Sessions \ {s} : Uses(t, h)' <=> Uses(t, h)
    BY <1>2 DEF Uses, InUse, Remembers, Imports, Holds
  <2>7. \A h \in Hashes : h \in InMemory' \cup Unstaged' => h \in InMemory \cup Unstaged \/ h \in used
    BY <2>4, <2>5, <2>6 DEF Brings
  <2>8. \A h \in Hashes : h \in Logged' => h \in Logged \/ h \in InMemory \cup Unstaged \/ h \in used
    BY <1>2, <2>4, <2>5 DEF Brings
  <2>9. \A h \in Hashes :
           h \in Embedded' => h \in Embedded \/ h \in InMemory \cup Unstaged \/ h \in used
    BY <1>2, <2>4, <2>5 DEF Brings
  <2>10. \A h \in Hashes : /\ MayGo(h)' <=> MayGo(h)
                           /\ h \in Known => h \in Known'
                           /\ h \in used /\ MayGo(h) => h \in Known'
    BY <1>4, <2>2 DEF MayGo, Known
  <2>11. ASSUME NEW h \in pass'.garbage
         PROVE  /\ h \in Hashes /\ h \in pass.garbage /\ h \notin used
                /\ h \notin InMemory \cup Unstaged /\ h \notin Logged /\ h \notin Embedded
                /\ blobs'[h] = blobs[h]
    <3>1. h \in Hashes /\ h \in pass.garbage /\ h \notin used
      BY <2>2, <2>3, <2>11
    <3>2. h \notin InMemory \cup Unstaged /\ h \notin Logged /\ h \notin Embedded
      BY <2>3, <3>1 DEF Garbage
    <3>3. h \notin put
      BY <2>4, <3>1, <3>2
    <3> QED BY <1>4, <3>1, <3>2, <3>3
  <2>12. Garbage'
    <3>1. ASSUME NEW h \in pass'.garbage, NEW t \in Sessions, t \in pass.halfRead
          PROVE  ~Logs(files'[t], h)
      <4>1. ~Logs(files[t], h) /\ ~Uses(t, h)
        BY <2>3, <2>4, <2>11, <3>1 DEF Garbage
      <4> QED BY <1>2, <2>11, <3>1, <4>1 DEF Brings
    <3>2. pass.halfRead \subseteq Sessions
      BY <2>1, PassFacts
    <3>3. ASSUME NEW h \in pass'.garbage
          PROVE  /\ h \notin InMemory' /\ h \notin Unstaged' /\ h \notin Logged' /\ h \notin Embedded'
                 /\ h \notin pass'.marked
                 /\ \A t \in pass'.halfRead : ~Logs(files[t], h)'
                 /\ blobs'[h] \in {"old", "absent"}
                 /\ pass'.step = "sweep" /\ pass'.deleted < MaxDeletes /\ blobs'[h] = "old" =>
                       h \in pass'.toSweep
      <4>1. h \notin InMemory' /\ h \notin Unstaged' /\ h \notin Logged' /\ h \notin Embedded'
        BY <2>7, <2>8, <2>9, <2>11
      <4>2. \A t \in pass'.halfRead : ~Logs(files[t], h)'
        BY <2>2, <3>1, <3>2 DEF Logs
      <4>3. /\ h \notin pass.marked /\ blobs[h] \in {"old", "absent"}
            /\ pass.step = "sweep" /\ pass.deleted < MaxDeletes /\ blobs[h] = "old" =>
                  h \in pass.toSweep
        BY <2>3, <2>11 DEF Garbage
      <4> QED BY <2>2, <2>11, <4>1, <4>2, <4>3
    <3> QED BY <3>3 DEF Garbage
  <2>13. ASSUME pass'.step # "list", NEW t \in Sessions, NEW h \in Hashes,
                Names(files'[t], h), ~Reading(t)', MayGo(h)'
         PROVE  h \in Known'
    <3>1. ~Reading(t) /\ pass.step # "list" /\ MayGo(h)
      BY <2>2, <2>10, <2>13 DEF Reading
    <3>2. Names(files[t], h) \/ h \in InMemory \cup Unstaged \/ h \in used
      BY <1>2, <2>4, <2>13 DEF Brings
    <3>3. Names(files[t], h) => h \in Known
      BY <2>3, <2>13, <3>1 DEF Marks
    <3>4. h \in InMemory \cup Unstaged => h \in Known
      BY <2>3, <3>1 DEF Marks
    <3> QED BY <2>10, <3>1, <3>2, <3>3, <3>4
  <2>14. \A h \in InMemory' \cup Unstaged' : MayGo(h)' => h \in Known'
    <3> SUFFICES ASSUME NEW h \in InMemory' \cup Unstaged', MayGo(h)' PROVE h \in Known'
      OBVIOUS
    <3>1. h \in Hashes /\ MayGo(h)
      BY <2>5, <2>10
    <3>2. h \in InMemory \cup Unstaged => h \in Known
      BY <2>3, <3>1 DEF Marks
    <3> QED BY <2>7, <2>10, <3>1, <3>2
  <2>15. /\ pass'.step # "read" => pass'.toRead = {} /\ pass'.halfRead = {}
         /\ pass'.step # "sweep" => \A h \in Hashes : blobs'[h] = "old" => h \in pass'.toSweep
    BY <1>4, <2>2, <2>3 DEF Marks
  <2>16. Marks'
    <3>1. \A t \in Sessions, h \in Hashes : Names(files[t], h)' <=> Names(files'[t], h)
      BY DEF Names, Logs
    <3> QED BY <2>13, <2>14, <2>15, <3>1 DEF Marks
  <2> QED BY <2>12, <2>16
<1> QED BY <1>5, <1>6, <1>7 DEF GcInv

\* A step that changes only the state of s and stores nothing.
LEMMA PlainStep ==
    ASSUME GcInv, NEW s \in Sessions, NEW m \in Session \cup {NoSession},
           NEW f \in Files \cup {NoFiles}, NEW i \in Import \cup {NoImport},
           NEW o \in Opened \cup {NoDocument}, NEW p \in Document, NEW used,
           memory' = [memory EXCEPT ![s] = m], files' = [files EXCEPT ![s] = f],
           imports' = [imports EXCEPT ![s] = i], opening' = [opening EXCEPT ![s] = o],
           proposals' = [proposals EXCEPT ![s] = p],
           rotating' \subseteq Sessions,
           \A t \in Sessions \ {s} : t \in rotating' <=> t \in rotating,
           UNCHANGED <<blobs, lost>>,
           Sound(m, f, i, s \in rotating', There), m = NoSession => p = {},
           Brings(s, used, m, f, i, o, p),
           Revived(used)
    PROVE  GcInv'
<1>1. Put({}) /\ {} \in Document
  BY NothingStored
<1>2. There' = There
  BY DEF There, Stored
<1>3. Sound(m, f, i, s \in rotating', There')
  BY <1>2
<1> QED BY <1>1, <1>3, SessionKeeps

\* A step that journals a document of a session: what it names is part of the
\* document, and its bytes are in the session's document or there.
LEMMA JournalStep ==
    ASSUME GcInv, NEW s \in Sessions, NEW m \in Session, NEW named \in Document,
           NEW i \in {imports[s], NoImport}, NEW p \in SUBSET proposals[s],
           memory[s] # NoSession, s \notin rotating,
           memory' = [memory EXCEPT ![s] = m], Log(s, m.doc, named),
           imports' = [imports EXCEPT ![s] = i], proposals' = [proposals EXCEPT ![s] = p],
           UNCHANGED <<blobs, opening, rotating, pass, lost>>,
           named \subseteq m.doc, m.doc \subseteq memory[s].doc \cup named,
           named \subseteq memory[s].doc \cup There,
           \A h : Remembers(m, h) => Uses(s, h)
    PROVE  GcInv'
<1> DEFINE f == [files[s] EXCEPT !.doc = m.doc, !.logged = @ \cup named]
<1>1. /\ memory[s] \in Session \cup {NoSession} /\ files[s] \in Files \cup {NoFiles}
      /\ files \in [Sessions -> Files \cup {NoFiles}]
      /\ opening \in [Sessions -> Opened \cup {NoDocument}]
      /\ opening[s] \in Opened \cup {NoDocument} /\ proposals[s] \in Document
      /\ imports[s] \in Import \cup {NoImport} /\ rotating \subseteq Sessions
      /\ Sound(memory[s], files[s], imports[s], s \in rotating, There)
  BY OwnState
<1>2. files[s] \in Files /\ files[s].whole /\ files[s].doc = memory[s].doc
      /\ m.doc \in Document
  BY <1>1, SessionFacts DEF Sound
<1>3. f \in Files
  BY <1>2, FileFacts DEF Files, Document
<1>4. /\ f.doc = m.doc /\ f.logged = files[s].logged \cup named /\ f.base = files[s].base
      /\ f.whole = files[s].whole /\ f.consistent = files[s].consistent
  BY <1>2 DEF Files
<1>5. files' = [files EXCEPT ![s] = f]
  BY <1>1 DEF Log
<1> HIDE DEF f
<1>6. Sound(m, f, i, s \in rotating', There)
  <2>1. m # NoSession => f # NoFiles /\ f.whole /\ f.doc = m.doc
    BY <1>2, <1>3, <1>4, FileFacts
  <2>2. s \notin rotating'
    OBVIOUS
  <2>3. i # NoImport /\ i.stored => m # NoSession /\ i.hash \in There
    BY <1>1, SessionFacts DEF Sound
  <2>4. f.consistent => /\ f.doc \subseteq f.base \cup f.logged
                        /\ f.doc \cup f.logged \subseteq f.base \cup There
    BY <1>1, <1>2, <1>4, FileFacts DEF Sound
  <2> QED BY <2>1, <2>2, <2>3, <2>4 DEF Sound
<1>7. Brings(s, {}, m, f, i, opening[s], p)
  <2>1. \A h : InUse(m, i, opening[s], p, h) => Uses(s, h)
    BY DEF Imports, InUse, Uses
  <2>2. \A h : Names(f, h) => Names(files[s], h) \/ Remembers(m, h)
    BY <1>2, <1>4, SessionFacts, FileFacts DEF Names, Logs, Remembers
  <2>3. \A h : Embeds(f, h) => Embeds(files[s], h)
    BY <1>2, <1>4, FileFacts DEF Embeds
  <2>4. \A h : Logs(f, h) => Logs(files[s], h) \/ Remembers(m, h)
    BY <1>2, <1>4, SessionFacts, FileFacts DEF Logs, Remembers
  <2> QED BY <2>1, <2>2, <2>3, <2>4 DEF Brings
<1>8. i \in Import \cup {NoImport} /\ p \in Document /\ opening' = [opening EXCEPT ![s] = opening[s]]
  BY <1>1 DEF Document
<1>9. m # NoSession
  BY SessionFacts
<1> QED BY <1>1, <1>3, <1>5, <1>6, <1>7, <1>8, <1>9, NothingRevived, PlainStep

LEMMA EditStep ==
    ASSUME GcInv, NEW s \in Sessions, NEW doc \in Document, NEW named \in Document,
           NEW i \in {imports[s], NoImport}, NEW p \in SUBSET proposals[s],
           memory[s] # NoSession, s \notin rotating, Edit(s, doc, named),
           imports' = [imports EXCEPT ![s] = i], proposals' = [proposals EXCEPT ![s] = p],
           UNCHANGED <<blobs, opening, rotating, pass, lost>>,
           named \subseteq doc, doc \subseteq memory[s].doc \cup named,
           named \subseteq memory[s].doc \cup There,
           \A h \in named : Uses(s, h)
    PROVE  GcInv'
<1>1. memory[s] \in Session
  BY OwnState
<1>2. memory[s].doc \in Document /\ memory[s].undo \in Seq(Document)
  BY <1>1, SessionFacts
<1>3. PICK undo \in Histories(s) :
         memory' = [memory EXCEPT ![s] = [doc |-> doc, undo |-> undo, redo |-> <<>>]]
  BY DEF Edit
<1> DEFINE pushed == Append(memory[s].undo, memory[s].doc)
<1>4. /\ pushed \in Seq(Document)
      /\ \A h : Holds(pushed, h) => Holds(memory[s].undo, h) \/ h \in memory[s].doc
  BY <1>2, PushHolds
<1>5. /\ LastOf(pushed) \in Seq(Document)
      /\ \A h : Holds(LastOf(pushed), h) => Holds(pushed, h)
  BY <1>4, TrimHolds
<1>6. undo \in Seq(Document)
      /\ \A h : Holds(undo, h) => Holds(memory[s].undo, h) \/ h \in memory[s].doc
  <2>1. undo = LastOf(pushed) \/ undo = memory[s].undo
    BY <1>3 DEF Histories
  <2> QED BY <1>2, <1>4, <1>5, <2>1
<1> DEFINE m == [doc |-> doc, undo |-> undo, redo |-> <<>>]
<1>7. m \in Session /\ m.doc = doc /\ m.undo = undo /\ m.redo = <<>>
  BY <1>6, EmptyHolds, SessionFacts
<1>8. memory' = [memory EXCEPT ![s] = m] /\ Log(s, m.doc, named)
  BY <1>3 DEF Edit
<1> HIDE DEF m, pushed
<1>9. \A h : Remembers(m, h) => Uses(s, h)
  BY <1>6, <1>7, EmptyHolds DEF Remembers, Uses, InUse
<1> QED BY <1>7, <1>8, <1>9, JournalStep

LEMMA EditsKeep ==
    ASSUME GcInv, NEW s \in Sessions,
           CommitImport(s) \/ \E h \in Hashes : RemoveAsset(s, h)
    PROVE  GcInv'
<1>1. /\ memory[s] \in Session \cup {NoSession} /\ imports[s] \in Import \cup {NoImport}
      /\ imports \in [Sessions -> Import \cup {NoImport}]
      /\ proposals \in [Sessions -> Document]
      /\ Sound(memory[s], files[s], imports[s], s \in rotating, There)
  BY OwnState
<1>2. memory[s] \in Session => memory[s].doc \in Document
  BY SessionFacts
<1>3. CASE CommitImport(s)
  <2> DEFINE h == imports[s].hash
  <2>1. imports[s] # NoImport /\ imports[s].stored /\ imports[s] \in Import
    BY <1>1, <1>3 DEF CommitImport
  <2>2. memory[s] # NoSession /\ s \notin rotating /\ h \in There /\ h \in Hashes
    BY <1>1, <2>1, ImportFacts DEF Sound
  <2>3. memory[s].doc \cup {h} \in Document /\ {h} \in Document
    BY <1>1, <1>2, <2>2 DEF Document
  <2>4. Uses(s, h)
    BY <2>1 DEF Uses, InUse, Imports
  <2>5. PICK done : proposals' = [proposals EXCEPT ![s] = @ \ done]
    BY <1>3 DEF CommitImport
  <2>6. proposals' = [proposals EXCEPT ![s] = proposals[s] \ done]
        /\ proposals[s] \ done \in SUBSET proposals[s]
    BY <1>1, <2>5
  <2>7. /\ Edit(s, memory[s].doc \cup {h}, {h}) /\ imports' = [imports EXCEPT ![s] = NoImport]
        /\ UNCHANGED <<blobs, opening, rotating, pass, lost>>
    BY <1>3 DEF CommitImport
  <2> HIDE DEF h
  <2> DEFINE doc == memory[s].doc \cup {h}
             named == {h}
             p == proposals[s] \ done
  <2>8. /\ named \subseteq doc /\ doc \subseteq memory[s].doc \cup named
        /\ named \subseteq memory[s].doc \cup There /\ \A x \in named : Uses(s, x)
        /\ doc \in Document /\ named \in Document /\ Edit(s, doc, named)
        /\ p \in SUBSET proposals[s] /\ proposals' = [proposals EXCEPT ![s] = p]
    BY <2>2, <2>3, <2>4, <2>6, <2>7
  <2> HIDE DEF doc, named, p
  <2>9. NoImport \in {imports[s], NoImport}
    OBVIOUS
  <2> QED BY <2>2, <2>7, <2>8, <2>9, EditStep
<1>4. ASSUME NEW h \in Hashes, RemoveAsset(s, h)
      PROVE  GcInv'
  <2>1. memory[s] # NoSession /\ s \notin rotating
    BY <1>4 DEF RemoveAsset, Idle
  <2>2. memory[s].doc \ {h} \in Document /\ {} \in Document
    BY <1>1, <1>2, <2>1 DEF Document
  <2>3. /\ Edit(s, memory[s].doc \ {h}, {})
        /\ imports' = [imports EXCEPT ![s] = imports[s]]
        /\ proposals' = [proposals EXCEPT ![s] = proposals[s]]
        /\ UNCHANGED <<blobs, opening, rotating, pass, lost>>
    BY <1>1, <1>4 DEF RemoveAsset, coming
  <2> DEFINE doc == memory[s].doc \ {h}
             named == {}
  <2>4. /\ named \subseteq doc /\ doc \subseteq memory[s].doc \cup named
        /\ named \subseteq memory[s].doc \cup There /\ \A x \in named : Uses(s, x)
        /\ doc \in Document /\ named \in Document /\ Edit(s, doc, named)
    BY <2>2, <2>3
  <2>5. imports[s] \in {imports[s], NoImport} /\ proposals[s] \in SUBSET proposals[s]
    OBVIOUS
  <2> HIDE DEF doc, named
  <2> QED BY <2>1, <2>3, <2>4, <2>5, EditStep
<1> QED BY <1>3, <1>4

LEMMA UndoKeeps ==
    ASSUME GcInv, NEW s \in Sessions, Undo(s) \/ Redo(s)
    PROVE  GcInv'
<1>1. /\ memory[s] \in Session /\ s \notin rotating
      /\ imports' = [imports EXCEPT ![s] = imports[s]]
      /\ proposals' = [proposals EXCEPT ![s] = proposals[s]]
      /\ UNCHANGED <<blobs, opening, rotating, pass, lost>>
  <2>1. /\ memory[s] # NoSession /\ s \notin rotating
        /\ UNCHANGED <<blobs, opening, imports, proposals, rotating, pass, lost>>
    BY DEF Undo, Redo, Idle, coming
  <2> QED BY <2>1, OwnState
<1>2. /\ memory[s].doc \in Document /\ memory[s].undo \in Seq(Document)
      /\ memory[s].redo \in Seq(Document)
  BY <1>1, SessionFacts
\* m is the session after the step, doc the entry it restores.
<1>3. ASSUME NEW doc \in Document, NEW m \in Session, m.doc = doc,
             memory' = [memory EXCEPT ![s] = m], Log(s, doc, doc), Restorable(s, doc),
             \A h : Remembers(m, h) => Remembers(memory[s], h)
      PROVE  GcInv'
  <2>1. /\ imports[s] \in {imports[s], NoImport} /\ proposals[s] \in SUBSET proposals[s]
        /\ memory[s] # NoSession
    BY <1>1, SessionFacts
  <2>2. \A h : Remembers(m, h) => Uses(s, h)
    BY <1>3 DEF Uses, InUse
  <2>3. doc \subseteq memory[s].doc \cup There
    BY <1>3 DEF Restorable, There
  <2> QED BY <1>1, <1>3, <2>1, <2>2, <2>3, JournalStep
<1>4. CASE Undo(s)
  <2> DEFINE doc == Last(memory[s].undo)
             m == [doc |-> doc, undo |-> Front(memory[s].undo),
                   redo |-> Append(memory[s].redo, memory[s].doc)]
  <2>1. memory[s].undo # <<>> /\ Restorable(s, doc) /\ Log(s, doc, doc)
        /\ memory' = [memory EXCEPT ![s] = m]
    BY <1>4, OwnState DEF Undo
  <2>2. /\ Front(memory[s].undo) \in Seq(Document) /\ doc \in Document
        /\ \A h : Holds(Front(memory[s].undo), h) => Holds(memory[s].undo, h)
        /\ \A h : h \in doc => Holds(memory[s].undo, h)
    BY <1>2, <2>1, PopHolds
  <2>3. /\ Append(memory[s].redo, memory[s].doc) \in Seq(Document)
        /\ \A h : Holds(Append(memory[s].redo, memory[s].doc), h) =>
              Holds(memory[s].redo, h) \/ h \in memory[s].doc
    BY <1>2, PushHolds
  <2> HIDE DEF doc
  <2>4. /\ m \in Session /\ m.doc = doc /\ m.undo = Front(memory[s].undo)
        /\ m.redo = Append(memory[s].redo, memory[s].doc)
    BY <2>2, <2>3, SessionFacts
  <2> HIDE DEF m
  <2>5. \A h : Remembers(m, h) => Remembers(memory[s], h)
    BY <1>1, <2>2, <2>3, <2>4, SessionFacts DEF Remembers
  <2> QED BY <1>3, <2>1, <2>2, <2>4, <2>5
<1>5. CASE Redo(s)
  <2> DEFINE doc == Last(memory[s].redo)
             m == [doc |-> doc, undo |-> Append(memory[s].undo, memory[s].doc),
                   redo |-> Front(memory[s].redo)]
  <2>1. memory[s].redo # <<>> /\ Restorable(s, doc) /\ Log(s, doc, doc)
        /\ memory' = [memory EXCEPT ![s] = m]
    BY <1>5, OwnState DEF Redo
  <2>2. /\ Front(memory[s].redo) \in Seq(Document) /\ doc \in Document
        /\ \A h : Holds(Front(memory[s].redo), h) => Holds(memory[s].redo, h)
        /\ \A h : h \in doc => Holds(memory[s].redo, h)
    BY <1>2, <2>1, PopHolds
  <2>3. /\ Append(memory[s].undo, memory[s].doc) \in Seq(Document)
        /\ \A h : Holds(Append(memory[s].undo, memory[s].doc), h) =>
              Holds(memory[s].undo, h) \/ h \in memory[s].doc
    BY <1>2, PushHolds
  <2> HIDE DEF doc
  <2>4. /\ m \in Session /\ m.doc = doc /\ m.redo = Front(memory[s].redo)
        /\ m.undo = Append(memory[s].undo, memory[s].doc)
    BY <2>2, <2>3, SessionFacts
  <2> HIDE DEF m
  <2>5. \A h : Remembers(m, h) => Remembers(memory[s], h)
    BY <1>1, <2>2, <2>3, <2>4, SessionFacts DEF Remembers
  <2> QED BY <1>3, <2>1, <2>2, <2>4, <2>5
<1> QED BY <1>4, <1>5

\* A session with its files and import as they are, in a step that changes
\* something else of it.
LEMMA OwnStays ==
    ASSUME GcInv, NEW s \in Sessions
    PROVE  /\ memory = [memory EXCEPT ![s] = memory[s]]
           /\ files = [files EXCEPT ![s] = files[s]]
           /\ imports = [imports EXCEPT ![s] = imports[s]]
           /\ opening = [opening EXCEPT ![s] = opening[s]]
           /\ proposals = [proposals EXCEPT ![s] = proposals[s]]
           /\ \A used : Brings(s, used, memory[s], files[s], imports[s], opening[s], proposals[s])
<1>1. /\ memory \in [Sessions -> Session \cup {NoSession}]
      /\ files \in [Sessions -> Files \cup {NoFiles}]
      /\ imports \in [Sessions -> Import \cup {NoImport}]
      /\ opening \in [Sessions -> Opened \cup {NoDocument}]
      /\ proposals \in [Sessions -> Document]
  BY OwnState
<1>2. \A used : Brings(s, used, memory[s], files[s], imports[s], opening[s], proposals[s])
  BY DEF Brings, Uses
<1> QED BY <1>1, <1>2

LEMMA StoreAssetsKeeps ==
    ASSUME GcInv, NEW s \in Sessions, NEW doc \in Document, StoreAssets(s, doc)
    PROVE  GcInv'
<1> DEFINE o == [doc |-> doc]
<1>1. o \in Opened /\ o.doc = doc
  BY OpenedFacts
<1>2. /\ memory[s] = NoSession /\ files[s] = NoFiles /\ imports[s] = NoImport
      /\ memory' = memory /\ files' = files /\ imports' = imports /\ proposals' = proposals
      /\ rotating' = rotating /\ opening' = [opening EXCEPT ![s] = o] /\ Put(doc) /\ Revived(doc)
  BY DEF StoreAssets
<1> HIDE DEF o
<1>3. Sound(memory[s], files[s], imports[s], s \in rotating', There')
  BY <1>2, OwnState DEF Sound
<1>4. Brings(s, doc, memory[s], files[s], imports[s], o, proposals[s])
  BY <1>1 DEF Brings, Uses, InUse
<1>5. \A h \in doc : Uses(s, h) \/ h \in doc
  OBVIOUS
<1>6. /\ memory[s] \in Session \cup {NoSession} /\ files[s] \in Files \cup {NoFiles}
      /\ imports[s] \in Import \cup {NoImport} /\ proposals[s] \in Document
      /\ rotating' \subseteq Sessions
  BY <1>2, OwnState
<1>7. /\ memory' = [memory EXCEPT ![s] = memory[s]] /\ files' = [files EXCEPT ![s] = files[s]]
      /\ imports' = [imports EXCEPT ![s] = imports[s]]
      /\ proposals' = [proposals EXCEPT ![s] = proposals[s]]
  BY <1>2, OwnStays
<1>8. memory[s] = NoSession => proposals[s] = {}
  BY OwnState
<1>9. \A t \in Sessions \ {s} : t \in rotating' <=> t \in rotating
  BY <1>2
<1>10. opening' = [opening EXCEPT ![s] = o] /\ Put(doc) /\ Revived(doc)
        /\ o \in Opened \cup {NoDocument}
  BY <1>1, <1>2
<1> QED BY <1>3, <1>4, <1>5, <1>6, <1>7, <1>8, <1>9, <1>10, SessionKeeps, ZenonT(30)

\* What a document that is being opened holds is in use already.
LEMMA OpenKeeps ==
    ASSUME GcInv, NEW s \in Sessions, Open(s)
    PROVE  GcInv'
<1> DEFINE doc == opening[s].doc
           m == [doc |-> doc, undo |-> <<>>, redo |-> <<>>]
           f == [base |-> doc, logged |-> {}, doc |-> doc, consistent |-> TRUE, whole |-> TRUE]
<1>1. /\ opening[s] # NoDocument /\ memory' = [memory EXCEPT ![s] = m]
      /\ files' = [files EXCEPT ![s] = f] /\ opening' = [opening EXCEPT ![s] = NoDocument]
      /\ imports' = [imports EXCEPT ![s] = imports[s]]
      /\ proposals' = [proposals EXCEPT ![s] = proposals[s]]
      /\ UNCHANGED <<blobs, rotating, pass, lost>>
  BY OwnStays DEF Open
<1>2. /\ imports[s] \in Import \cup {NoImport} /\ proposals[s] \in Document
      /\ rotating \subseteq Sessions /\ doc \in Document
      /\ Sound(memory[s], files[s], imports[s], s \in rotating, There)
  BY <1>1, OwnState, OpenedFacts
<1> HIDE DEF doc
<1>3. m \in Session /\ m.doc = doc /\ m.undo = <<>> /\ m.redo = <<>> /\ m # NoSession
  BY <1>2, EmptyHolds, SessionFacts
<1>4. f \in Files /\ f.base = doc /\ f.logged = {} /\ f.doc = doc /\ f.whole = TRUE
  BY <1>2 DEF Files, Document
<1> HIDE DEF m, f
<1>5. Sound(m, f, imports[s], s \in rotating', There)
  BY <1>1, <1>2, <1>3, <1>4, FileFacts DEF Sound
<1>6. memory[s] = NoSession => proposals[s] = {}
  BY OwnState
<1>7. Brings(s, {}, m, f, imports[s], NoDocument, proposals[s])
  <2>1. \A h : h \in doc => Uses(s, h)
    BY <1>1 DEF Uses, InUse, doc
  <2>2. \A h : Imports(imports[s], h) => Uses(s, h)
    BY DEF Uses, InUse
  <2>3. \A h : h \in proposals[s] => Uses(s, h)
    BY <1>6 DEF Uses, InUse
  <2>4. \A h : Remembers(m, h) => h \in doc
    BY <1>3, EmptyHolds DEF Remembers
  <2>5. \A h : ~Names(f, h) /\ ~Logs(f, h) /\ (Embeds(f, h) => h \in doc)
    BY <1>4 DEF Names, Logs, Embeds
  <2> QED BY <2>1, <2>2, <2>3, <2>4, <2>5 DEF Brings, InUse
<1> QED BY <1>1, <1>2, <1>3, <1>4, <1>5, <1>7, NothingRevived, PlainStep

LEMMA OpenFailsKeeps ==
    ASSUME GcInv, NEW s \in Sessions, OpenFails(s)
    PROVE  GcInv'
<1>1. /\ memory' = [memory EXCEPT ![s] = memory[s]] /\ files' = [files EXCEPT ![s] = files[s]]
      /\ imports' = [imports EXCEPT ![s] = imports[s]]
      /\ opening' = [opening EXCEPT ![s] = NoDocument]
      /\ proposals' = [proposals EXCEPT ![s] = proposals[s]]
      /\ UNCHANGED <<blobs, rotating, pass, lost>>
  BY OwnStays DEF OpenFails
<1>2. Brings(s, {}, memory[s], files[s], imports[s], NoDocument, proposals[s])
  BY DEF Brings, Uses, InUse
<1> QED BY <1>1, <1>2, OwnState, NothingRevived, PlainStep

\* An import that is staged, or a stored blob that is registered, comes into use.
LEMMA ImportsKeep ==
    ASSUME GcInv, NEW s \in Sessions, NEW h \in Hashes, StageImport(s, h) \/ ReadStored(s, h)
    PROVE  GcInv'
<1>1. /\ memory' = [memory EXCEPT ![s] = memory[s]] /\ files' = [files EXCEPT ![s] = files[s]]
      /\ opening' = [opening EXCEPT ![s] = opening[s]]
      /\ proposals' = [proposals EXCEPT ![s] = proposals[s]]
      /\ imports[s] = NoImport /\ memory[s] # NoSession /\ Revived({h})
      /\ UNCHANGED <<blobs, rotating, lost>>
  BY OwnStays DEF StageImport, ReadStored, Idle
<1>2. PICK i \in Import : /\ imports' = [imports EXCEPT ![s] = i] /\ i.hash = h
                          /\ i.stored => h \in Stored /\ s \notin rotating
  <2>1. CASE StageImport(s, h)
    BY <2>1, ImportFacts DEF StageImport
  <2>2. CASE ReadStored(s, h)
    BY <2>2, ImportFacts DEF ReadStored, Idle
  <2> QED BY <2>1, <2>2
<1>3. Sound(memory[s], files[s], i, s \in rotating', There)
  <2>1. Sound(memory[s], files[s], imports[s], s \in rotating, There)
    BY OwnState
  <2> QED BY <1>1, <1>2, <2>1 DEF Sound, There
<1>4. Brings(s, {h}, memory[s], files[s], i, opening[s], proposals[s])
  BY <1>2 DEF Brings, Uses, InUse, Imports
<1> QED BY <1>1, <1>2, <1>3, <1>4, OwnState, PlainStep

\* The bytes of a staged import are written: it is in memory already.
LEMMA PutBlobKeeps ==
    ASSUME GcInv, NEW s \in Sessions, PutBlob(s)
    PROVE  GcInv'
<1> DEFINE hash == imports[s].hash
           i == [imports[s] EXCEPT !.stored = TRUE]
<1>1. /\ imports' = [imports EXCEPT ![s] = i] /\ Put({hash})
      /\ memory' = [memory EXCEPT ![s] = memory[s]] /\ files' = [files EXCEPT ![s] = files[s]]
      /\ opening' = [opening EXCEPT ![s] = opening[s]]
      /\ proposals' = [proposals EXCEPT ![s] = proposals[s]]
      /\ UNCHANGED <<rotating, pass>>
      /\ memory[s] # NoSession /\ s \notin rotating /\ imports[s] \in Import
  BY OwnState, OwnStays DEF PutBlob, Idle
<1>2. i \in Import /\ i.hash = hash /\ hash \in Hashes /\ {hash} \in Document
  BY <1>1, ImportFacts DEF Import, Document
<1>3. There \subseteq There' /\ hash \in There'
  BY <1>1, <1>2, OwnState, PutFacts DEF There
<1>4. Uses(s, hash) /\ imports[s] # NoImport
  BY <1>1, ImportFacts DEF Uses, InUse, Imports
<1> HIDE DEF i, hash
<1>5. Sound(memory[s], files[s], i, s \in rotating', There')
  <2>1. Sound(memory[s], files[s], imports[s], s \in rotating, There)
    BY OwnState
  <2>2. Sound(memory[s], files[s], imports[s], s \in rotating, There')
    BY <1>3, <2>1 DEF Sound
  <2> QED BY <1>1, <1>2, <1>3, <2>2 DEF Sound
<1>6. Brings(s, {}, memory[s], files[s], i, opening[s], proposals[s])
  BY <1>2, <1>4 DEF Brings, Uses, InUse, Imports
<1>7. \A h \in {hash} : Uses(s, h) \/ h \in {}
  BY <1>4
<1> QED BY <1>1, <1>2, <1>5, <1>6, <1>7, OwnState, NothingRevived, SessionKeeps

LEMMA EndImportKeeps ==
    ASSUME GcInv, NEW s \in Sessions, EndImport(s)
    PROVE  GcInv'
<1>1. /\ memory' = [memory EXCEPT ![s] = memory[s]] /\ files' = [files EXCEPT ![s] = files[s]]
      /\ imports' = [imports EXCEPT ![s] = NoImport]
      /\ opening' = [opening EXCEPT ![s] = opening[s]]
      /\ proposals' = [proposals EXCEPT ![s] = proposals[s]]
      /\ UNCHANGED <<blobs, rotating, pass, lost>>
  BY OwnStays DEF EndImport
<1>2. Sound(memory[s], files[s], NoImport, s \in rotating', There)
  BY <1>1, OwnState DEF Sound
<1>3. Brings(s, {}, memory[s], files[s], NoImport, opening[s], proposals[s])
  BY DEF Brings, Uses, InUse, Imports
<1> QED BY <1>1, <1>2, <1>3, OwnState, NothingRevived, PlainStep

LEMMA ProposalsKeep ==
    ASSUME GcInv, NEW s \in Sessions, NEW h \in Hashes, Propose(s, h) \/ ProposalExpires(s, h)
    PROVE  GcInv'
<1>1. /\ memory' = [memory EXCEPT ![s] = memory[s]] /\ files' = [files EXCEPT ![s] = files[s]]
      /\ imports' = [imports EXCEPT ![s] = imports[s]]
      /\ opening' = [opening EXCEPT ![s] = opening[s]]
      /\ UNCHANGED <<blobs, rotating, lost>>
  BY OwnStays DEF Propose, ProposalExpires
<1>2. /\ proposals[s] \in Document /\ rotating \subseteq Sessions
      /\ memory[s] \in Session \cup {NoSession} /\ files[s] \in Files \cup {NoFiles}
      /\ imports[s] \in Import \cup {NoImport} /\ opening[s] \in Opened \cup {NoDocument}
      /\ Sound(memory[s], files[s], imports[s], s \in rotating, There)
  BY OwnState
<1>3. CASE Propose(s, h)
  <2> DEFINE p == proposals[s] \cup {h}
  <2>1. memory[s] # NoSession /\ proposals' = [proposals EXCEPT ![s] = p] /\ Revived({h})
    BY <1>3, OwnState DEF Propose
  <2>2. p \in Document /\ \A g : g \in p <=> g \in proposals[s] \/ g = h
    BY <1>2 DEF Document
  <2> HIDE DEF p
  <2>3. Brings(s, {h}, memory[s], files[s], imports[s], opening[s], p)
    BY <2>2 DEF Brings, Uses, InUse
  <2> QED BY <1>1, <1>2, <2>1, <2>2, <2>3, PlainStep
<1>4. CASE ProposalExpires(s, h)
  <2> DEFINE p == proposals[s] \ {h}
  <2>1. proposals' = [proposals EXCEPT ![s] = p] /\ Revived({})
    BY <1>4, OwnState, NothingRevived DEF ProposalExpires
  <2>2. p \in Document /\ p \subseteq proposals[s] /\ (memory[s] = NoSession => p = {})
    BY <1>2, OwnState DEF Document
  <2> HIDE DEF p
  <2>3. Brings(s, {}, memory[s], files[s], imports[s], opening[s], p)
    BY <2>2 DEF Brings, Uses, InUse
  <2> QED BY <1>1, <1>2, <2>1, <2>2, <2>3, PlainStep
<1> QED BY <1>3, <1>4

LEMMA WriteBaseKeeps ==
    ASSUME GcInv, NEW s \in Sessions, WriteBase(s)
    PROVE  GcInv'
<1>1. PICK same \in {FALSE, memory[s].doc = files[s].base} :
          files' = [files EXCEPT ![s].base = memory[s].doc, ![s].consistent = same /\ @]
  BY DEF WriteBase
<1> DEFINE f == [files[s] EXCEPT !.base = memory[s].doc, !.consistent = same /\ @]
<1>2. /\ memory' = [memory EXCEPT ![s] = memory[s]]
      /\ imports' = [imports EXCEPT ![s] = imports[s]]
      /\ opening' = [opening EXCEPT ![s] = opening[s]]
      /\ proposals' = [proposals EXCEPT ![s] = proposals[s]]
      /\ UNCHANGED <<blobs, pass, lost>>
      /\ rotating' = rotating \cup {s} /\ rotating \subseteq Sessions
      /\ memory[s] # NoSession /\ (imports[s] # NoImport => ~imports[s].stored)
      /\ memory[s] \in Session
  BY OwnState, OwnStays DEF WriteBase, Idle, coming
<1>3. /\ Sound(memory[s], files[s], imports[s], s \in rotating, There)
      /\ files[s] \in Files \cup {NoFiles} /\ imports[s] \in Import \cup {NoImport}
      /\ opening[s] \in Opened \cup {NoDocument} /\ proposals[s] \in Document
      /\ files \in [Sessions -> Files \cup {NoFiles}]
  BY OwnState
<1>4. files[s] \in Files /\ files[s].whole /\ files[s].doc = memory[s].doc
      /\ memory[s].doc \in Document /\ files[s].consistent \in BOOLEAN /\ same \in BOOLEAN
  BY <1>2, <1>3, SessionFacts, FileFacts DEF Sound
<1>5. files' = [files EXCEPT ![s] = f]
  BY <1>1, <1>3
<1>6. f \in Files /\ f.base = memory[s].doc /\ f.doc = files[s].doc
      /\ f.logged = files[s].logged /\ f.whole = files[s].whole
      /\ f.consistent = (same /\ files[s].consistent)
  <2>1. (same /\ files[s].consistent) \in BOOLEAN
    BY <1>4
  <2> QED BY <1>4, <2>1 DEF Files
<1>7. f.consistent => f.base = files[s].base /\ files[s].consistent
  BY <1>1, <1>6
<1> HIDE DEF f
<1>8. Sound(memory[s], f, imports[s], s \in rotating', There)
  <2>1. f.consistent => /\ f.doc \subseteq f.base \cup f.logged
                        /\ f.doc \cup f.logged \subseteq f.base \cup There
    BY <1>3, <1>4, <1>6, <1>7, FileFacts DEF Sound
  <2> QED BY <1>2, <1>3, <1>4, <1>6, <2>1, FileFacts DEF Sound
<1>9. Brings(s, {}, memory[s], f, imports[s], opening[s], proposals[s])
  BY <1>2, <1>4, <1>6, FileFacts DEF Brings, Uses, InUse, Remembers, Names, Logs, Embeds
<1> QED BY <1>2, <1>3, <1>5, <1>6, <1>8, <1>9, NothingRevived, PlainStep

LEMMA ResetJournalKeeps ==
    ASSUME GcInv, NEW s \in Sessions, ResetJournal(s)
    PROVE  GcInv'
<1> DEFINE f == [files[s] EXCEPT !.logged = {}, !.consistent = TRUE]
<1>1. /\ memory' = [memory EXCEPT ![s] = memory[s]]
      /\ imports' = [imports EXCEPT ![s] = imports[s]]
      /\ opening' = [opening EXCEPT ![s] = opening[s]]
      /\ proposals' = [proposals EXCEPT ![s] = proposals[s]]
      /\ UNCHANGED <<blobs, pass, lost>>
      /\ rotating' = rotating \ {s} /\ s \in rotating /\ rotating \subseteq Sessions
  BY OwnState, OwnStays DEF ResetJournal, coming
<1>2. /\ Sound(memory[s], files[s], imports[s], s \in rotating, There)
      /\ memory[s] \in Session \cup {NoSession} /\ files[s] \in Files \cup {NoFiles}
      /\ imports[s] \in Import \cup {NoImport} /\ opening[s] \in Opened \cup {NoDocument}
      /\ proposals[s] \in Document /\ files \in [Sessions -> Files \cup {NoFiles}]
  BY OwnState
<1>3. /\ memory[s] \in Session /\ files[s] \in Files /\ files[s].whole
      /\ files[s].doc = memory[s].doc /\ files[s].base = memory[s].doc /\ memory[s] # NoSession
  BY <1>1, <1>2 DEF Sound
<1>4. /\ f \in Files /\ f.base = files[s].base /\ f.doc = files[s].doc /\ f.logged = {}
      /\ f.whole = files[s].whole
  BY <1>3 DEF Files, Document
<1>5. files' = [files EXCEPT ![s] = f]
  BY <1>2 DEF ResetJournal
<1> HIDE DEF f
<1>6. Sound(memory[s], f, imports[s], s \in rotating', There)
  BY <1>1, <1>2, <1>3, <1>4, FileFacts DEF Sound
<1>7. Brings(s, {}, memory[s], f, imports[s], opening[s], proposals[s])
  BY <1>3, <1>4, FileFacts DEF Brings, Uses, InUse, Names, Logs, Embeds
<1> QED BY <1>1, <1>2, <1>3, <1>4, <1>5, <1>6, <1>7, NothingRevived, PlainStep

LEMMA RotationFailsKeeps ==
    ASSUME GcInv, NEW s \in Sessions, RotationFails(s)
    PROVE  GcInv'
<1>1. /\ memory' = [memory EXCEPT ![s] = memory[s]] /\ files' = [files EXCEPT ![s] = files[s]]
      /\ imports' = [imports EXCEPT ![s] = imports[s]]
      /\ opening' = [opening EXCEPT ![s] = opening[s]]
      /\ proposals' = [proposals EXCEPT ![s] = proposals[s]]
      /\ UNCHANGED <<blobs, pass, lost>>
      /\ rotating' = rotating \ {s} /\ rotating \subseteq Sessions
  BY OwnState, OwnStays DEF RotationFails, coming
<1>2. Sound(memory[s], files[s], imports[s], s \in rotating', There)
  BY <1>1, OwnState DEF Sound
<1> QED BY <1>1, <1>2, OwnState, OwnStays, NothingRevived, PlainStep

LEMMA CloseKeeps ==
    ASSUME GcInv, NEW s \in Sessions, Close(s)
    PROVE  GcInv'
<1>1. PICK left \in {files[s], NoFiles, Journal(files[s])} :
         files' = [files EXCEPT ![s] = left]
  BY DEF Close
<1>2. /\ memory' = [memory EXCEPT ![s] = NoSession]
      /\ imports' = [imports EXCEPT ![s] = imports[s]]
      /\ opening' = [opening EXCEPT ![s] = opening[s]]
      /\ proposals' = [proposals EXCEPT ![s] = {}]
      /\ UNCHANGED <<blobs, rotating, pass, lost>>
      /\ memory[s] # NoSession /\ s \notin rotating /\ (imports[s] # NoImport => ~imports[s].stored)
  BY OwnStays DEF Close, Idle
<1>3. /\ Sound(memory[s], files[s], imports[s], s \in rotating, There)
      /\ files[s] \in Files \cup {NoFiles} /\ imports[s] \in Import \cup {NoImport}
      /\ opening[s] \in Opened \cup {NoDocument} /\ rotating \subseteq Sessions
      /\ {} \in Document
  BY OwnState DEF Document
<1>4. files[s] \in Files
  BY <1>2, <1>3 DEF Sound
<1>5. left = files[s] \/ left = NoFiles
         \/ (left \in Files /\ ~left.whole /\ left.logged = files[s].logged)
  BY <1>1, <1>4 DEF Files, Journal, Document
<1>6. left \in Files \cup {NoFiles}
  BY <1>4, <1>5
<1>7. Sound(NoSession, left, imports[s], s \in rotating', There)
  BY <1>2, <1>3, <1>5 DEF Sound
<1>8. Brings(s, {}, NoSession, left, imports[s], opening[s], {})
  BY <1>4, <1>5, FileFacts DEF Brings, Uses, InUse, Remembers, Names, Logs, Embeds
<1> QED BY <1>2, <1>1, <1>3, <1>6, <1>7, <1>8, NothingRevived, PlainStep

\* The pass does not learn of what a recovery brings into use.
LEMMA RecoverKeeps ==
    ASSUME GcInv, NEW s \in Sessions, Recover(s)
    PROVE  GcInv'
<1> DEFINE doc == files[s].doc
           m == [doc |-> doc, undo |-> <<>>, redo |-> <<>>]
<1>1. /\ memory' = [memory EXCEPT ![s] = m] /\ files' = [files EXCEPT ![s] = files[s]]
      /\ imports' = [imports EXCEPT ![s] = imports[s]]
      /\ opening' = [opening EXCEPT ![s] = opening[s]]
      /\ proposals' = [proposals EXCEPT ![s] = proposals[s]]
      /\ UNCHANGED <<blobs, rotating, lost>> /\ Revived(doc)
      /\ memory[s] = NoSession /\ imports[s] = NoImport /\ files[s] # NoFiles /\ files[s].whole
  BY OwnStays DEF Recover, Recoverable, Whole, coming
<1>2. /\ Sound(memory[s], files[s], imports[s], s \in rotating, There)
      /\ files[s] \in Files /\ imports[s] \in Import \cup {NoImport}
      /\ opening[s] \in Opened \cup {NoDocument} /\ proposals[s] \in Document
      /\ rotating \subseteq Sessions /\ doc \in Document
  BY <1>1, OwnState, FileFacts
<1>3. m \in Session /\ m.doc = doc /\ m.undo = <<>> /\ m.redo = <<>> /\ m # NoSession
  BY <1>2, EmptyHolds, SessionFacts
<1>4. Sound(m, files[s], imports[s], s \in rotating', There)
  <2> HIDE DEF m
  <2> QED BY <1>1, <1>2, <1>3 DEF Sound
<1> HIDE DEF m
<1>5. proposals[s] = {}
  BY <1>1, OwnState
<1>6. Brings(s, doc, m, files[s], imports[s], opening[s], proposals[s])
  <2>1. \A h : Remembers(m, h) => h \in doc
    BY <1>3, EmptyHolds DEF Remembers
  <2> QED BY <1>5, <2>1 DEF Brings, Uses, InUse
<1> HIDE DEF doc
<1> QED BY <1>1, <1>2, <1>3, <1>4, <1>6, PlainStep
-----------------------------------------------------------------------------
(* The steps of a pass.                                                    *)

LEMMA PassKeeps ==
    ASSUME GcInv, UNCHANGED <<blobs, memory, files, coming, rotating, lost>>,
           pass' \in Pass \cup {NoPass},
           pass' # NoPass => Marks' /\ Garbage'
    PROVE  GcInv'
<1>1. TypeOK'
  BY DEF GcInv, TypeOK, coming
<1>2. \A s \in Sessions : SoundSession(s)'
  BY DEF GcInv, SoundSession, Sound, There, Stored, coming
<1> QED BY <1>1, <1>2 DEF GcInv

LEMMA SameReach ==
    ASSUME UNCHANGED <<memory, files, coming>>
    PROVE  /\ InMemory' = InMemory /\ Unstaged' = Unstaged
           /\ Logged' = Logged /\ Embedded' = Embedded
           /\ \A s, h : Names(files[s], h)' <=> Names(files[s], h)
           /\ \A s, h : Logs(files[s], h)' <=> Logs(files[s], h)
<1>1. UNCHANGED <<memory, files, opening, imports, proposals>>
  BY DEF coming
<1>2. InMemory' = InMemory
  BY <1>1 DEF InMemory, Staged, Importing, HistoryOf, Live
<1>3. Unstaged' = Unstaged
  BY <1>1 DEF Unstaged, Importing, Opening
<1>4. Logged' = Logged /\ Embedded' = Embedded
  BY <1>1 DEF Logged, Embedded, Whole
<1> QED BY <1>1, <1>2, <1>3, <1>4 DEF Names, Logs

LEMMA BeginPassKeeps == GcInv /\ BeginPass => GcInv'
<1> SUFFICES ASSUME GcInv, BeginPass PROVE GcInv'
  OBVIOUS
<1> DEFINE garbage == {h \in Hashes : blobs[h] = "old"}
                         \ (InMemory \cup Unstaged \cup Logged \cup Embedded)
<1>1. Index /\ blobs \in [Hashes -> {"absent", "fresh", "old"}]
  BY Reachable DEF GcInv, TypeOK
<1>2. pass' = [step |-> "list", marked |-> InMemory, toRead |-> {}, halfRead |-> {},
               toSweep |-> Stored, deleted |-> 0, revived |-> Unstaged \ InMemory,
               garbage |-> garbage]
  BY DEF BeginPass, Mark
<1>3. /\ InMemory \in Document /\ garbage \in Document /\ Stored \in Document
      /\ Unstaged \ InMemory \in Document
  BY <1>1 DEF Index, Document, Stored
<1>4. UNCHANGED <<blobs, memory, files, coming, rotating, lost>>
  BY DEF BeginPass
<1>5. /\ InMemory' = InMemory /\ Unstaged' = Unstaged
      /\ Logged' = Logged /\ Embedded' = Embedded
  BY <1>4, SameReach
<1>6. \A h \in garbage : /\ h \notin InMemory /\ h \notin Unstaged /\ h \notin Logged
                         /\ h \notin Embedded /\ blobs[h] = "old"
  OBVIOUS
<1>7. \A h \in Hashes : blobs[h] = "old" => h \in Stored
  BY DEF Stored
<1> HIDE DEF garbage
<1>8. /\ pass' \in Pass /\ pass'.step = "list" /\ pass'.marked = InMemory /\ pass'.toRead = {}
      /\ pass'.halfRead = {} /\ pass'.toSweep = Stored /\ pass'.revived = Unstaged \ InMemory
      /\ pass'.garbage = garbage
  BY <1>2, <1>3 DEF Pass, Document
<1>9. Marks'
  <2>1. \A h \in InMemory' \cup Unstaged' : MayGo(h)' => h \in Known'
    BY <1>5, <1>8 DEF Known
  <2> QED BY <1>4, <1>7, <1>8, <2>1 DEF Marks
<1>10. Garbage'
  BY <1>4, <1>5, <1>6, <1>8 DEF Garbage
<1> QED BY <1>4, <1>8, <1>9, <1>10, PassKeeps

LEMMA ListCandidatesKeeps == GcInv /\ ListCandidates => GcInv'
<1> SUFFICES ASSUME GcInv, ListCandidates PROVE GcInv'
  OBVIOUS
<1>1. /\ pass \in Pass /\ pass.step = "list" /\ Marks /\ Garbage
      /\ pass' = [pass EXCEPT !.step = "read", !.toRead = Candidates]
      /\ UNCHANGED <<blobs, memory, files, coming, rotating, lost>>
  BY DEF ListCandidates, GcInv, TypeOK
<1>2. Candidates \subseteq Sessions
  BY DEF Candidates
<1>3. /\ pass' \in Pass /\ pass'.step = "read" /\ pass'.toRead = Candidates
      /\ pass'.marked = pass.marked /\ pass'.halfRead = pass.halfRead
      /\ pass'.toSweep = pass.toSweep /\ pass'.garbage = pass.garbage
      /\ pass'.revived = pass.revived
  BY <1>1, <1>2 DEF Pass
<1>4. /\ InMemory' = InMemory /\ Unstaged' = Unstaged /\ Logged' = Logged /\ Embedded' = Embedded
      /\ \A s, h : Names(files[s], h)' <=> Names(files[s], h)
      /\ \A s, h : Logs(files[s], h)' <=> Logs(files[s], h)
  BY <1>1, SameReach
<1>5. \A h : (MayGo(h)' <=> MayGo(h)) /\ (h \in Known' <=> h \in Known)
  BY <1>1, <1>3 DEF MayGo, Known
<1>6. \A s \in Sessions, h \in Hashes : Names(files[s], h)' => Reading(s)'
  BY <1>1, <1>3 DEF Names, Logs, Reading, Candidates
<1>7. Marks'
  BY <1>1, <1>3, <1>4, <1>5, <1>6 DEF Marks
<1>8. Garbage'
  BY <1>1, <1>3, <1>4 DEF Garbage
<1> QED BY <1>1, <1>3, <1>7, <1>8, PassKeeps

LEMMA ReadBaseKeeps ==
    ASSUME GcInv, NEW s \in Sessions, ReadBase(s)
    PROVE  GcInv'
<1>1. /\ pass \in Pass /\ s \in pass.toRead /\ Whole(s) /\ Marks /\ Garbage
      /\ pass' = [pass EXCEPT !.toRead = @ \ {s}, !.halfRead = @ \cup {s},
                              !.marked = @ \cup files[s].base]
      /\ UNCHANGED <<blobs, memory, files, coming, rotating, lost>>
  BY DEF ReadBase, GcInv, TypeOK
<1>2. /\ files[s] \in Files /\ files[s].base \in Document
      /\ pass.toRead \subseteq Sessions /\ pass.halfRead \subseteq Sessions
      /\ pass.marked \in Document
  BY <1>1, OwnState, FileFacts, PassFacts DEF Whole
<1>3. /\ pass' \in Pass /\ pass'.step = pass.step /\ pass'.toRead = pass.toRead \ {s}
      /\ pass'.marked = pass.marked \cup files[s].base
      /\ pass'.halfRead = pass.halfRead \cup {s} /\ pass'.revived = pass.revived
      /\ pass'.toSweep = pass.toSweep /\ pass'.garbage = pass.garbage
  BY <1>1, <1>2 DEF Pass, Document
<1>4. /\ InMemory' = InMemory /\ Unstaged' = Unstaged /\ Logged' = Logged /\ Embedded' = Embedded
      /\ \A t, h : Names(files[t], h)' <=> Names(files[t], h)
      /\ \A t, h : Logs(files[t], h)' <=> Logs(files[t], h)
  BY <1>1, SameReach
<1>5. \A t \in Sessions : Reading(t)' <=> Reading(t)
  BY <1>1, <1>3 DEF Reading
<1>6. \A h : (MayGo(h)' <=> MayGo(h)) /\ (h \in Known => h \in Known')
  BY <1>1, <1>3 DEF MayGo, Known
<1>7. pass.step = "read"
  BY <1>1 DEF Marks
<1>8. Marks'
  BY <1>1, <1>3, <1>4, <1>5, <1>6, <1>7 DEF Marks
<1>9. \A h \in files[s].base : h \in Embedded
  BY <1>1 DEF Embedded
<1>10. \A h : Logs(files[s], h) => h \in Logged
  BY <1>1 DEF Logged, Logs
<1>11. Garbage'
  BY <1>1, <1>3, <1>4, <1>7, <1>9, <1>10 DEF Garbage
<1> QED BY <1>1, <1>3, <1>8, <1>11, PassKeeps

LEMMA ReadJournalKeeps ==
    ASSUME GcInv, NEW s \in Sessions, ReadJournal(s)
    PROVE  GcInv'
<1>1. /\ pass \in Pass /\ s \in pass.halfRead /\ files[s] # NoFiles /\ Marks /\ Garbage
      /\ pass' = [pass EXCEPT !.halfRead = @ \ {s}, !.marked = @ \cup files[s].logged]
      /\ UNCHANGED <<blobs, memory, files, coming, rotating, lost>>
  BY DEF ReadJournal, NamedByRecords, GcInv, TypeOK
<1>2. /\ files[s] \in Files /\ files[s].logged \in Document
      /\ pass.toRead \subseteq Sessions /\ pass.halfRead \subseteq Sessions
      /\ pass.marked \in Document
  BY <1>1, OwnState, FileFacts, PassFacts
<1>3. /\ pass' \in Pass /\ pass'.step = pass.step /\ pass'.toRead = pass.toRead
      /\ pass'.marked = pass.marked \cup files[s].logged
      /\ pass'.halfRead = pass.halfRead \ {s} /\ pass'.revived = pass.revived
      /\ pass'.toSweep = pass.toSweep /\ pass'.garbage = pass.garbage
  BY <1>1, <1>2 DEF Pass, Document
<1>4. /\ InMemory' = InMemory /\ Unstaged' = Unstaged /\ Logged' = Logged /\ Embedded' = Embedded
      /\ \A t, h : Names(files[t], h)' <=> Names(files[t], h)
      /\ \A t, h : Logs(files[t], h)' <=> Logs(files[t], h)
  BY <1>1, SameReach
<1>5. \A t \in Sessions : ~Reading(t)' => ~Reading(t) \/ t = s
  BY <1>3 DEF Reading
<1>6. \A h : (MayGo(h)' <=> MayGo(h)) /\ (h \in Known => h \in Known')
  BY <1>1, <1>3 DEF MayGo, Known
<1>7. pass.step = "read"
  BY <1>1 DEF Marks
<1>8. ASSUME NEW t \in Sessions, NEW h \in Hashes, Names(files[t], h)', ~Reading(t)', MayGo(h)'
      PROVE  h \in Known'
  <2>1. CASE t = s
    BY <1>3, <1>4, <1>8, <2>1 DEF Names, Logs, Known
  <2>2. CASE t # s
    BY <1>1, <1>4, <1>5, <1>6, <1>7, <1>8, <2>2 DEF Marks
  <2> QED BY <2>1, <2>2
<1>9. Marks'
  BY <1>1, <1>3, <1>4, <1>6, <1>7, <1>8 DEF Marks
<1>10. \A h \in files[s].logged : Logs(files[s], h)
  BY <1>1 DEF Logs
<1>11. Garbage'
  BY <1>1, <1>3, <1>4, <1>7, <1>10 DEF Garbage
<1> QED BY <1>1, <1>3, <1>9, <1>11, PassKeeps

\* What is listed and old was there when the pass began.
LEMMA ListBlobsKeeps == GcInv /\ ListBlobs => GcInv'
<1> SUFFICES ASSUME GcInv, ListBlobs PROVE GcInv'
  OBVIOUS
<1>1. /\ pass \in Pass /\ pass.step = "read" /\ Marks /\ Garbage
      /\ pass.toRead = {} /\ pass.halfRead = {}
      /\ pass' = [pass EXCEPT !.step = "sweep", !.toSweep = Scanned, !.garbage = @ \cap Scanned]
      /\ UNCHANGED <<blobs, memory, files, coming, rotating, lost>>
  BY DEF ListBlobs, GcInv, TypeOK
<1>2. Scanned \in Document /\ Scanned \subseteq Hashes
  BY DEF Scanned, Stored, Document
<1> HIDE DEF Scanned
<1>3. /\ pass' \in Pass /\ pass'.step = "sweep" /\ pass'.toSweep = Scanned
      /\ pass'.marked = pass.marked /\ pass'.toRead = pass.toRead
      /\ pass'.halfRead = pass.halfRead /\ pass'.revived = pass.revived
      /\ pass'.garbage = pass.garbage \cap Scanned
  BY <1>1, <1>2 DEF Pass, Document
<1>4. /\ InMemory' = InMemory /\ Unstaged' = Unstaged /\ Logged' = Logged /\ Embedded' = Embedded
      /\ \A s, h : Names(files[s], h)' <=> Names(files[s], h)
      /\ \A s, h : Logs(files[s], h)' <=> Logs(files[s], h)
  BY <1>1, SameReach
<1>5. \A h \in Hashes : (MayGo(h)' => MayGo(h)) /\ (h \in Known' <=> h \in Known)
  BY <1>1, <1>3 DEF MayGo, Known, Marks
<1>6. InMemory \subseteq Hashes /\ Unstaged \subseteq Hashes
  BY Reachable DEF GcInv, Index
<1>7. \A s \in Sessions : Reading(s)' <=> Reading(s)
  BY <1>3 DEF Reading
<1>8. Marks'
  BY <1>1, <1>3, <1>4, <1>5, <1>6, <1>7 DEF Marks
<1>9. Garbage'
  BY <1>1, <1>3, <1>4 DEF Garbage
<1> QED BY <1>1, <1>3, <1>8, <1>9, PassKeeps

\* A blob that is removed although it is in use came into use during the pass.
LEMMA RemovedIsUnused ==
    ASSUME GcInv, NEW h \in Hashes, Sweep(h), Removes(h),
           h \in InMemory \/ h \in Unstaged \/ h \in Logged
    PROVE  h \in pass.revived
<1>1. Marks /\ Index /\ pass.step = "sweep" /\ h \in pass.toSweep /\ pass \in Pass
  BY Reachable DEF GcInv, Sweep, TypeOK
<1>2. MayGo(h) /\ h \notin pass.marked /\ pass.toRead = {} /\ pass.halfRead = {}
  BY <1>1 DEF Marks, Removes, MayGo
<1>3. h \in Logged => h \in Known
  BY <1>1, <1>2 DEF Marks, Index, Reading
<1> QED BY <1>1, <1>2, <1>3 DEF Marks, Known

LEMMA SweepKeeps ==
    ASSUME GcInv, NEW h \in Hashes, Sweep(h)
    PROVE  GcInv'
<1>1. /\ pass \in Pass /\ pass.step = "sweep" /\ h \in pass.toSweep /\ Marks /\ Garbage /\ TypeOK
      /\ UNCHANGED <<memory, files, opening, imports, proposals, rotating>>
      /\ blobs \in [Hashes -> {"absent", "fresh", "old"}] /\ lost \in Document
  BY DEF Sweep, GcInv, TypeOK, coming
<1>2. CASE Removes(h)
  <2>1. /\ blobs' = [blobs EXCEPT ![h] = "absent"]
        /\ lost' = lost \cup (pass.revived \cap {h})
        /\ pass' = [pass EXCEPT !.toSweep = @ \ {h}, !.deleted = @ + 1]
        /\ h \notin pass.marked
    BY <1>2 DEF Sweep, Removes
  <2>2. pass.deleted \in Nat /\ pass.revived \in Document
    BY <1>1, PassFacts
  <2>3. /\ pass' \in Pass /\ pass'.step = pass.step /\ pass'.toSweep = pass.toSweep \ {h}
        /\ pass'.marked = pass.marked /\ pass'.toRead = pass.toRead
        /\ pass'.halfRead = pass.halfRead /\ pass'.revived = pass.revived
        /\ pass'.garbage = pass.garbage /\ pass'.deleted = pass.deleted + 1
    <3>1. pass.deleted + 1 \in Nat /\ pass.toSweep \ {h} \in Document
      BY <1>1, <2>2, PassFacts DEF Document
    <3>2. pass' = [step |-> pass.step, marked |-> pass.marked, toRead |-> pass.toRead,
                   halfRead |-> pass.halfRead, toSweep |-> pass.toSweep \ {h},
                   deleted |-> pass.deleted + 1, revived |-> pass.revived,
                   garbage |-> pass.garbage]
      BY <1>1, <2>1 DEF Pass
    <3>3. pass' \in Pass
      BY <1>1, <3>1, <3>2 DEF Pass
    <3> QED BY <3>2, <3>3
  <2>4. /\ blobs' \in [Hashes -> {"absent", "fresh", "old"}] /\ lost' \in Document
        /\ \A g \in Hashes : blobs'[g] = IF g = h THEN "absent" ELSE blobs[g]
    BY <1>1, <2>1, <2>2 DEF Document
  <2>5. TypeOK'
    BY <1>1, <2>3, <2>4 DEF TypeOK
  <2>6. /\ InMemory' = InMemory /\ Unstaged' = Unstaged /\ Logged' = Logged /\ Embedded' = Embedded
        /\ \A s, g : Names(files[s], g)' <=> Names(files[s], g)
        /\ \A s, g : Logs(files[s], g)' <=> Logs(files[s], g)
    BY <1>1, SameReach DEF coming
  <2>7. \A g \in There : g \in There' \/ (g = h /\ h \notin pass.revived)
    BY <2>1, <2>4 DEF There, Stored
  <2>8. ASSUME NEW g \in There, g \in InMemory \/ g \in Unstaged \/ g \in Logged
        PROVE  g \in There'
    BY <1>2, <2>7, <2>8, RemovedIsUnused
  <2>9. ASSUME NEW s \in Sessions
        PROVE  SoundSession(s)'
    <3>1. /\ Sound(memory[s], files[s], imports[s], s \in rotating, There)
          /\ memory[s] = NoSession => proposals[s] = {}
      BY OwnState
    <3>2. imports[s] # NoImport => imports[s].hash \in InMemory \cup Unstaged
      BY <1>1, Reachable DEF Index, Uses, InUse, Imports
    <3>3. files[s] # NoFiles /\ files[s].whole => files[s].logged \subseteq Logged
      BY DEF Logged, Whole
    <3>4. imports[s] # NoImport /\ imports[s].stored => imports[s].hash \in There'
      BY <2>8, <3>1, <3>2 DEF Sound
    <3>5. files[s] # NoFiles /\ files[s].whole /\ files[s].consistent =>
             files[s].doc \cup files[s].logged \subseteq files[s].base \cup There'
      <4> SUFFICES ASSUME files[s] # NoFiles, files[s].whole, files[s].consistent,
                          NEW g \in files[s].doc \cup files[s].logged, g \notin files[s].base
                   PROVE  g \in There'
        OBVIOUS
      <4>1. g \in files[s].logged /\ g \in There
        BY <3>1 DEF Sound
      <4> QED BY <2>8, <3>3, <4>1
    <3>6. Sound(memory[s], files[s], imports[s], s \in rotating, There')
      BY <3>1, <3>4, <3>5 DEF Sound
    <3> QED BY <1>1, <3>1, <3>6 DEF SoundSession
  <2>10. \A g \in Hashes : (MayGo(g)' => MayGo(g)) /\ (g \in Known' <=> g \in Known)
    BY <1>1, <2>3, <2>4 DEF MayGo, Known
  <2>11. InMemory \subseteq Hashes /\ Unstaged \subseteq Hashes /\ pass.garbage \subseteq Hashes
    BY <1>1, Reachable, PassFacts DEF Index, Document
  <2>12. \A s \in Sessions : Reading(s)' <=> Reading(s)
    BY <2>3 DEF Reading
  <2>13. Marks'
    BY <1>1, <2>3, <2>6, <2>10, <2>11, <2>12 DEF Marks
  <2>14. pass'.deleted < MaxDeletes => pass.deleted < MaxDeletes
    BY <2>2, <2>3, LimitsAssumption
  <2>15. Garbage'
    BY <1>1, <2>3, <2>4, <2>6, <2>11, <2>14 DEF Garbage
  <2> QED BY <2>5, <2>9, <2>13, <2>15 DEF GcInv
<1>3. CASE ~Removes(h)
  <2>1. pass' = [pass EXCEPT !.toSweep = @ \ {h}] /\ UNCHANGED <<blobs, lost>>
    BY <1>3 DEF Sweep
  <2>2. /\ pass' \in Pass /\ pass'.step = pass.step /\ pass'.toSweep = pass.toSweep \ {h}
        /\ pass'.marked = pass.marked /\ pass'.toRead = pass.toRead
        /\ pass'.halfRead = pass.halfRead /\ pass'.revived = pass.revived
        /\ pass'.garbage = pass.garbage /\ pass'.deleted = pass.deleted
    BY <1>1, <2>1 DEF Pass, Document
  <2>3. /\ InMemory' = InMemory /\ Unstaged' = Unstaged /\ Logged' = Logged /\ Embedded' = Embedded
        /\ \A s, g : Names(files[s], g)' <=> Names(files[s], g)
        /\ \A s, g : Logs(files[s], g)' <=> Logs(files[s], g)
    BY <1>1, SameReach DEF coming
  <2>4. \A g : (MayGo(g)' => MayGo(g)) /\ (g \in Known' <=> g \in Known)
    BY <2>1, <2>2 DEF MayGo, Known
  <2>5. \A s \in Sessions : Reading(s)' <=> Reading(s)
    BY <2>2 DEF Reading
  <2>6. Marks'
    BY <1>1, <2>2, <2>3, <2>4, <2>5 DEF Marks
  <2>7. \A g \in pass.garbage : g \notin pass.marked
    BY <1>1 DEF Garbage
  <2>8. h \in pass.garbage /\ pass.deleted < MaxDeletes => blobs[h] # "old"
    BY <1>3, <2>7 DEF Removes
  <2>9. Garbage'
    BY <1>1, <2>1, <2>2, <2>3, <2>8 DEF Garbage
  <2> QED BY <1>1, <2>1, <2>2, <2>6, <2>9, PassKeeps DEF coming
<1> QED BY <1>2, <1>3

\* A blob that becomes old during a pass was there when it began.
LEMMA AgeKeeps ==
    ASSUME GcInv, NEW h \in Hashes, Age(h)
    PROVE  GcInv'
<1>1. /\ blobs \in [Hashes -> {"absent", "fresh", "old"}]
      /\ blobs[h] = "fresh" /\ blobs' = [blobs EXCEPT ![h] = "old"]
      /\ pass # NoPass => pass.step # "sweep" /\ h \in pass.toSweep
      /\ UNCHANGED <<memory, files, opening, imports, proposals, rotating, pass, lost>>
  BY DEF Age, GcInv, TypeOK, coming
<1>2. /\ Stored' = Stored /\ blobs' \in [Hashes -> {"absent", "fresh", "old"}]
      /\ \A g \in Hashes : blobs'[g] = IF g = h THEN "old" ELSE blobs[g]
  BY <1>1 DEF Stored
<1>3. TypeOK'
  BY <1>1, <1>2 DEF GcInv, TypeOK
<1>4. \A s \in Sessions : SoundSession(s)'
  BY <1>1, <1>2 DEF GcInv, SoundSession, Sound, There
<1>5. ASSUME pass' # NoPass
      PROVE  Marks' /\ Garbage'
  <2>1. Marks /\ Garbage /\ pass' = pass /\ pass \in Pass /\ pass.step # "sweep"
        /\ h \in pass.toSweep
    BY <1>1, <1>5 DEF GcInv, TypeOK
  <2>2. /\ InMemory' = InMemory /\ Unstaged' = Unstaged /\ Logged' = Logged /\ Embedded' = Embedded
        /\ \A s, g : Names(files[s], g)' <=> Names(files[s], g)
        /\ \A s, g : Logs(files[s], g)' <=> Logs(files[s], g)
    BY <1>1, SameReach DEF coming
  <2>3. \A g : (MayGo(g)' <=> MayGo(g)) /\ (g \in Known' <=> g \in Known)
    BY <2>1 DEF MayGo, Known
  <2>4. \A s \in Sessions : Reading(s)' <=> Reading(s)
    BY <2>1 DEF Reading
  <2>5. Marks'
    BY <1>2, <2>1, <2>2, <2>3, <2>4 DEF Marks
  <2>6. pass.garbage \subseteq Hashes
    BY <2>1, PassFacts DEF Document
  <2>7. Garbage'
    BY <1>2, <2>1, <2>2, <2>6 DEF Garbage
  <2> QED BY <2>5, <2>7
<1> QED BY <1>3, <1>4, <1>5 DEF GcInv

LEMMA CrashKeeps == GcInv /\ Crash => GcInv'
<1> SUFFICES ASSUME GcInv, Crash PROVE GcInv'
  OBVIOUS
<1>1. /\ memory' = [s \in Sessions |-> NoSession] /\ imports' = [s \in Sessions |-> NoImport]
      /\ opening' = [s \in Sessions |-> NoDocument] /\ proposals' = [s \in Sessions |-> {}]
      /\ rotating' = {} /\ pass' = NoPass /\ UNCHANGED <<blobs, files, lost>>
  BY DEF Crash
<1>2. TypeOK'
  BY <1>1 DEF GcInv, TypeOK, Document
<1>3. ASSUME NEW s \in Sessions
      PROVE  SoundSession(s)'
  <2>1. memory'[s] = NoSession /\ imports'[s] = NoImport /\ proposals'[s] = {} /\ There' = There
    BY <1>1 DEF There, Stored
  <2>2. Sound(memory[s], files[s], imports[s], s \in rotating, There)
    BY OwnState
  <2> QED BY <1>1, <2>1, <2>2 DEF Sound, SoundSession
<1> QED BY <1>1, <1>2, <1>3 DEF GcInv
-----------------------------------------------------------------------------
(* What the collector promises.                                            *)

LEMMA InitGc == Init => GcInv
<1> SUFFICES ASSUME Init PROVE GcInv
  OBVIOUS
<1>1. TypeOK
  BY DEF Init, TypeOK, Document
<1>2. \A s \in Sessions : SoundSession(s)
  BY DEF Init, Sound, SoundSession
<1> QED BY <1>1, <1>2 DEF Init, GcInv

LEMMA GcStep ==
    ASSUME GcInv, [Next]_vars
    PROVE  GcInv'
<1>1. CASE UNCHANGED vars
  <2>1. UNCHANGED <<blobs, memory, files, opening, imports, proposals, rotating, pass, lost>>
    BY <1>1 DEF vars
  <2>2. /\ InMemory' = InMemory /\ Unstaged' = Unstaged /\ Logged' = Logged /\ Embedded' = Embedded
        /\ \A s, h : Names(files[s], h)' <=> Names(files[s], h)
        /\ \A s, h : Logs(files[s], h)' <=> Logs(files[s], h)
    BY <2>1, SameReach DEF coming
  <2>3. pass # NoPass => Marks' /\ Garbage'
    BY <2>1, <2>2 DEF GcInv, Marks, Garbage, MayGo, Known, Reading
  <2> QED BY <2>1, <2>3, PassKeeps DEF GcInv, TypeOK, coming
<1>2. ASSUME NEW s \in Sessions, SessionStep(s)
      PROVE  GcInv'
  <2>1. CASE (\E doc \in Document : StoreAssets(s, doc)) \/ Open(s) \/ OpenFails(s)
    BY <2>1, StoreAssetsKeeps, OpenKeeps, OpenFailsKeeps
  <2>2. CASE \E h \in Hashes : StageImport(s, h) \/ ReadStored(s, h)
    BY <2>2, ImportsKeep
  <2>3. CASE CommitImport(s) \/ \E h \in Hashes : RemoveAsset(s, h)
    BY <2>3, EditsKeep
  <2>4. CASE PutBlob(s) \/ EndImport(s)
    BY <2>4, PutBlobKeeps, EndImportKeeps
  <2>5. CASE \E h \in Hashes : Propose(s, h) \/ ProposalExpires(s, h)
    BY <2>5, ProposalsKeep
  <2>6. CASE Undo(s) \/ Redo(s)
    BY <2>6, UndoKeeps
  <2>7. CASE WriteBase(s) \/ ResetJournal(s) \/ RotationFails(s)
    BY <2>7, WriteBaseKeeps, ResetJournalKeeps, RotationFailsKeeps
  <2>8. CASE Close(s) \/ Recover(s)
    BY <2>8, CloseKeeps, RecoverKeeps
  <2> QED BY <1>2, <2>1, <2>2, <2>3, <2>4, <2>5, <2>6, <2>7, <2>8 DEF SessionStep
<1>3. CASE BeginPass \/ ListCandidates \/ ListBlobs
  BY <1>3, BeginPassKeeps, ListCandidatesKeeps, ListBlobsKeeps
<1>4. CASE EndPass \/ PassFails
  BY <1>4, PassKeeps DEF EndPass, PassFails
<1>5. CASE \E s \in Sessions : ReadBase(s) \/ ReadJournal(s)
  BY <1>5, ReadBaseKeeps, ReadJournalKeeps
<1>6. CASE (\E h \in Hashes : Sweep(h) \/ Age(h)) \/ Crash
  BY <1>6, SweepKeeps, AgeKeeps, CrashKeeps
<1> QED BY <1>1, <1>2, <1>3, <1>4, <1>5, <1>6 DEF Next, PassStep

\* Every variable keeps its type.
THEOREM Typing == Spec => []TypeOK
<1>1. GcInv /\ [Next]_vars => GcInv'
  BY GcStep
<1>2. GcInv => TypeOK
  BY DEF GcInv
<1> QED BY <1>1, <1>2, InitGc, PTL DEF Spec

\* Files that can be recovered lack no bytes of the document they replay to but
\* those of an asset that came into use during a pass, which removed its blob,
\* however edits, rotations that fail between the base and the journal, passes,
\* ageing, recoveries and crashes interleave.
THEOREM RecoveriesLackOnlyRevivedBytes == Spec => []OnlyRevivedBytesAreLost
<1>1. GcInv /\ [Next]_vars => GcInv'
  BY GcStep
<1>2. GcInv => OnlyRevivedBytesAreLost
  BY DEF GcInv, SoundSession, Sound, There, OnlyRevivedBytesAreLost, Recoverable, Whole
<1> QED BY <1>1, <1>2, InitGc, PTL DEF Spec

\* Only the sweep removes blobs.
LEMMA OnlySweepRemoves ==
    ASSUME GcInv, [Next]_vars, NEW h \in Hashes, h \in Stored, blobs'[h] = "absent"
    PROVE  Sweep(h) /\ Removes(h)
<1>1. /\ blobs \in [Hashes -> {"absent", "fresh", "old"}] /\ blobs[h] # "absent"
      /\ lost \in Document
  BY DEF GcInv, TypeOK, Stored
<1>2. blobs' # blobs
  BY <1>1
<1>3. ASSUME NEW put, Put(put)
      PROVE  FALSE
  BY <1>1, <1>3 DEF Put
<1>4. ASSUME NEW s \in Sessions
      PROVE  ~SessionStep(s)
  <2>1. ~PutBlob(s) /\ \A doc \in Document : ~StoreAssets(s, doc)
    BY <1>3 DEF PutBlob, StoreAssets
  <2>2. ~Open(s) /\ ~OpenFails(s)
    BY <1>2 DEF Open, OpenFails
  <2>3. \A g \in Hashes : ~StageImport(s, g) /\ ~ReadStored(s, g) /\ ~RemoveAsset(s, g)
    BY <1>2 DEF StageImport, ReadStored, RemoveAsset
  <2>4. ~CommitImport(s) /\ ~EndImport(s) /\ ~Undo(s) /\ ~Redo(s)
    BY <1>2 DEF CommitImport, EndImport, Undo, Redo
  <2>5. \A g \in Hashes : ~Propose(s, g) /\ ~ProposalExpires(s, g)
    BY <1>2 DEF Propose, ProposalExpires
  <2>6. /\ ~WriteBase(s) /\ ~ResetJournal(s) /\ ~RotationFails(s) /\ ~Close(s) /\ ~Recover(s)
    BY <1>2 DEF WriteBase, ResetJournal, RotationFails, Close, Recover
  <2> QED BY <2>1, <2>2, <2>3, <2>4, <2>5, <2>6 DEF SessionStep
<1>5. ~BeginPass /\ ~ListCandidates /\ ~ListBlobs /\ ~EndPass /\ ~PassFails /\ ~Crash
  BY <1>2 DEF BeginPass, ListCandidates, ListBlobs, EndPass, PassFails, Crash
<1>6. \A s \in Sessions : ~ReadBase(s) /\ ~ReadJournal(s)
  BY <1>2 DEF ReadBase, ReadJournal
<1>7. \A g \in Hashes : ~Age(g)
  BY <1>1 DEF Age
<1>8. PICK g \in Hashes : Sweep(g)
  BY <1>2, <1>4, <1>5, <1>6, <1>7 DEF Next, PassStep, vars
<1> QED BY <1>1, <1>2, <1>8 DEF Sweep

\* A pass removes no blob that a document, a history, a pending proposal, a staged
\* import or the journal of a session refers to, unless it came into use during
\* the pass.
THEOREM ReachableIsPreserved == Spec => PreservesReachable
<1>1. GcInv /\ [Next]_vars => GcInv'
  BY GcStep
<1>2. GcInv /\ [Next]_vars =>
        [\A h \in (InMemory \cup Logged) \ RevivedNow : h \in Stored => blobs'[h] # "absent"]_vars
  <2> SUFFICES ASSUME GcInv, [Next]_vars, NEW h \in (InMemory \cup Logged) \ RevivedNow,
                      h \in Stored, blobs'[h] = "absent"
               PROVE  FALSE
    OBVIOUS
  <2>1. h \in Hashes
    BY DEF Stored
  <2>2. Sweep(h) /\ Removes(h)
    BY <2>1, OnlySweepRemoves
  <2>3. h \in pass.revived
    BY <2>1, <2>2, RemovedIsUnused
  <2> QED BY <2>2, <2>3 DEF Sweep, RevivedNow
<1> QED BY <1>1, <1>2, InitGc, PTL DEF Spec, PreservesReachable

\* A pass that did not use up its deletions has removed, of the entries it looked
\* at, all that was old and unreachable when it began and has not come into use
\* since.
THEOREM GarbageIsCollected == Spec => PassCollectsGarbage
<1>1. GcInv /\ [Next]_vars => GcInv'
  BY GcStep
<1>2. GcInv /\ [Next]_vars =>
        [EndPass /\ pass.deleted < MaxDeletes => pass.garbage \cap Stored = {}]_vars
  <2> SUFFICES ASSUME GcInv, EndPass, pass.deleted < MaxDeletes,
                      NEW h \in pass.garbage, h \in Stored
               PROVE  FALSE
    OBVIOUS
  <2>1. Garbage /\ pass.step = "sweep" /\ pass.toSweep = {}
    BY DEF EndPass, GcInv
  <2> QED BY <2>1 DEF Garbage, Stored
<1> QED BY <1>1, <1>2, InitGc, PTL DEF Spec, PassCollectsGarbage
=============================================================================
