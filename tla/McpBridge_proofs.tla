-------------------------- MODULE McpBridge_proofs --------------------------
(***************************************************************************)
(* Proofs about the agent bridge, for any clients, limits and bounds: an   *)
(* approval is in one place at a time (granted, a receipt, with a call in  *)
(* the session queue, or with an open dialog) and unspent while it is in   *)
(* one; what waits carries the revision that was approved.                 *)
(***************************************************************************)
EXTENDS McpBridge, SequenceTheorems, TLAPS

\* The approval that a call uses.
Uses(op) == IF op.kind \in {"commit", "undo", "import"} THEN op.approval ELSE None

\* What a waiting call was admitted for.
AdmittedCall(op) ==
    /\ op.kind = "commit" =>
          /\ op.proposal \in 1..Len(proposals)
          /\ op.approval = None \/
                /\ op.approval \in 1..Len(approvals)
                /\ approvals[op.approval].action = "commit-destructive"
    /\ op.kind \in {"undo", "import"} =>
          /\ op.approval \in 1..Len(approvals)
          /\ op.rev = approvals[op.approval].rev
    /\ op.kind = "undo" => op.tx \in 1..Len(log) /\ IsCommitOf(op.tx, op.client)

\* The calls in the queue, and the approvals that are receipts, with calls and
\* with dialogs.
Calls == {queue[i] : i \in 1..Len(queue)}
Receipted == {receipts[i] : i \in 1..Len(receipts)}
Called == {Uses(op) : op \in Calls} \ {None}
Asked == {d.approval : d \in dialogs}

Waiting ==
    /\ \A op \in Calls : AdmittedCall(op)
    /\ \A d \in dialogs : d.rev = approvals[d.approval].rev

\* No approval is twice in one place ...
SingleReceipts == \A i, j \in 1..Len(receipts) : receipts[i] = receipts[j] => i = j
SingleCalls ==
    \A i, j \in 1..Len(queue) :
       Uses(queue[i]) = Uses(queue[j]) => i = j \/ Uses(queue[i]) = None
SingleDialogs == \A d, e \in dialogs : d.approval = e.approval => d = e

\* ... or in two places.
InOnePlace ==
    /\ SingleReceipts /\ SingleCalls /\ SingleDialogs
    /\ grants \cap (Receipted \cup Called \cup Asked) = {}
    /\ Receipted \cap (Called \cup Asked) = {}
    /\ Called \cap Asked = {}

UnspentWhileHeld ==
    \A a \in grants \cup Receipted \cup Called \cup Asked : approvals[a].spentOn = <<>>

SpentAsApproved ==
    \A a \in 1..Len(approvals) :
       /\ Len(approvals[a].spentOn) <= 1
       /\ approvals[a].action # "commit-destructive" =>
             \A i \in 1..Len(approvals[a].spentOn) :
                approvals[a].spentOn[i] = approvals[a].rev

\* A proposal that can still be committed was not.
AppliedAsValidated ==
    /\ \A p \in pending : proposals[p].appliedOn = <<>>
    /\ \A p \in 1..Len(proposals) :
          LET on == proposals[p].appliedOn
          IN  Len(on) <= 1 /\ \A i \in 1..Len(on) : on[i] = proposals[p].base

Inv == TypeOK /\ Waiting /\ InOnePlace /\ UnspentWhileHeld /\ SpentAsApproved
       /\ AppliedAsValidated
-----------------------------------------------------------------------------
(* Sequences, element by element.                                          *)

LEMMA AppendElements ==
    ASSUME NEW S, NEW s \in Seq(S), NEW e \in S
    PROVE  /\ Append(s, e) \in Seq(S) /\ Len(Append(s, e)) = Len(s) + 1 /\ Len(s) \in Nat
           /\ \A i \in 1..Len(s) : Append(s, e)[i] = s[i]
           /\ Append(s, e)[Len(s) + 1] = e
BY AppendProperties, LenProperties

LEMMA TailElements ==
    ASSUME NEW S, NEW s \in Seq(S), s # <<>>
    PROVE  /\ Tail(s) \in Seq(S) /\ Len(Tail(s)) = Len(s) - 1 /\ Len(s) \in Nat \ {0}
           /\ Head(s) = s[1] /\ Head(s) \in S
           /\ \A i \in 1..(Len(s) - 1) : Tail(s)[i] = s[i + 1]
BY HeadTailProperties, LenProperties, EmptySeq

LEMMA FrontElements ==
    ASSUME NEW S, NEW s \in Seq(S), s # <<>>
    PROVE  Front(s) \in Seq(S) /\ Len(Front(s)) = Len(s) - 1 /\ Len(s) \in Nat
<1> DEFINE front == SubSeq(s, 1, Len(s) - 1)
<1>1. Len(s) \in Nat \ {0} /\ Front(s) = front
  BY EmptySeq, LenProperties DEF Front
<1>2. \A i \in 1..(Len(s) - 1) : s[i] \in S
  BY <1>1, ElementOfSeq
<1>3. front \in Seq(S) /\ Len(front) = IF 1 <= Len(s) - 1 THEN (Len(s) - 1) - 1 + 1 ELSE 0
  BY <1>1, <1>2, SubSeqProperties
<1>4. Len(front) = Len(s) - 1
  <2>1. \A n \in Nat \ {0} : (IF 1 <= n - 1 THEN (n - 1) - 1 + 1 ELSE 0) = n - 1
    OBVIOUS
  <2> QED BY <1>1, <1>3, <2>1
<1> HIDE DEF front
<1> QED BY <1>1, <1>3, <1>4

LEMMA RemoveAtElements ==
    ASSUME NEW S, NEW s \in Seq(S), NEW i \in 1..Len(s)
    PROVE  /\ RemoveAt(s, i) \in Seq(S) /\ Len(RemoveAt(s, i)) = Len(s) - 1 /\ Len(s) \in Nat
           /\ \A j \in 1..(Len(s) - 1) : RemoveAt(s, i)[j] = s[IF j < i THEN j ELSE j + 1]
<1> DEFINE left == SubSeq(s, 1, i - 1)
           right == SubSeq(s, i + 1, Len(s))
<1>1. Len(s) \in Nat
  BY LenProperties
<1>2. /\ left \in Seq(S) /\ Len(left) = i - 1
      /\ \A j \in 1..(i - 1) : left[j] = s[j]
  BY <1>1, SubSeqProperties
<1>3. /\ right \in Seq(S) /\ Len(right) = Len(s) - i
      /\ \A j \in 1..(Len(s) - i) : right[j] = s[i + j]
  BY <1>1, SubSeqProperties
<1> HIDE DEF left, right
<1>4. /\ left \o right \in Seq(S) /\ Len(left \o right) = Len(s) - 1
      /\ \A j \in 1..(Len(s) - 1) :
            (left \o right)[j] = IF j <= i - 1 THEN left[j] ELSE right[j - (i - 1)]
  <2>1. Len(left) + Len(right) = Len(s) - 1
    BY <1>1, <1>2, <1>3
  <2>2. /\ left \o right \in Seq(S) /\ Len(left \o right) = Len(left) + Len(right)
        /\ \A j \in 1..(Len(left) + Len(right)) :
              (left \o right)[j] = IF j <= Len(left) THEN left[j] ELSE right[j - Len(left)]
    BY <1>2, <1>3, ConcatProperties
  <2> QED BY <1>2, <2>1, <2>2
<1>5. ASSUME NEW j \in 1..(Len(s) - 1)
      PROVE  (left \o right)[j] = s[IF j < i THEN j ELSE j + 1]
  <2>1. CASE j < i
    BY <1>1, <1>2, <1>4, <2>1
  <2>2. CASE ~(j < i)
    <3>1. j - (i - 1) \in 1..(Len(s) - i) /\ i + (j - (i - 1)) = j + 1
      BY <1>1, <2>2
    <3> QED BY <1>1, <1>3, <1>4, <2>2, <3>1
  <2> QED BY <2>1, <2>2
<1> QED BY <1>1, <1>4, <1>5 DEF left, right, RemoveAt

LEMMA RangeElements ==
    ASSUME NEW S, NEW s \in Seq(S), NEW e \in Range(s)
    PROVE  \E i \in 1..Len(s) : e = s[i]
BY LenProperties DEF Range
-----------------------------------------------------------------------------
(* What a step does to the places.                                         *)

LEMMA Taken ==
    ASSUME TypeOK, SingleReceipts, NEW a, TakeReceipt(a)
    PROVE  /\ a \in Receipted /\ a \in 1..Len(approvals) /\ a \in Nat \ {0}
           /\ receipts' \in Seq(Nat) /\ Receipted' = Receipted \ {a} /\ SingleReceipts'
           /\ \A j \in 1..Len(receipts') : receipts'[j] \in 1..Len(approvals)
<1>1. PICK i \in 1..Len(receipts) : receipts[i] = a /\ receipts' = RemoveAt(receipts, i)
  BY LenProperties DEF TypeOK, TakeReceipt
<1>2. /\ receipts' \in Seq(Nat) /\ Len(receipts') = Len(receipts) - 1 /\ Len(receipts) \in Nat
      /\ \A j \in 1..(Len(receipts) - 1) : receipts'[j] = receipts[IF j < i THEN j ELSE j + 1]
  BY <1>1, RemoveAtElements DEF TypeOK
<1>3. \A j \in 1..Len(receipts') :
         LET k == IF j < i THEN j ELSE j + 1
         IN  k \in 1..Len(receipts) /\ k # i /\ receipts'[j] = receipts[k]
  BY <1>1, <1>2
<1>4. \A k \in 1..Len(receipts) : k # i => \E j \in 1..Len(receipts') : receipts'[j] = receipts[k]
  <2> SUFFICES ASSUME NEW k \in 1..Len(receipts), k # i
               PROVE  \E j \in 1..Len(receipts') : receipts'[j] = receipts[k]
    OBVIOUS
  <2>1. CASE k < i
    <3>1. k \in 1..Len(receipts') /\ receipts'[k] = receipts[k]
      BY <1>1, <1>2, <2>1
    <3> QED BY <3>1
  <2>2. CASE ~(k < i)
    <3>1. k - 1 \in 1..Len(receipts') /\ receipts'[k - 1] = receipts[(k - 1) + 1]
      BY <1>1, <1>2, <2>2
    <3>2. (k - 1) + 1 = k
      BY <1>2
    <3> QED BY <3>1, <3>2
  <2> QED BY <2>1, <2>2
<1>5. Receipted' = Receipted \ {a}
  <2>1. Receipted' \subseteq Receipted \ {a}
    BY <1>1, <1>3 DEF Receipted, SingleReceipts
  <2>2. Receipted \ {a} \subseteq Receipted'
    BY <1>1, <1>4 DEF Receipted
  <2> QED BY <2>1, <2>2
<1>6. SingleReceipts'
  <2> SUFFICES ASSUME NEW j \in 1..Len(receipts'), NEW k \in 1..Len(receipts'),
                      receipts'[j] = receipts'[k]
               PROVE  j = k
    BY DEF SingleReceipts
  <2> DEFINE at(n) == IF n < i THEN n ELSE n + 1
  <2>1. /\ at(j) \in 1..Len(receipts) /\ receipts'[j] = receipts[at(j)]
        /\ at(k) \in 1..Len(receipts) /\ receipts'[k] = receipts[at(k)]
    BY <1>3
  <2>2. at(j) = at(k)
    <3> HIDE DEF at
    <3> QED BY <2>1 DEF SingleReceipts
  <2> QED BY <1>2, <2>2
<1>7. Len(approvals) \in Nat
  BY LenProperties DEF TypeOK
<1>8. a \in 1..Len(approvals) /\ \A j \in 1..Len(receipts') : receipts'[j] \in 1..Len(approvals)
  BY <1>1, <1>3 DEF TypeOK
<1>9. a \in Receipted
  BY <1>1 DEF Receipted
<1> QED BY <1>2, <1>5, <1>6, <1>7, <1>8, <1>9

LEMMA Enqueued ==
    ASSUME TypeOK, SingleCalls, NEW op \in Call, Enqueue(op), Uses(op) \notin Called
    PROVE  /\ queue' \in Seq(Call) /\ Calls' = Calls \cup {op}
           /\ Called' = Called \cup ({Uses(op)} \ {None}) /\ SingleCalls'
<1>1. /\ queue' \in Seq(Call) /\ Len(queue') = Len(queue) + 1 /\ Len(queue) \in Nat
      /\ \A i \in 1..Len(queue) : queue'[i] = queue[i]
      /\ queue'[Len(queue) + 1] = op
  BY AppendElements DEF TypeOK, Enqueue
<1>2. Calls' = Calls \cup {op}
  <2>1. Calls' \subseteq Calls \cup {op}
    BY <1>1 DEF Calls
  <2>2. Calls \subseteq Calls'
    BY <1>1 DEF Calls
  <2>3. Len(queue) + 1 \in 1..Len(queue') 
    BY <1>1
  <2>4. op \in Calls'
    BY <1>1, <2>3 DEF Calls
  <2> QED BY <2>1, <2>2, <2>4
<1>3. Called' = Called \cup ({Uses(op)} \ {None})
  BY <1>2 DEF Called
<1>4. SingleCalls'
  <2> SUFFICES ASSUME NEW i \in 1..Len(queue'), NEW j \in 1..Len(queue'),
                      Uses(queue'[i]) = Uses(queue'[j]), i # j
               PROVE  Uses(queue'[i]) = None
    BY DEF SingleCalls
  <2>1. CASE i \in 1..Len(queue) /\ j \in 1..Len(queue)
    BY <1>1, <2>1 DEF SingleCalls
  <2>2. CASE i = Len(queue) + 1 /\ j \in 1..Len(queue)
    BY <1>1, <2>2 DEF Calls, Called
  <2>3. CASE j = Len(queue) + 1 /\ i \in 1..Len(queue)
    BY <1>1, <2>3 DEF Calls, Called
  <2> QED BY <1>1, <2>1, <2>2, <2>3
<1> QED BY <1>1, <1>2, <1>3, <1>4

LEMMA Dequeued ==
    ASSUME TypeOK, SingleCalls, queue # <<>>, queue' = Tail(queue)
    PROVE  /\ Head(queue) \in Calls /\ Head(queue) \in Call
           /\ queue' \in Seq(Call) /\ Calls' \subseteq Calls
           /\ Called' = Called \ {Uses(Head(queue))} /\ SingleCalls'
<1>1. /\ queue' \in Seq(Call) /\ Len(queue') = Len(queue) - 1 /\ Len(queue) \in Nat \ {0}
      /\ Head(queue) = queue[1] /\ Head(queue) \in Call
      /\ \A i \in 1..(Len(queue) - 1) : queue'[i] = queue[i + 1]
  BY TailElements DEF TypeOK
<1>2. Head(queue) \in Calls
  BY <1>1 DEF Calls
<1>3. \A i \in 1..Len(queue') : i + 1 \in 1..Len(queue) /\ i + 1 # 1 /\ queue'[i] = queue[i + 1]
  BY <1>1
<1>4. Calls' \subseteq Calls
  BY <1>3 DEF Calls
<1>5. \A k \in 1..Len(queue) : k # 1 => queue[k] \in Calls'
  <2> SUFFICES ASSUME NEW k \in 1..Len(queue), k # 1
               PROVE  queue[k] \in Calls'
    OBVIOUS
  <2>1. k - 1 \in 1..Len(queue') /\ (k - 1) + 1 = k
    BY <1>1
  <2>2. queue'[k - 1] = queue[k]
    BY <1>1, <2>1
  <2> QED BY <2>1, <2>2 DEF Calls
<1>6. Called' = Called \ {Uses(Head(queue))}
  <2>1. Called' \subseteq Called
    BY <1>4 DEF Called
  <2>2. Uses(Head(queue)) \notin Called'
    <3> SUFFICES ASSUME NEW i \in 1..Len(queue'), Uses(queue'[i]) = Uses(queue[1]),
                        Uses(queue'[i]) # None
                 PROVE  FALSE
      BY <1>1 DEF Called, Calls
    <3>1. i + 1 \in 1..Len(queue) /\ 1 \in 1..Len(queue) /\ i + 1 # 1
      BY <1>1, <1>3
    <3> QED BY <1>3, <3>1 DEF SingleCalls
  <2>3. Called \ {Uses(Head(queue))} \subseteq Called'
    BY <1>1, <1>5 DEF Called, Calls
  <2> QED BY <2>1, <2>2, <2>3
<1>7. SingleCalls'
  <2> SUFFICES ASSUME NEW i \in 1..Len(queue'), NEW j \in 1..Len(queue'),
                      Uses(queue'[i]) = Uses(queue'[j])
               PROVE  i = j \/ Uses(queue'[i]) = None
    BY DEF SingleCalls
  <2>1. i + 1 = j + 1 => i = j
    BY <1>1
  <2> QED BY <1>3, <2>1 DEF SingleCalls
<1> QED BY <1>1, <1>2, <1>4, <1>6, <1>7
\* What was recorded of approvals, proposals and transactions stays.
Grown ==
    /\ Len(approvals') \in Nat /\ Len(approvals') >= Len(approvals)
    /\ \A b \in 1..Len(approvals) :
          approvals'[b].action = approvals[b].action /\ approvals'[b].rev = approvals[b].rev
    /\ Len(proposals') \in Nat /\ Len(proposals') >= Len(proposals)
    /\ Len(log') \in Nat /\ Len(log') >= Len(log)
    /\ \A t \in 1..Len(log) : log'[t] = log[t]

LEMMA StaysAdmitted ==
    ASSUME TypeOK, Grown, NEW op, AdmittedCall(op)
    PROVE  AdmittedCall(op)'
<1>1. Len(approvals) \in Nat /\ Len(proposals) \in Nat /\ Len(log) \in Nat
  BY LenProperties DEF TypeOK
<1>2. \A t \in 1..Len(log) : t \in 1..Len(log') /\ log'[t] = log[t]
  BY <1>1 DEF Grown
<1>3. \A q \in 1..Len(proposals) : q \in 1..Len(proposals')
  BY <1>1 DEF Grown
<1>4. \A b \in 1..Len(approvals) :
         /\ b \in 1..Len(approvals')
         /\ approvals'[b].action = approvals[b].action /\ approvals'[b].rev = approvals[b].rev
  BY <1>1 DEF Grown
<1> QED BY <1>2, <1>3, <1>4 DEF AdmittedCall, IsCommitOf

LEMMA Unchanging ==
    ASSUME TypeOK, UNCHANGED <<log, proposals, approvals>>
    PROVE  Grown
BY LenProperties DEF TypeOK, Grown

\* An approval is spent: only what it was spent on changes.
LEMMA Spent ==
    ASSUME TypeOK, NEW a \in 1..Len(approvals) \cup {None}, Spend(a)
    PROVE  /\ approvals' \in Seq(Approval) /\ Len(approvals') = Len(approvals)
           /\ \A b \in 1..Len(approvals) :
                 /\ approvals'[b].action = approvals[b].action
                 /\ approvals'[b].rev = approvals[b].rev
                 /\ b # a => approvals'[b] = approvals[b]
           /\ a # None => approvals'[a].spentOn = Append(approvals[a].spentOn, history)
<1>1. CASE a = None
  BY <1>1, LenProperties DEF Spend, TypeOK, None
<1>2. CASE a \in 1..Len(approvals)
  <2> DEFINE on == Append(approvals[a].spentOn, history)
             new == [approvals[a] EXCEPT !.spentOn = on]
  <2>1. approvals[a] \in Approval
    BY <1>2, ElementOfSeq DEF TypeOK
  <2>2. on \in Seq(Revision)
    <3>1. approvals[a].spentOn \in Seq(Revision)
      BY <2>1 DEF Approval
    <3> QED BY <3>1, AppendElements DEF TypeOK
  <2> HIDE DEF on
  <2>3. new \in Approval /\ new.action = approvals[a].action /\ new.rev = approvals[a].rev
        /\ new.spentOn = on
    BY <2>1, <2>2 DEF Approval
  <2>4. approvals' = [approvals EXCEPT ![a] = new]
    <3>1. Len(approvals) \in Nat
      BY LenProperties DEF TypeOK
    <3>2. a # None
      BY <1>2, <3>1 DEF None
    <3> QED BY <3>2 DEF Spend, on
  <2> HIDE DEF new
  <2>5. /\ approvals' \in Seq(Approval) /\ Len(approvals') = Len(approvals)
        /\ \A b \in 1..Len(approvals) : approvals'[b] = IF b = a THEN new ELSE approvals[b]
    BY <1>2, <2>3, <2>4, ExceptSeq DEF TypeOK
  <2> QED BY <1>2, <2>3, <2>5 DEF on
<1> QED BY <1>1, <1>2

LEMMA SpentOnce ==
    ASSUME TypeOK, SpentAsApproved, NEW a \in 1..Len(approvals) \cup {None}, Spend(a),
           a # None =>
              /\ approvals[a].spentOn = <<>>
              /\ approvals[a].action # "commit-destructive" => approvals[a].rev = history
    PROVE  SpentAsApproved'
<1> SUFFICES ASSUME NEW b \in 1..Len(approvals)
             PROVE  /\ Len(approvals'[b].spentOn) <= 1
                    /\ approvals'[b].action # "commit-destructive" =>
                          \A i \in 1..Len(approvals'[b].spentOn) :
                             approvals'[b].spentOn[i] = approvals'[b].rev
  BY Spent DEF SpentAsApproved
<1>1. CASE b # a
  BY <1>1, Spent DEF SpentAsApproved
<1>2. CASE b = a
  <2>1. a # None
    <3>1. Len(approvals) \in Nat
      BY LenProperties DEF TypeOK
    <3> QED BY <1>2, <3>1 DEF None
  <2>2. approvals'[a].spentOn = Append(<<>>, history)
    BY <2>1, Spent
  <2>3. history \in Revision /\ <<>> \in Seq(Revision)
    BY EmptySeq DEF TypeOK
  <2>4. Len(Append(<<>>, history)) = 1 /\ Append(<<>>, history)[1] = history
    BY <2>3, AppendElements, EmptySeq
  <2>5. approvals'[a].action = approvals[a].action /\ approvals'[a].rev = approvals[a].rev
    BY <1>2, Spent
  <2> HIDE DEF Spend
  <2> QED BY <1>2, <2>1, <2>2, <2>4, <2>5
<1> QED BY <1>1, <1>2

\* A call leaves the queue, and spends the approval it carries or nothing.
LEMMA Ran ==
    ASSUME Inv, queue # <<>>, queue' = Tail(queue), UNCHANGED <<grants, receipts, dialogs>>,
           NEW a, a = Uses(Head(queue)),
           approvals' = approvals \/
              (Spend(a) /\ (a # None /\ approvals[a].action # "commit-destructive" =>
                              approvals[a].rev = history)),
           Len(proposals') \in Nat /\ Len(proposals') >= Len(proposals),
           Len(log') \in Nat /\ Len(log') >= Len(log),
           \A t \in 1..Len(log) : log'[t] = log[t]
    PROVE  /\ approvals' \in Seq(Approval) /\ Len(approvals') = Len(approvals)
           /\ queue' \in Seq(Call) /\ Waiting' /\ InOnePlace' /\ UnspentWhileHeld'
           /\ SpentAsApproved'
<1>1. TypeOK /\ InOnePlace /\ Waiting
  BY DEF Inv
<1>2. /\ Head(queue) \in Calls /\ Head(queue) \in Call
      /\ queue' \in Seq(Call) /\ Calls' \subseteq Calls
      /\ Called' = Called \ {a} /\ SingleCalls'
  BY <1>1, Dequeued DEF InOnePlace
<1>3. a \in 1..Len(approvals) \cup {None}
  BY <1>1, <1>2 DEF Waiting, AdmittedCall, Uses
<1>4. /\ approvals' \in Seq(Approval) /\ Len(approvals') = Len(approvals)
      /\ \A b \in 1..Len(approvals) :
            /\ approvals'[b].action = approvals[b].action
            /\ approvals'[b].rev = approvals[b].rev
            /\ b # a => approvals'[b] = approvals[b]
  <2>1. CASE approvals' = approvals
    BY <1>1, <2>1 DEF TypeOK
  <2>2. CASE Spend(a)
    BY <1>1, <1>3, <2>2, Spent
  <2> QED BY <2>1, <2>2
<1>5. Grown
  <2>1. Len(approvals) \in Nat
    BY <1>1, LenProperties DEF TypeOK
  <2> QED BY <1>4, <2>1 DEF Grown
<1>6. Waiting'
  <2>1. \A op \in Calls' : AdmittedCall(op)'
    BY <1>1, <1>2, <1>5, StaysAdmitted DEF Waiting
  <2>2. \A d \in dialogs : d.rev = approvals'[d.approval].rev
    BY <1>1, <1>4 DEF Waiting, TypeOK
  <2> QED BY <2>1, <2>2 DEF Waiting
<1>7. Receipted' = Receipted /\ Asked' = Asked /\ SingleReceipts' /\ SingleDialogs'
  BY <1>1 DEF Receipted, Asked, SingleReceipts, SingleDialogs, InOnePlace
<1>8. InOnePlace'
  BY <1>1, <1>2, <1>7 DEF InOnePlace
<1>9. Head(queue) \in Calls /\ (a # None => a \in Called)
  BY <1>2 DEF Called
<1>10. UnspentWhileHeld'
  <2> SUFFICES ASSUME NEW b \in (grants \cup Receipted \cup Called \cup Asked)'
               PROVE  approvals'[b].spentOn = <<>>
    BY DEF UnspentWhileHeld
  <2>1. b \in grants \cup Receipted \cup Called \cup Asked /\ (a # None => b # a)
    BY <1>1, <1>2, <1>7, <1>9 DEF InOnePlace
  <2>2. Len(approvals) \in Nat /\ b \in 1..Len(approvals)
    <3>1. \A op \in Calls : Uses(op) \in 1..Len(approvals) \cup {None}
      BY <1>1 DEF Waiting, AdmittedCall, Uses
    <3>2. Called \subseteq 1..Len(approvals)
      BY <3>1 DEF Called
    <3> QED BY <1>1, <2>1, <3>2, LenProperties DEF TypeOK, Receipted, Asked
  <2>3. b # a
    BY <2>1, <2>2 DEF None
  <2> QED BY <1>4, <2>1, <2>2, <2>3 DEF Inv, UnspentWhileHeld
<1>11. SpentAsApproved'
  <2>1. a # None => approvals[a].spentOn = <<>>
    BY <1>9 DEF Inv, UnspentWhileHeld
  <2>2. CASE approvals' = approvals
    BY <2>2 DEF Inv, SpentAsApproved
  <2>3. CASE Spend(a) /\ (a # None /\ approvals[a].action # "commit-destructive" =>
                             approvals[a].rev = history)
    BY <1>1, <1>3, <2>1, <2>3, SpentOnce DEF Inv
  <2> QED BY <2>2, <2>3
<1> QED BY <1>2, <1>4, <1>6, <1>8, <1>10, <1>11
-----------------------------------------------------------------------------
(* The steps.                                                              *)

LEMMA ExecuteTypes ==
    ASSUME TypeOK, NEW by \in Clients \cup {"human"}, NEW how \in {"edit", "commit", "import"},
           Execute(by, how)
    PROVE  /\ history' \in Revision /\ log' \in Seq(Transaction)
           /\ Len(log') \in Nat /\ Len(log') >= Len(log)
           /\ \A t \in 1..Len(log) : log'[t] = log[t]
<1>1. [by |-> by, how |-> how] \in Transaction
  BY DEF Transaction
<1>2. Len(log) \in Nat /\ Len(log) + 1 \in Nat
  BY LenProperties DEF TypeOK
<1>3. history' \in Revision
  BY <1>2, AppendElements DEF TypeOK, Execute, Revision
<1>4. /\ log' \in Seq(Transaction) /\ Len(log') = Len(log) + 1
      /\ \A t \in 1..Len(log) : log'[t] = log[t]
  BY <1>1, AppendElements DEF TypeOK, Execute
<1> QED BY <1>2, <1>3, <1>4

LEMMA UndoTypes ==
    ASSUME TypeOK, Undo, history # <<>>
    PROVE  history' \in Revision
BY FrontElements DEF TypeOK, Undo, Revision

LEMMA UnchangedLog ==
    ASSUME TypeOK, UNCHANGED log
    PROVE  /\ log' \in Seq(Transaction) /\ Len(log') \in Nat /\ Len(log') >= Len(log)
           /\ \A t \in 1..Len(log) : log'[t] = log[t]
BY LenProperties DEF TypeOK

LEMMA UnchangedProposals ==
    ASSUME TypeOK, AppliedAsValidated, UNCHANGED <<proposals, pending>>
    PROVE  /\ proposals' \in Seq(Proposal) /\ pending' \subseteq 1..Len(proposals')
           /\ Len(proposals') \in Nat /\ Len(proposals') >= Len(proposals)
           /\ AppliedAsValidated'
BY LenProperties DEF TypeOK, AppliedAsValidated

\* A run of a call that is not a commit.
LEMMA RanKeepingProposals ==
    ASSUME Inv, queue # <<>>, queue' = Tail(queue),
           UNCHANGED <<grants, receipts, dialogs, proposals, pending>>,
           approvals' = approvals \/
              (/\ Spend(Uses(Head(queue)))
               /\ Uses(Head(queue)) # None
                    /\ approvals[Uses(Head(queue))].action # "commit-destructive" =>
                       approvals[Uses(Head(queue))].rev = history),
           history' \in Revision, log' \in Seq(Transaction),
           Len(log') \in Nat /\ Len(log') >= Len(log),
           \A t \in 1..Len(log) : log'[t] = log[t]
    PROVE  Inv'
<1> DEFINE a == Uses(Head(queue))
<1>1. /\ proposals' \in Seq(Proposal) /\ pending' \subseteq 1..Len(proposals')
      /\ Len(proposals') \in Nat /\ Len(proposals') >= Len(proposals)
      /\ AppliedAsValidated'
  BY UnchangedProposals DEF Inv
<1> HIDE DEF a
<1>2. /\ approvals' \in Seq(Approval) /\ Len(approvals') = Len(approvals)
      /\ queue' \in Seq(Call) /\ Waiting' /\ InOnePlace' /\ UnspentWhileHeld'
      /\ SpentAsApproved'
  BY <1>1, Ran DEF a
<1>3. TypeOK'
  BY <1>1, <1>2 DEF TypeOK, Inv
<1> QED BY <1>1, <1>2, <1>3 DEF Inv

LEMMA HeadOfQueue ==
    ASSUME Inv, NEW kind, IsNext(kind)
    PROVE  /\ queue # <<>> /\ Head(queue) \in Call /\ Head(queue).kind = kind
           /\ AdmittedCall(Head(queue))
<1>1. queue # <<>> /\ Head(queue).kind = kind
  BY DEF IsNext
<1>2. Head(queue) \in Call /\ Head(queue) = queue[1] /\ 1 \in 1..Len(queue)
  BY <1>1, TailElements DEF Inv, TypeOK
<1>3. Head(queue) \in Calls
  BY <1>2 DEF Calls
<1> QED BY <1>1, <1>2, <1>3 DEF Inv, Waiting

LEMMA RunHumanEditStep ==
    ASSUME Inv, RunHumanEdit
    PROVE  Inv'
<1>1. queue # <<>> /\ Head(queue) \in Call /\ Head(queue).kind = "human-edit"
  BY HeadOfQueue DEF RunHumanEdit
<1>2. /\ queue' = Tail(queue) /\ UNCHANGED <<grants, receipts, dialogs, proposals, pending>>
      /\ approvals' = approvals
  BY DEF RunHumanEdit
<1>3. /\ history' \in Revision /\ log' \in Seq(Transaction)
      /\ Len(log') \in Nat /\ Len(log') >= Len(log)
      /\ \A t \in 1..Len(log) : log'[t] = log[t]
  <2>1. CASE Execute("human", "edit")
    BY <2>1, ExecuteTypes DEF Inv
  <2>2. CASE UNCHANGED <<history, log>>
    BY <2>2, UnchangedLog DEF Inv, TypeOK
  <2> QED BY <2>1, <2>2 DEF RunHumanEdit
<1> QED BY <1>1, <1>2, <1>3, RanKeepingProposals

LEMMA RunHumanUndoStep ==
    ASSUME Inv, RunHumanUndo
    PROVE  Inv'
<1>1. queue # <<>> /\ Head(queue) \in Call /\ Head(queue).kind = "human-undo"
  BY HeadOfQueue DEF RunHumanUndo
<1>2. /\ queue' = Tail(queue) /\ UNCHANGED <<grants, receipts, dialogs, proposals, pending, log>>
      /\ approvals' = approvals
  BY DEF RunHumanUndo
<1>3. history' \in Revision
  BY UndoTypes DEF RunHumanUndo, Inv, TypeOK
<1> QED BY <1>1, <1>2, <1>3, UnchangedLog, RanKeepingProposals DEF Inv

LEMMA RunImportStep ==
    ASSUME Inv, RunImport
    PROVE  Inv'
<1> DEFINE op == Head(queue)
<1>1. queue # <<>> /\ op \in Call /\ op.kind = "import" /\ AdmittedCall(op)
  BY HeadOfQueue DEF RunImport
<1>2. Uses(op) = op.approval /\ op.client \in Clients
  BY <1>1 DEF Uses, Call
<1>3. /\ queue' = Tail(queue) /\ UNCHANGED <<grants, receipts, dialogs, proposals, pending>>
  BY DEF RunImport
<1>4. CASE op.rev = history /\ Execute(op.client, "import") /\ Spend(op.approval)
  <2>1. approvals[op.approval].rev = history
    BY <1>1, <1>4 DEF AdmittedCall
  <2>2. /\ history' \in Revision /\ log' \in Seq(Transaction)
        /\ Len(log') \in Nat /\ Len(log') >= Len(log)
        /\ \A t \in 1..Len(log) : log'[t] = log[t]
    BY <1>2, <1>4, ExecuteTypes DEF Inv
  <2> QED BY <1>1, <1>2, <1>3, <1>4, <2>1, <2>2, RanKeepingProposals
<1>5. CASE UNCHANGED <<history, log, approvals>>
  BY <1>1, <1>3, <1>5, UnchangedLog, RanKeepingProposals DEF Inv, TypeOK
<1> QED BY <1>4, <1>5 DEF RunImport

LEMMA RunUndoStep ==
    ASSUME Inv, RunUndo
    PROVE  Inv'
<1> DEFINE op == Head(queue)
<1>1. queue # <<>> /\ op \in Call /\ op.kind = "undo" /\ AdmittedCall(op)
  BY HeadOfQueue DEF RunUndo
<1>2. Uses(op) = op.approval
  BY <1>1 DEF Uses
<1>3. /\ queue' = Tail(queue) /\ UNCHANGED <<grants, receipts, dialogs, proposals, pending, log>>
  BY DEF RunUndo
<1>4. CASE Undoable(op) /\ Undo /\ Spend(op.approval)
  <2>1. approvals[op.approval].rev = history
    BY <1>1, <1>4 DEF AdmittedCall, Undoable
  <2>2. history' \in Revision
    BY <1>4, UndoTypes DEF Inv, Undoable
  <2> QED BY <1>1, <1>2, <1>3, <1>4, <2>1, <2>2, UnchangedLog, RanKeepingProposals DEF Inv
<1>5. CASE UNCHANGED <<history, approvals>>
  BY <1>1, <1>3, <1>5, UnchangedLog, RanKeepingProposals DEF Inv, TypeOK
<1> QED BY <1>4, <1>5 DEF RunUndo

LEMMA RunCommitStep ==
    ASSUME Inv, RunCommit
    PROVE  Inv'
<1> DEFINE op == Head(queue)
           p == op.proposal
<1>1. queue # <<>> /\ op \in Call /\ op.kind = "commit" /\ AdmittedCall(op)
  BY HeadOfQueue DEF RunCommit
<1>2. Uses(op) = op.approval
  BY <1>1 DEF Uses
<1>3. /\ queue' = Tail(queue) /\ UNCHANGED <<grants, receipts, dialogs>>
  BY DEF RunCommit
<1>4. CASE p \in pending /\ proposals[p].base = history /\ Commit(p) /\ Spend(op.approval)
  <2>1. /\ p \in 1..Len(proposals) /\ proposals[p] \in Proposal
        /\ proposals[p].client \in Clients /\ proposals[p].appliedOn = <<>>
    <3>1. p \in 1..Len(proposals) /\ proposals[p].appliedOn = <<>>
      BY <1>4 DEF Inv, TypeOK, AppliedAsValidated
    <3>2. proposals[p] \in Proposal
      BY <3>1, ElementOfSeq DEF Inv, TypeOK
    <3> QED BY <3>1, <3>2 DEF Proposal
  <2>2. /\ history' \in Revision /\ log' \in Seq(Transaction)
        /\ Len(log') \in Nat /\ Len(log') >= Len(log)
        /\ \A t \in 1..Len(log) : log'[t] = log[t]
    BY <1>4, <2>1, ExecuteTypes DEF Inv, Commit
  <2> DEFINE on == Append(<<>>, history)
             new == [proposals[p] EXCEPT !.appliedOn = on]
  <2>3. on \in Seq(Revision) /\ Len(on) = 1 /\ on[1] = history
    <3>1. history \in Revision /\ <<>> \in Seq(Revision) /\ Len(<<>>) = 0
      BY EmptySeq DEF Inv, TypeOK
    <3> QED BY <3>1, AppendElements
  <2>4. proposals' = [proposals EXCEPT ![p] = new]
    BY <1>4, <2>1 DEF Commit
  <2> HIDE DEF on
  <2>5. new \in Proposal /\ new.appliedOn = on /\ new.base = history
    BY <1>4, <2>1, <2>3 DEF Proposal
  <2> HIDE DEF new, op, p
  <2>6. /\ proposals' \in Seq(Proposal) /\ Len(proposals') = Len(proposals)
        /\ \A q \in 1..Len(proposals) : proposals'[q] = IF q = p THEN new ELSE proposals[q]
    BY <2>1, <2>4, <2>5, ExceptSeq DEF Inv, TypeOK
  <2>7. Len(proposals) \in Nat /\ pending' = pending \ {p}
    BY <1>4, LenProperties DEF Inv, TypeOK, Commit
  <2>8. AppliedAsValidated'
    <3>1. \A q \in pending' : proposals'[q].appliedOn = <<>>
      BY <2>6, <2>7 DEF AppliedAsValidated, Inv, TypeOK
    <3>2. /\ Len(new.appliedOn) <= 1
          /\ \A i \in 1..Len(new.appliedOn) : new.appliedOn[i] = new.base
      <4>1. new.appliedOn = on /\ Len(on) = 1 /\ on[1] = new.base
        BY <2>3, <2>5
      <4>2. \A i \in 1..1 : i = 1
        OBVIOUS
      <4> QED BY <4>1, <4>2
    <3>3. ASSUME NEW q \in 1..Len(proposals')
          PROVE  /\ Len(proposals'[q].appliedOn) <= 1
                 /\ \A i \in 1..Len(proposals'[q].appliedOn) :
                       proposals'[q].appliedOn[i] = proposals'[q].base
      <4>1. CASE q = p
        BY <2>6, <3>2, <3>3, <4>1
      <4>2. CASE q # p
        BY <2>6, <3>3, <4>2 DEF AppliedAsValidated, Inv
      <4> QED BY <4>1, <4>2
    <3> QED BY <3>1, <3>3 DEF AppliedAsValidated
  <2>9. op.approval # None => approvals[op.approval].action = "commit-destructive"
    BY <1>1 DEF AdmittedCall
  <2>10. /\ approvals' \in Seq(Approval) /\ Len(approvals') = Len(approvals)
         /\ queue' \in Seq(Call) /\ Waiting' /\ InOnePlace' /\ UnspentWhileHeld'
         /\ SpentAsApproved'
    BY <1>1, <1>2, <1>3, <1>4, <2>2, <2>6, <2>7, <2>9, Ran DEF op
  <2>11. TypeOK'
    BY <1>3, <2>2, <2>6, <2>7, <2>10 DEF TypeOK, Inv
  <2> QED BY <2>8, <2>10, <2>11 DEF Inv
<1>5. CASE UNCHANGED <<history, log, proposals, pending, approvals>>
  BY <1>1, <1>3, <1>5, UnchangedLog, RanKeepingProposals DEF Inv, TypeOK
<1> QED BY <1>4, <1>5 DEF RunCommit

\* A step that moves approvals between places, or drops them.
LEMMA Moved ==
    ASSUME Inv, UNCHANGED <<history, log, proposals, approvals>>, pending' \subseteq pending,
           grants' \subseteq grants,
           receipts' \in Seq(Nat),
           \A i \in 1..Len(receipts') : receipts'[i] \in 1..Len(approvals),
           queue' \in Seq(Call),
           \A op \in Calls' : op \in Calls \/ AdmittedCall(op),
           dialogs' \subseteq Dialog,
           \A d \in dialogs' : d.approval \in 1..Len(approvals)
                                 /\ d.rev = approvals[d.approval].rev,
           InOnePlace',
           (grants \cup Receipted \cup Called \cup Asked)'
              \subseteq grants \cup Receipted \cup Called \cup Asked
    PROVE  Inv'
<1>1. TypeOK'
  BY DEF Inv, TypeOK
<1>2. Waiting'
  <2>1. \A op \in Calls' : AdmittedCall(op)'
    BY Unchanging, StaysAdmitted DEF Inv, Waiting
  <2> QED BY <2>1 DEF Waiting
<1>3. UnspentWhileHeld'
  BY DEF Inv, UnspentWhileHeld
<1>4. SpentAsApproved' /\ AppliedAsValidated'
  BY DEF Inv, SpentAsApproved, AppliedAsValidated
<1> QED BY <1>1, <1>2, <1>3, <1>4 DEF Inv

LEMMA Kept ==
    ASSUME Inv
    PROVE  /\ UNCHANGED receipts =>
                 /\ receipts' \in Seq(Nat)
                 /\ \A i \in 1..Len(receipts') : receipts'[i] \in 1..Len(approvals)
                 /\ Receipted' = Receipted /\ SingleReceipts'
           /\ UNCHANGED queue =>
                 /\ queue' \in Seq(Call) /\ Calls' = Calls /\ Called' = Called /\ SingleCalls'
           /\ dialogs' \subseteq dialogs =>
                 /\ dialogs' \subseteq Dialog /\ Asked' \subseteq Asked /\ SingleDialogs'
                 /\ \A d \in dialogs' : d.approval \in 1..Len(approvals)
                                          /\ d.rev = approvals[d.approval].rev
<1>1. UNCHANGED receipts =>
         /\ receipts' \in Seq(Nat)
         /\ \A i \in 1..Len(receipts') : receipts'[i] \in 1..Len(approvals)
         /\ Receipted' = Receipted /\ SingleReceipts'
  BY DEF Inv, TypeOK, Receipted, SingleReceipts, InOnePlace
<1>2. UNCHANGED queue =>
         queue' \in Seq(Call) /\ Calls' = Calls /\ Called' = Called /\ SingleCalls'
  BY DEF Inv, TypeOK, Calls, Called, SingleCalls, InOnePlace
<1>3. dialogs' \subseteq dialogs =>
         /\ dialogs' \subseteq Dialog /\ Asked' \subseteq Asked /\ SingleDialogs'
         /\ \A d \in dialogs' : d.approval \in 1..Len(approvals)
                                  /\ d.rev = approvals[d.approval].rev
  BY DEF Inv, TypeOK, Waiting, Asked, SingleDialogs, InOnePlace
<1> QED BY <1>1, <1>2, <1>3

LEMMA NoneIsNowhere ==
    ASSUME Inv
    PROVE  None \notin grants \cup Receipted \cup Called \cup Asked
BY LenProperties DEF Inv, TypeOK, Receipted, Called, Asked, None

LEMMA HumanCallsStep ==
    ASSUME Inv, NEW kind \in {"edit", "undo"}, HumanCalls(kind)
    PROVE  Inv'
<1> DEFINE op == [kind |-> IF kind = "undo" THEN "human-undo" ELSE "human-edit", rev |-> history]
<1>1. op \in Call /\ Uses(op) = None /\ AdmittedCall(op)
  <2>1. op.kind \in {"human-edit", "human-undo"}
    OBVIOUS
  <2>2. op \in Call
    BY <2>1 DEF Call, Inv, TypeOK
  <2>3. AdmittedCall(op)
    BY <2>1 DEF AdmittedCall
  <2> QED BY <2>1, <2>2, <2>3 DEF Uses
<1>2. /\ Enqueue(op)
      /\ UNCHANGED <<history, log, proposals, pending, approvals, grants, receipts, dialogs>>
  BY DEF HumanCalls
<1> HIDE DEF op
<1>3. /\ queue' \in Seq(Call) /\ Calls' = Calls \cup {op} /\ Called' = Called /\ SingleCalls'
  BY <1>1, <1>2, Enqueued DEF Inv, InOnePlace, Called
<1>4. InOnePlace'
  BY <1>2, <1>3, Kept DEF Inv, InOnePlace
<1>5. (grants \cup Receipted \cup Called \cup Asked)'
         \subseteq grants \cup Receipted \cup Called \cup Asked
  BY <1>2, <1>3, Kept
<1> QED BY <1>1, <1>2, <1>3, <1>4, <1>5, Kept, Moved

LEMMA IssueApprovalStep ==
    ASSUME Inv, NEW action \in Actions, IssueApproval(action)
    PROVE  Inv'
<1> DEFINE new == [client |-> Bootstrap, action |-> action, rev |-> history, spentOn |-> <<>>]
           n == Len(approvals)
<1>1. new \in Approval /\ new.spentOn = <<>>
  BY BootstrapAssumption, EmptySeq DEF Approval, Inv, TypeOK
<1>2. /\ UNCHANGED <<history, log, proposals, pending, receipts, queue, dialogs>>
      /\ approvals' = Append(approvals, new) /\ grants' = grants \cup {n + 1}
  BY DEF IssueApproval
<1> HIDE DEF new
<1>3. /\ approvals' \in Seq(Approval) /\ Len(approvals') = n + 1 /\ n \in Nat
      /\ \A i \in 1..n : approvals'[i] = approvals[i]
      /\ approvals'[n + 1] = new
  BY <1>1, <1>2, AppendElements DEF Inv, TypeOK
<1> HIDE DEF n
<1>4. TypeOK'
  <2>1. 1..n \subseteq 1..Len(approvals') /\ n + 1 \in 1..Len(approvals')
    BY <1>3
  <2>2. grants' \subseteq 1..Len(approvals')
    BY <1>2, <2>1 DEF Inv, TypeOK, n
  <2>3. \A i \in 1..Len(receipts') : receipts'[i] \in 1..Len(approvals')
    BY <1>2, <2>1 DEF Inv, TypeOK, n
  <2>4. dialogs' \subseteq Dialog /\ \A d \in dialogs' : d.approval \in 1..Len(approvals')
    BY <1>2, <2>1 DEF Inv, TypeOK, n
  <2> QED BY <1>2, <1>3, <2>2, <2>3, <2>4 DEF Inv, TypeOK
<1>5. /\ Receipted' = Receipted /\ Calls' = Calls /\ Called' = Called /\ Asked' = Asked
      /\ SingleReceipts' /\ SingleCalls' /\ SingleDialogs'
  BY <1>2 DEF Receipted, Calls, Called, Asked, SingleReceipts, SingleCalls, SingleDialogs,
     Inv, InOnePlace
<1>6. grants \cup Receipted \cup Called \cup Asked \subseteq 1..n
  <2>1. \A op \in Calls : Uses(op) \in 1..n \cup {None}
    BY DEF Inv, Waiting, AdmittedCall, Uses, n
  <2> QED BY <2>1 DEF Inv, TypeOK, Receipted, Called, Asked, n
<1>7. InOnePlace'
  BY <1>2, <1>3, <1>5, <1>6 DEF Inv, InOnePlace
<1>8. Waiting'
  <2>1. Grown
    BY <1>2, <1>3, LenProperties DEF Grown, Inv, TypeOK, n
  <2>2. \A op \in Calls' : AdmittedCall(op)'
    BY <1>5, <2>1, StaysAdmitted DEF Inv, Waiting
  <2>3. \A d \in dialogs' : d.rev = approvals'[d.approval].rev
    BY <1>2, <1>3 DEF Inv, Waiting, TypeOK, n
  <2> QED BY <2>2, <2>3 DEF Waiting
<1>9. UnspentWhileHeld'
  BY <1>1, <1>2, <1>3, <1>5, <1>6 DEF Inv, UnspentWhileHeld
<1>10. SpentAsApproved'
  <2>1. Len(new.spentOn) = 0
    BY <1>1, EmptySeq
  <2>2. ASSUME NEW a \in 1..(n + 1)
        PROVE  /\ Len(approvals'[a].spentOn) <= 1
               /\ approvals'[a].action # "commit-destructive" =>
                     \A i \in 1..Len(approvals'[a].spentOn) :
                        approvals'[a].spentOn[i] = approvals'[a].rev
    <3>1. CASE a = n + 1
      BY <1>3, <2>1, <3>1
    <3>2. CASE a \in 1..n
      BY <1>3, <3>2 DEF Inv, SpentAsApproved, n
    <3> QED BY <1>3, <3>1, <3>2
  <2> QED BY <1>3, <2>2 DEF SpentAsApproved
<1>11. AppliedAsValidated'
  BY <1>2 DEF Inv, AppliedAsValidated
<1> QED BY <1>4, <1>7, <1>8, <1>9, <1>10, <1>11 DEF Inv

LEMMA GrantExpiresStep ==
    ASSUME Inv, NEW a, GrantExpires(a)
    PROVE  Inv'
<1>1. grants' \subseteq grants
      /\ UNCHANGED <<history, log, proposals, pending, approvals, receipts, queue, dialogs>>
  BY DEF GrantExpires
<1>2. InOnePlace'
  BY <1>1, Kept DEF Inv, InOnePlace
<1> QED BY <1>1, <1>2, Kept, Moved DEF Inv, Waiting

LEMMA ReceiptExpiresStep ==
    ASSUME Inv, NEW a, ReceiptExpires(a)
    PROVE  Inv'
<1>1. TakeReceipt(a)
      /\ UNCHANGED <<history, log, proposals, pending, approvals, grants, queue, dialogs>>
  BY DEF ReceiptExpires
<1>2. /\ receipts' \in Seq(Nat) /\ Receipted' = Receipted \ {a} /\ SingleReceipts'
      /\ \A j \in 1..Len(receipts') : receipts'[j] \in 1..Len(approvals)
  BY <1>1, Taken DEF Inv, InOnePlace
<1>3. InOnePlace'
  BY <1>1, <1>2, Kept DEF Inv, InOnePlace
<1> QED BY <1>1, <1>2, <1>3, Kept, Moved DEF Inv, Waiting

LEMMA ConsumeApprovalStep ==
    ASSUME Inv, NEW c, NEW a, ConsumeApproval(c, a)
    PROVE  Inv'
<1>1. /\ a \in grants /\ grants' = grants \ {a} /\ receipts' = Append(receipts, a)
      /\ UNCHANGED <<history, log, proposals, pending, approvals, queue, dialogs>>
  BY DEF ConsumeApproval
<1>2. a \in 1..Len(approvals) /\ a \in Nat /\ a \notin Receipted
  BY <1>1, LenProperties DEF Inv, TypeOK, InOnePlace
<1>3. /\ receipts' \in Seq(Nat) /\ Len(receipts') = Len(receipts) + 1 /\ Len(receipts) \in Nat
      /\ \A i \in 1..Len(receipts) : receipts'[i] = receipts[i]
      /\ receipts'[Len(receipts) + 1] = a
  BY <1>1, <1>2, AppendElements DEF Inv, TypeOK
<1>4. \A i \in 1..Len(receipts') : i \in 1..Len(receipts) \/ i = Len(receipts) + 1
  BY <1>3
<1>5. \A i \in 1..Len(receipts') : receipts'[i] \in 1..Len(approvals)
  BY <1>2, <1>3, <1>4 DEF Inv, TypeOK
<1>6. Receipted' = Receipted \cup {a}
  BY <1>3, <1>4 DEF Receipted
<1>7. SingleReceipts'
  BY <1>2, <1>3, <1>4 DEF SingleReceipts, Receipted, Inv, InOnePlace
<1>8. InOnePlace'
  BY <1>1, <1>6, <1>7, Kept DEF Inv, InOnePlace
<1>9. (grants \cup Receipted \cup Called \cup Asked)'
         \subseteq grants \cup Receipted \cup Called \cup Asked
  BY <1>1, <1>6, Kept
<1> QED BY <1>1, <1>3, <1>5, <1>8, <1>9, Kept, Moved

LEMMA ProposeStep ==
    ASSUME Inv, NEW c \in Clients, NEW requiresApproval \in BOOLEAN, Propose(c, requiresApproval)
    PROVE  Inv'
<1> DEFINE new == [client |-> c, base |-> history, requiresApproval |-> requiresApproval,
                   appliedOn |-> <<>>]
           n == Len(proposals)
<1>1. new \in Proposal /\ new.appliedOn = <<>>
  BY EmptySeq DEF Proposal, Inv, TypeOK
<1>2. /\ UNCHANGED <<history, log, approvals, grants, receipts, queue, dialogs>>
      /\ proposals' = Append(proposals, new) /\ pending' = pending \cup {n + 1}
  BY DEF Propose
<1> HIDE DEF new
<1>3. /\ proposals' \in Seq(Proposal) /\ Len(proposals') = n + 1 /\ n \in Nat
      /\ \A i \in 1..n : proposals'[i] = proposals[i]
      /\ proposals'[n + 1] = new
  BY <1>1, <1>2, AppendElements DEF Inv, TypeOK
<1> HIDE DEF n
<1>4. TypeOK'
  <2>1. 1..n \subseteq 1..Len(proposals') /\ n + 1 \in 1..Len(proposals')
    BY <1>3
  <2>2. pending' \subseteq 1..Len(proposals')
    BY <1>2, <2>1 DEF Inv, TypeOK, n
  <2> QED BY <1>2, <1>3, <2>2 DEF Inv, TypeOK
<1>5. InOnePlace' /\ UnspentWhileHeld' /\ SpentAsApproved'
  <2>1. Receipted' = Receipted /\ Called' = Called /\ Asked' = Asked
    BY <1>2 DEF Receipted, Called, Asked, Calls
  <2>2. SingleReceipts' /\ SingleCalls' /\ SingleDialogs'
    BY <1>2 DEF Inv, InOnePlace, SingleReceipts, SingleCalls, SingleDialogs
  <2>3. SpentAsApproved'
    BY <1>2 DEF Inv, SpentAsApproved
  <2> QED BY <1>2, <2>1, <2>2, <2>3 DEF Inv, InOnePlace, UnspentWhileHeld
<1>6. Waiting'
  <2>1. Grown
    BY <1>2, <1>3, LenProperties DEF Grown, Inv, TypeOK, n
  <2>2. \A op \in Calls' : AdmittedCall(op)'
    BY <1>2, <2>1, StaysAdmitted DEF Inv, Waiting, Calls
  <2> QED BY <1>2, <2>2 DEF Inv, Waiting
<1>7. AppliedAsValidated'
  <2>1. \A p \in pending' : proposals'[p].appliedOn = <<>>
    BY <1>1, <1>2, <1>3 DEF Inv, TypeOK, AppliedAsValidated, n
  <2>2. Len(new.appliedOn) = 0
    BY <1>1, EmptySeq
  <2>3. ASSUME NEW p \in 1..Len(proposals')
        PROVE  /\ Len(proposals'[p].appliedOn) <= 1
               /\ \A i \in 1..Len(proposals'[p].appliedOn) :
                     proposals'[p].appliedOn[i] = proposals'[p].base
    <3>1. CASE p = n + 1
      BY <1>3, <2>2, <3>1
    <3>2. CASE p \in 1..n
      BY <1>3, <3>2 DEF Inv, AppliedAsValidated, n
    <3> QED BY <1>3, <2>3, <3>1, <3>2
  <2> QED BY <2>1, <2>3 DEF AppliedAsValidated
<1> QED BY <1>4, <1>5, <1>6, <1>7 DEF Inv

LEMMA ProposalExpiresStep ==
    ASSUME Inv, NEW p, ProposalExpires(p)
    PROVE  Inv'
<1>1. pending' \subseteq pending
      /\ UNCHANGED <<history, log, proposals, approvals, grants, receipts, queue, dialogs>>
  BY DEF ProposalExpires
<1>2. InOnePlace'
  BY <1>1, Kept DEF Inv, InOnePlace
<1> QED BY <1>1, <1>2, Kept, Moved DEF Inv, Waiting

\* A receipt is taken; a call that carries its approval is admitted, or none.
LEMMA ReceiptToQueue ==
    ASSUME Inv, NEW a, TakeReceipt(a),
           UNCHANGED <<history, log, proposals, pending, approvals, grants, dialogs>>,
           NEW op,
           UNCHANGED queue \/
              (Enqueue(op) /\ op \in Call /\ Uses(op) = a /\ AdmittedCall(op))
    PROVE  Inv'
<1>1. /\ a \in Receipted /\ a \in 1..Len(approvals) /\ a \in Nat \ {0}
      /\ receipts' \in Seq(Nat) /\ Receipted' = Receipted \ {a} /\ SingleReceipts'
      /\ \A j \in 1..Len(receipts') : receipts'[j] \in 1..Len(approvals)
  BY Taken DEF Inv, InOnePlace
<1>2. CASE UNCHANGED queue
  <2>1. InOnePlace'
    BY <1>1, <1>2, Kept DEF Inv, InOnePlace
  <2> QED BY <1>1, <1>2, <2>1, Kept, Moved DEF Inv, Waiting
<1>3. CASE Enqueue(op) /\ op \in Call /\ Uses(op) = a /\ AdmittedCall(op)
  <2>1. a \notin Called
    BY <1>1 DEF Inv, InOnePlace
  <2>2. /\ queue' \in Seq(Call) /\ Calls' = Calls \cup {op}
        /\ Called' = Called \cup {a} /\ SingleCalls'
    BY <1>1, <1>3, <2>1, Enqueued DEF Inv, InOnePlace, None
  <2>3. InOnePlace'
    BY <1>1, <2>2, Kept DEF Inv, InOnePlace
  <2>4. (grants \cup Receipted \cup Called \cup Asked)'
           \subseteq grants \cup Receipted \cup Called \cup Asked
    BY <1>1, <2>2, Kept
  <2> QED BY <1>1, <1>3, <2>2, <2>3, <2>4, Kept, Moved
<1> QED BY <1>2, <1>3

LEMMA CommitProposalStep ==
    ASSUME Inv, NEW c \in Clients, NEW p, CommitProposal(c, p)
    PROVE  Inv'
<1>1. /\ p \in 1..Len(proposals) /\ p \in Nat
      /\ UNCHANGED <<history, log, proposals, pending, approvals, grants, dialogs>>
  BY LenProperties DEF CommitProposal, Inv, TypeOK
<1>2. CASE proposals[p].requiresApproval
  <2>1. PICK a : /\ TakeReceipt(a)
                 /\ IF Admitted(a, c, "commit-destructive")
                    THEN Enqueue([kind |-> "commit", proposal |-> p, approval |-> a])
                    ELSE UNCHANGED queue
    BY <1>2 DEF CommitProposal
  <2> DEFINE op == [kind |-> "commit", proposal |-> p, approval |-> a]
  <2>2. a \in 1..Len(approvals) /\ a \in Nat \ {0}
    BY <2>1, Taken DEF Inv, InOnePlace
  <2>3. op \in Call /\ Uses(op) = a
    BY <1>1, <2>2 DEF Call, Uses
  <2>4. Admitted(a, c, "commit-destructive") => AdmittedCall(op)
    BY <1>1, <2>2 DEF Admitted, Matches, AdmittedCall
  <2> HIDE DEF op
  <2>5. UNCHANGED queue \/ (Enqueue(op) /\ op \in Call /\ Uses(op) = a /\ AdmittedCall(op))
    BY <2>1, <2>3, <2>4 DEF op
  <2> QED BY <1>1, <2>1, <2>5, ReceiptToQueue
<1>3. CASE ~proposals[p].requiresApproval
  <2> DEFINE op == [kind |-> "commit", proposal |-> p, approval |-> None]
  <2>1. Enqueue(op) /\ UNCHANGED receipts
    BY <1>3 DEF CommitProposal
  <2>2. op \in Call /\ Uses(op) = None /\ AdmittedCall(op)
    BY <1>1 DEF Call, Uses, AdmittedCall, None
  <2> HIDE DEF op
  <2>3. /\ queue' \in Seq(Call) /\ Calls' = Calls \cup {op} /\ Called' = Called /\ SingleCalls'
    BY <2>1, <2>2, Enqueued DEF Inv, InOnePlace, Called
  <2>4. InOnePlace'
    BY <1>1, <2>1, <2>3, Kept DEF Inv, InOnePlace
  <2>5. (grants \cup Receipted \cup Called \cup Asked)'
           \subseteq grants \cup Receipted \cup Called \cup Asked
    BY <1>1, <2>1, <2>3, Kept
  <2> QED BY <1>1, <2>1, <2>2, <2>3, <2>4, <2>5, Kept, Moved
<1> QED BY <1>2, <1>3

LEMMA UndoAgentTransactionStep ==
    ASSUME Inv, NEW c \in Clients, NEW t \in DOMAIN log, UndoAgentTransaction(c, t)
    PROVE  Inv'
<1>1. PICK a : /\ TakeReceipt(a)
               /\ IF Admitted(a, c, "undo") /\ IsCommitOf(t, c)
                  THEN Enqueue([kind |-> "undo", client |-> c, tx |-> t,
                                rev |-> history, approval |-> a])
                  ELSE UNCHANGED queue
  BY DEF UndoAgentTransaction
<1> DEFINE op == [kind |-> "undo", client |-> c, tx |-> t, rev |-> history, approval |-> a]
<1>2. a \in 1..Len(approvals) /\ a \in Nat \ {0}
  BY <1>1, Taken DEF Inv, InOnePlace
<1>3. t \in 1..Len(log) /\ t \in Nat
  BY LenProperties DEF Inv, TypeOK
<1>4. op \in Call /\ Uses(op) = a
  BY <1>2, <1>3 DEF Call, Uses, Inv, TypeOK
<1>5. Admitted(a, c, "undo") /\ IsCommitOf(t, c) => AdmittedCall(op)
  BY <1>2, <1>3 DEF Admitted, AdmittedCall
<1> HIDE DEF op
<1>6. UNCHANGED queue \/ (Enqueue(op) /\ op \in Call /\ Uses(op) = a /\ AdmittedCall(op))
  BY <1>1, <1>4, <1>5 DEF op
<1>7. UNCHANGED <<history, log, proposals, pending, approvals, grants, dialogs>>
  BY DEF UndoAgentTransaction
<1> QED BY <1>1, <1>6, <1>7, ReceiptToQueue

LEMMA RequestFileStep ==
    ASSUME Inv, NEW c \in Clients, NEW action \in {"import", "export"}, RequestFile(c, action)
    PROVE  Inv'
<1>1. PICK a : /\ TakeReceipt(a)
               /\ dialogs' = IF Admitted(a, c, action)
                             THEN dialogs \cup {[action |-> action, client |-> c, approval |-> a,
                                                 rev |-> approvals[a].rev]}
                             ELSE dialogs
  BY DEF RequestFile
<1> DEFINE new == [action |-> action, client |-> c, approval |-> a, rev |-> approvals[a].rev]
<1>2. /\ a \in Receipted /\ a \in 1..Len(approvals) /\ a \in Nat \ {0}
      /\ receipts' \in Seq(Nat) /\ Receipted' = Receipted \ {a} /\ SingleReceipts'
      /\ \A j \in 1..Len(receipts') : receipts'[j] \in 1..Len(approvals)
  BY <1>1, Taken DEF Inv, InOnePlace
<1>3. UNCHANGED <<history, log, proposals, pending, approvals, grants, queue>>
  BY DEF RequestFile
<1>4. new \in Dialog /\ new.approval = a /\ new.rev = approvals[a].rev
  <2>1. approvals[a] \in Approval
    BY <1>2, ElementOfSeq DEF Inv, TypeOK
  <2>2. approvals[a].rev \in Revision
    BY <2>1 DEF Approval
  <2> QED BY <1>2, <2>2 DEF Dialog
<1> HIDE DEF new
<1>5. CASE dialogs' = dialogs
  <2>1. InOnePlace'
    BY <1>2, <1>3, <1>5, Kept DEF Inv, InOnePlace
  <2> QED BY <1>2, <1>3, <1>5, <2>1, Kept, Moved DEF Inv, Waiting
<1>6. CASE dialogs' = dialogs \cup {new}
  <2>1. a \notin Asked
    BY <1>2 DEF Inv, InOnePlace
  <2>2. Asked' = Asked \cup {a} /\ SingleDialogs'
    BY <1>4, <1>6, <2>1 DEF Asked, SingleDialogs, Inv, InOnePlace
  <2>3. InOnePlace'
    BY <1>2, <1>3, <2>2, Kept DEF Inv, InOnePlace
  <2>4. (grants \cup Receipted \cup Called \cup Asked)'
           \subseteq grants \cup Receipted \cup Called \cup Asked
    BY <1>2, <1>3, <2>2, Kept
  <2>5. /\ dialogs' \subseteq Dialog
        /\ \A d \in dialogs' : d.approval \in 1..Len(approvals)
                                 /\ d.rev = approvals[d.approval].rev
    BY <1>2, <1>4, <1>6 DEF Inv, TypeOK, Waiting
  <2> QED BY <1>2, <1>3, <2>3, <2>4, <2>5, Kept, Moved
<1> QED BY <1>1, <1>5, <1>6 DEF new

LEMMA FileCancelledStep ==
    ASSUME Inv, NEW d, FileCancelled(d)
    PROVE  Inv'
<1>1. dialogs' \subseteq dialogs
      /\ UNCHANGED <<history, log, proposals, pending, approvals, grants, receipts, queue>>
  BY DEF FileCancelled
<1>2. InOnePlace'
  BY <1>1, Kept DEF Inv, InOnePlace
<1>3. (grants \cup Receipted \cup Called \cup Asked)'
         \subseteq grants \cup Receipted \cup Called \cup Asked
  BY <1>1, Kept
<1> QED BY <1>1, <1>2, <1>3, Kept, Moved

LEMMA ImportChosenStep ==
    ASSUME Inv, NEW d, ImportChosen(d)
    PROVE  Inv'
<1> DEFINE op == [kind |-> "import", client |-> d.client, rev |-> d.rev, approval |-> d.approval]
           a == d.approval
<1>1. /\ d \in dialogs /\ dialogs' = dialogs \ {d} /\ Enqueue(op)
      /\ UNCHANGED <<history, log, proposals, pending, approvals, grants, receipts>>
  BY DEF ImportChosen
<1>2. /\ d \in Dialog /\ a \in 1..Len(approvals) /\ a \in Nat \ {0}
      /\ d.rev = approvals[a].rev /\ d.rev \in Revision /\ d.client \in Clients
  <2>1. d \in Dialog /\ a \in 1..Len(approvals) /\ d.rev = approvals[a].rev
    BY <1>1 DEF Inv, TypeOK, Waiting
  <2> QED BY <2>1, LenProperties DEF Dialog, Inv, TypeOK
<1>3. op \in Call /\ Uses(op) = a /\ AdmittedCall(op)
  BY <1>2 DEF Call, Uses, AdmittedCall
<1> HIDE DEF op
<1>4. a \in Asked /\ a \notin Called
  BY <1>1 DEF Asked, Inv, InOnePlace
<1>5. /\ queue' \in Seq(Call) /\ Calls' = Calls \cup {op}
      /\ Called' = Called \cup {a} /\ SingleCalls'
  BY <1>1, <1>2, <1>3, <1>4, Enqueued DEF Inv, InOnePlace, None
<1>6. Asked' = Asked \ {a}
  BY <1>1 DEF Asked, SingleDialogs, Inv, InOnePlace
<1> HIDE DEF a
<1>7. InOnePlace'
  BY <1>1, <1>4, <1>5, <1>6, Kept DEF Inv, InOnePlace
<1>8. (grants \cup Receipted \cup Called \cup Asked)'
         \subseteq grants \cup Receipted \cup Called \cup Asked
  BY <1>1, <1>4, <1>5, <1>6, Kept
<1> QED BY <1>1, <1>3, <1>5, <1>7, <1>8, Kept, Moved

LEMMA ExportChosenStep ==
    ASSUME Inv, NEW d, ExportChosen(d)
    PROVE  Inv'
<1> DEFINE a == d.approval
<1>1. /\ d \in dialogs /\ dialogs' = dialogs \ {d}
      /\ UNCHANGED <<history, log, proposals, pending, grants, receipts, queue>>
  BY DEF ExportChosen
<1>2. CASE UNCHANGED approvals
  <2>1. InOnePlace'
    BY <1>1, Kept DEF Inv, InOnePlace
  <2>2. (grants \cup Receipted \cup Called \cup Asked)'
           \subseteq grants \cup Receipted \cup Called \cup Asked
    BY <1>1, Kept
  <2> QED BY <1>1, <1>2, <2>1, <2>2, Kept, Moved
<1>3. CASE d.rev = history /\ Spend(a)
  <2>1. a \in 1..Len(approvals) /\ a \in Asked /\ approvals[a].rev = history
    BY <1>1, <1>3 DEF Inv, TypeOK, Waiting, Asked
  <2>2. approvals[a].spentOn = <<>>
    BY <2>1 DEF Inv, UnspentWhileHeld
  <2>3. /\ approvals' \in Seq(Approval) /\ Len(approvals') = Len(approvals)
        /\ \A b \in 1..Len(approvals) :
              /\ approvals'[b].action = approvals[b].action
              /\ approvals'[b].rev = approvals[b].rev
              /\ b # a => approvals'[b] = approvals[b]
    BY <1>3, <2>1, Spent DEF Inv
  <2>4. SpentAsApproved'
    BY <1>3, <2>1, <2>2, SpentOnce DEF Inv
  <2>5. Asked' = Asked \ {a} /\ SingleDialogs'
    BY <1>1 DEF Asked, SingleDialogs, Inv, InOnePlace
  <2> HIDE DEF a
  <2>6. InOnePlace'
    BY <1>1, <2>5, Kept DEF Inv, InOnePlace
  <2>7. Grown
    BY <1>1, <2>3, LenProperties DEF Grown, Inv, TypeOK
  <2>8. Waiting'
    <3>1. \A op \in Calls' : AdmittedCall(op)'
      BY <1>1, <2>7, Kept, StaysAdmitted DEF Inv, Waiting
    <3>2. \A e \in dialogs' : e.rev = approvals'[e.approval].rev
      BY <1>1, <2>3 DEF Inv, Waiting, TypeOK
    <3> QED BY <3>1, <3>2 DEF Waiting
  <2>9. grants \cup Receipted \cup Called \cup Asked \subseteq 1..Len(approvals)
    <3>1. \A op \in Calls : Uses(op) \in 1..Len(approvals) \cup {None}
      BY DEF Inv, Waiting, AdmittedCall, Uses
    <3> QED BY <3>1 DEF Inv, TypeOK, Receipted, Called, Asked
  <2>10. UnspentWhileHeld'
    <3> SUFFICES ASSUME NEW b \in (grants \cup Receipted \cup Called \cup Asked)'
                 PROVE  approvals'[b].spentOn = <<>>
      BY DEF UnspentWhileHeld
    <3>1. b \in grants \cup Receipted \cup Called \cup Asked /\ b # a
      BY <1>1, <2>1, <2>5, Kept DEF Inv, InOnePlace
    <3> QED BY <2>3, <2>9, <3>1 DEF Inv, UnspentWhileHeld
  <2>11. TypeOK' /\ AppliedAsValidated'
    BY <1>1, <2>3 DEF Inv, TypeOK, AppliedAsValidated
  <2> QED BY <2>4, <2>6, <2>8, <2>10, <2>11 DEF Inv
<1> QED BY <1>2, <1>3 DEF ExportChosen, Exported

LEMMA StutterStep ==
    ASSUME Inv, UNCHANGED vars
    PROVE  Inv'
<1>1. UNCHANGED <<history, log, proposals, pending, approvals, grants, receipts, queue, dialogs>>
  BY DEF vars
<1>2. InOnePlace'
  BY <1>1, Kept DEF Inv, InOnePlace
<1> QED BY <1>1, <1>2, Kept, Moved DEF Inv, Waiting

LEMMA Step ==
    ASSUME Inv, [Next]_vars
    PROVE  Inv'
<1>1. ASSUME NEW c \in Clients, NEW p \in DOMAIN proposals, CommitProposal(c, p)
      PROVE  Inv'
  BY <1>1, CommitProposalStep
<1>2. ASSUME NEW c \in Clients,
             \/ \E requiresApproval \in BOOLEAN : Propose(c, requiresApproval)
             \/ \E t \in DOMAIN log : UndoAgentTransaction(c, t)
             \/ \E action \in {"import", "export"} : RequestFile(c, action)
      PROVE  Inv'
  BY <1>2, ProposeStep, UndoAgentTransactionStep, RequestFileStep
<1>3. ASSUME NEW a \in DOMAIN approvals,
             GrantExpires(a) \/ ReceiptExpires(a) \/ \E c \in Clients : ConsumeApproval(c, a)
      PROVE  Inv'
  BY <1>3, GrantExpiresStep, ReceiptExpiresStep, ConsumeApprovalStep
<1>4. ASSUME NEW d \in dialogs, FileCancelled(d) \/ ImportChosen(d) \/ ExportChosen(d)
      PROVE  Inv'
  BY <1>4, FileCancelledStep, ImportChosenStep, ExportChosenStep
<1> QED BY <1>1, <1>2, <1>3, <1>4, HumanCallsStep, RunHumanEditStep, RunHumanUndoStep,
           RunCommitStep, RunUndoStep, RunImportStep, IssueApprovalStep, ProposalExpiresStep,
           StutterStep
        DEF Next

LEMMA Start == Init => Inv
<1> SUFFICES ASSUME Init
             PROVE  Inv
  OBVIOUS
<1>1. TypeOK
  BY EmptySeq DEF Init, TypeOK, Revision
<1>2. Calls = {} /\ Receipted = {} /\ Called = {} /\ Asked = {} /\ grants = {} /\ dialogs = {}
  <2>1. \A i : i \notin 1..Len(queue) /\ i \notin 1..Len(receipts)
    BY EmptySeq DEF Init
  <2> QED BY <2>1 DEF Init, Calls, Receipted, Called, Asked
<1>3. SingleReceipts /\ SingleCalls /\ SingleDialogs
  BY EmptySeq DEF Init, SingleReceipts, SingleCalls, SingleDialogs
<1>4. InOnePlace /\ Waiting /\ UnspentWhileHeld
  BY <1>2, <1>3 DEF InOnePlace, Waiting, UnspentWhileHeld
<1>5. SpentAsApproved /\ AppliedAsValidated
  BY EmptySeq DEF Init, SpentAsApproved, AppliedAsValidated
<1> QED BY <1>1, <1>4, <1>5 DEF Inv

LEMMA Safety == Spec => []Inv
<1>1. Inv /\ [Next]_vars => Inv'
  BY Step
<1> QED BY <1>1, Start, PTL DEF Spec

LEMMA Domains ==
    ASSUME Inv
    PROVE  /\ DOMAIN approvals = 1..Len(approvals) /\ DOMAIN proposals = 1..Len(proposals)
           /\ \A a \in 1..Len(approvals) :
                 /\ approvals[a].spentOn \in Seq(Revision)
                 /\ DOMAIN approvals[a].spentOn = 1..Len(approvals[a].spentOn)
           /\ \A p \in 1..Len(proposals) :
                 DOMAIN proposals[p].appliedOn = 1..Len(proposals[p].appliedOn)
<1>1. DOMAIN approvals = 1..Len(approvals) /\ DOMAIN proposals = 1..Len(proposals)
  BY LenProperties DEF Inv, TypeOK
<1>2. ASSUME NEW a \in 1..Len(approvals)
      PROVE  /\ approvals[a].spentOn \in Seq(Revision)
             /\ DOMAIN approvals[a].spentOn = 1..Len(approvals[a].spentOn)
  <2>1. approvals[a] \in Approval
    BY ElementOfSeq DEF Inv, TypeOK
  <2>2. approvals[a].spentOn \in Seq(Revision)
    BY <2>1 DEF Approval
  <2> QED BY <2>2, LenProperties
<1>3. ASSUME NEW p \in 1..Len(proposals)
      PROVE  DOMAIN proposals[p].appliedOn = 1..Len(proposals[p].appliedOn)
  <2>1. proposals[p] \in Proposal
    BY ElementOfSeq DEF Inv, TypeOK
  <2>2. proposals[p].appliedOn \in Seq(Revision)
    BY <2>1 DEF Proposal
  <2> QED BY <2>2, LenProperties
<1> QED BY <1>1, <1>2, <1>3

-----------------------------------------------------------------------------
(* The theorems.                                                           *)

\* Every reachable state of the bridge and its queue is well typed: no call, receipt
\* or dialog refers to an approval or a proposal that was never made.
THEOREM Typing == Spec => []TypeOK
BY Safety, PTL DEF Inv

\* An approval lets its holder do one thing.
THEOREM SingleUse == Spec => []ApprovalIsSpentOnce
<1>1. Inv => ApprovalIsSpentOnce
  BY Domains DEF Inv, SpentAsApproved, ApprovalIsSpentOnce
<1> QED BY <1>1, Safety, PTL

\* What is undone, imported or exported is the revision the person approved.
THEOREM ApprovedContents == Spec => []ApprovedContentsAreUsed
<1>1. Inv => ApprovedContentsAreUsed
  BY Domains DEF Inv, SpentAsApproved, ApprovedContentsAreUsed
<1> QED BY <1>1, Safety, PTL

\* A batch takes effect once, on the contents it was validated against.
THEOREM OneApplication == Spec => []ProposalAppliesOnce
<1>1. Inv => ProposalAppliesOnce
  BY Domains DEF Inv, AppliedAsValidated, ProposalAppliesOnce
<1> QED BY <1>1, Safety, PTL

\* Undoing for an agent takes back that agent's own latest batch.
THEOREM OwnWork == Spec => AgentUndoesItsOwnWork
<1>1. ASSUME Inv, [Next]_vars
      PROVE  [history' # history /\ IsNext("undo") =>
                 /\ history' = Front(history)
                 /\ IsCommitOf(history[Len(history)], Head(queue).client)]_vars
  <2> SUFFICES ASSUME Next, history' # history, IsNext("undo")
               PROVE  /\ history' = Front(history)
                      /\ IsCommitOf(history[Len(history)], Head(queue).client)
    BY <1>1
  <2>1. RunUndo
    BY DEF Next, HumanCalls, RunHumanEdit, RunHumanUndo, RunCommit, RunImport, IsNext,
       IssueApproval, GrantExpires, ReceiptExpires, ConsumeApproval, Propose, CommitProposal,
       UndoAgentTransaction, RequestFile, ProposalExpires, FileCancelled, ImportChosen,
       ExportChosen
  <2>2. AdmittedCall(Head(queue)) /\ Head(queue).kind = "undo"
    BY <1>1, HeadOfQueue
  <2>3. Undoable(Head(queue)) /\ Undo
    BY <2>1 DEF RunUndo
  <2> QED BY <2>2, <2>3 DEF AdmittedCall, Undoable, Undo
<1> QED BY <1>1, Safety, PTL DEF Spec, AgentUndoesItsOwnWork
=============================================================================
