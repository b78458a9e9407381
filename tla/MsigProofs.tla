----------------------------- MODULE MsigProofs -----------------------------
(***************************************************************************)
(* The multi-signature contract implements MsigConsent, for any accounts,  *)
(* permission levels, transactions and lists of requested levels that name *)
(* no level twice.                                                         *)
(***************************************************************************)
EXTENDS Msig, SequenceTheorems, TLAPS

----------------------------------------------------------------------------
(* Lists of approvals *)

\* What erase does to a list.
LEMMA RemoveAtProperties ==
    ASSUME NEW S, NEW s \in Seq(S), NEW i \in DOMAIN s
    PROVE  /\ RemoveAt(s, i) \in Seq(S)
           /\ Len(RemoveAt(s, i)) = Len(s) - 1
           /\ \A j \in 1 .. Len(s) - 1 :
                  RemoveAt(s, i)[j] = IF j < i THEN s[j] ELSE s[j + 1]
<1> DEFINE n == Len(s)
           front == SubSeq(s, 1, i - 1)
           back == SubSeq(s, i + 1, n)
<1>1. n \in Nat /\ i \in 1 .. n /\ \A j \in 1 .. n : s[j] \in S
  OBVIOUS
<1>2. /\ front \in Seq(S) /\ Len(front) = i - 1
      /\ \A j \in 1 .. i - 1 : front[j] = s[j]
  <2>1. \A j \in 1 .. i - 1 : s[j] \in S
    BY <1>1
  <2>2. /\ front \in Seq(S)
        /\ Len(front) = IF 1 <= i - 1 THEN i - 1 - 1 + 1 ELSE 0
        /\ \A j \in 1 .. i - 1 - 1 + 1 : front[j] = s[1 + j - 1]
    BY <1>1, <2>1, SubSeqProperties
  <2> QED
    BY <1>1, <2>2
<1>3. /\ back \in Seq(S) /\ Len(back) = n - i
      /\ \A j \in 1 .. n - i : back[j] = s[i + j]
  <2>1. \A j \in i + 1 .. n : s[j] \in S
    BY <1>1
  <2>2. /\ back \in Seq(S)
        /\ Len(back) = IF i + 1 <= n THEN n - (i + 1) + 1 ELSE 0
        /\ \A j \in 1 .. n - (i + 1) + 1 : back[j] = s[i + 1 + j - 1]
    BY <1>1, <2>1, SubSeqProperties
  <2> QED
    BY <1>1, <2>2
<1> HIDE DEF front, back
<1>4. /\ front \o back \in Seq(S) /\ Len(front \o back) = n - 1
      /\ \A j \in 1 .. n - 1 :
             (front \o back)[j] = IF j <= i - 1 THEN front[j] ELSE back[j - (i - 1)]
  <2>1. /\ front \o back \in Seq(S)
        /\ Len(front \o back) = Len(front) + Len(back)
        /\ \A j \in 1 .. Len(front) + Len(back) :
               (front \o back)[j] = IF j <= Len(front) THEN front[j] ELSE back[j - Len(front)]
    BY <1>2, <1>3, ConcatProperties
  <2>2. Len(front) + Len(back) = n - 1
    BY <1>1, <1>2, <1>3
  <2> QED
    BY <1>2, <2>1, <2>2
<1>5. \A j \in 1 .. n - 1 : (front \o back)[j] = IF j < i THEN s[j] ELSE s[j + 1]
  <2> TAKE j \in 1 .. n - 1
  <2>1. CASE j < i
    BY <1>1, <1>2, <1>4, <2>1
  <2>2. CASE ~(j < i)
    <3>1. j - (i - 1) \in 1 .. n - i /\ i + (j - (i - 1)) = j + 1
      BY <1>1, <2>2
    <3>2. (front \o back)[j] = back[j - (i - 1)]
      BY <1>1, <1>4, <2>2
    <3>3. back[j - (i - 1)] = s[i + (j - (i - 1))]
      BY <1>3, <3>1
    <3> QED
      BY <2>2, <3>1, <3>2, <3>3
  <2> QED
    BY <2>1, <2>2
<1> QED
  BY <1>4, <1>5 DEF RemoveAt, front, back

\* Erasing a level from a list that names it once leaves the other levels.
LEMMA ErasedOnce ==
    ASSUME NEW S, NEW s \in Seq(S), IsInjective(s), NEW i \in DOMAIN s
    PROVE  /\ IsInjective(RemoveAt(s, i))
           /\ ToSet(RemoveAt(s, i)) = ToSet(s) \ {s[i]}
<1> DEFINE n == Len(s)
           r == RemoveAt(s, i)
           from(j) == IF j < i THEN j ELSE j + 1
<1>1. n \in Nat /\ i \in 1 .. n /\ DOMAIN s = 1 .. n
  OBVIOUS
<1>2. DOMAIN r = 1 .. n - 1 /\ \A j \in 1 .. n - 1 : r[j] = s[from(j)]
  <2>1. r \in Seq(S) /\ Len(r) = n - 1
    BY RemoveAtProperties
  <2>2. \A j \in 1 .. n - 1 : r[j] = IF j < i THEN s[j] ELSE s[j + 1]
    BY RemoveAtProperties
  <2> QED
    BY <2>1, <2>2
<1> HIDE DEF r
<1>3. \A j \in 1 .. n - 1 : from(j) \in (1 .. n) \ {i}
  BY <1>1
<1>4. \A j, k \in 1 .. n - 1 : from(j) = from(k) => j = k
  BY <1>1
<1>5. \A m \in (1 .. n) \ {i} : \E j \in 1 .. n - 1 : from(j) = m
  <2> TAKE m \in (1 .. n) \ {i}
  <2>1. CASE m < i
    BY <1>1, <2>1
  <2>2. CASE ~(m < i)
    <3>1. m - 1 \in 1 .. n - 1 /\ from(m - 1) = m
      BY <1>1, <2>2
    <3> QED
      BY <3>1
  <2> QED
    BY <2>1, <2>2
<1> HIDE DEF from
<1>6. IsInjective(r)
  BY <1>1, <1>2, <1>3, <1>4 DEF IsInjective
<1>7. ToSet(r) = ToSet(s) \ {s[i]}
  <2>1. \A x \in ToSet(r) : x \in ToSet(s) /\ x # s[i]
    BY <1>1, <1>2, <1>3 DEF ToSet, IsInjective
  <2>2. \A x \in ToSet(s) : x # s[i] => x \in ToSet(r)
    <3> SUFFICES ASSUME NEW m \in 1 .. n, s[m] # s[i] PROVE s[m] \in ToSet(r)
      BY <1>1 DEF ToSet
    <3>1. PICK j \in 1 .. n - 1 : from(j) = m
      BY <1>5
    <3> QED
      BY <1>2, <3>1 DEF ToSet
  <2> QED
    BY <2>1, <2>2
<1> QED
  BY <1>6, <1>7 DEF r

\* Appending a level a list does not name.
LEMMA AppendedOnce ==
    ASSUME NEW S, NEW s \in Seq(S), IsInjective(s), NEW x \in S, x \notin ToSet(s)
    PROVE  IsInjective(Append(s, x)) /\ ToSet(Append(s, x)) = ToSet(s) \cup {x}
<1> DEFINE n == Len(s)
           a == Append(s, x)
<1>1. n \in Nat /\ DOMAIN s = 1 .. n /\ DOMAIN a = 1 .. n + 1
  OBVIOUS
<1>2. a[n + 1] = x /\ \A j \in 1 .. n : a[j] = s[j]
  OBVIOUS
<1> HIDE DEF a, n
<1>3. \A j \in 1 .. n + 1 : j \in 1 .. n \/ j = n + 1
  BY <1>1
<1>4. n + 1 \notin 1 .. n /\ n + 1 \in 1 .. n + 1 /\ 1 .. n \subseteq 1 .. n + 1
  BY <1>1
<1>5. IsInjective(a)
  BY <1>1, <1>2, <1>3, <1>4 DEF IsInjective, ToSet
<1>6. ToSet(a) = ToSet(s) \cup {x}
  BY <1>1, <1>2, <1>3, <1>4 DEF ToSet
<1> QED
  BY <1>5, <1>6 DEF a

----------------------------------------------------------------------------
(* Tables *)

LEMMA PutTable ==
    ASSUME NEW K, NEW R, NEW f, IsTable(f, K, R), NEW k \in K, NEW v \in R
    PROVE  IsTable(Put(f, k, v), K, R)
BY DEF IsTable, Put

LEMMA WithoutTable ==
    ASSUME NEW K, NEW R, NEW f, IsTable(f, K, R), NEW k
    PROVE  IsTable(Without(f, k), K, R)
BY DEF IsTable, Without

LEMMA ChangeTable ==
    ASSUME NEW K, NEW R, NEW f, IsTable(f, K, R), NEW k, NEW v \in R
    PROVE  IsTable([f EXCEPT ![k] = v], K, R)
BY DEF IsTable

LEMMA RowType ==
    ASSUME NEW K, NEW R, NEW f, IsTable(f, K, R), NEW k \in DOMAIN f
    PROVE  k \in K /\ f[k] \in R
BY DEF IsTable

----------------------------------------------------------------------------
(* What an approval and its revocation do to the two tables *)

LEMMA ApproveNewRow ==
    ASSUME TypeOK, NEW k \in Keys, NEW level \in Levels, approve_new(k, level)
    PROVE  \E i \in DOMAIN approvals[k].requested :
               LET row == [requested |-> RemoveAt(approvals[k].requested, i),
                           provided |-> Append(approvals[k].provided,
                                               [level |-> level, time |-> now])]
               IN  /\ k \in DOMAIN approvals
                   /\ approvals[k].requested[i] = level
                   /\ row \in ApprovalsType
                   /\ approvals' = [approvals EXCEPT ![k] = row]
                   /\ old_approvals' = old_approvals
<1>1. PICK i \in DOMAIN approvals[k].requested :
          /\ FoundAt(approvals[k].requested, level, i)
          /\ approvals' = [approvals EXCEPT
                 ![k] = [requested |-> RemoveAt(@.requested, i),
                         provided |-> Append(@.provided, [level |-> level, time |-> now])]]
  BY DEF approve_new
<1>2. k \in DOMAIN approvals /\ approvals[k] \in ApprovalsType
  BY RowType DEF approve_new, TypeOK
<1>3. /\ approvals[k].requested \in Seq(Levels)
      /\ approvals[k].provided \in Seq(ApprovalType)
  BY <1>2 DEF ApprovalsType
<1>4. RemoveAt(approvals[k].requested, i) \in Seq(Levels)
  BY <1>3, RemoveAtProperties
<1>5. [level |-> level, time |-> now] \in ApprovalType
  BY DEF TypeOK, ApprovalType
<1>6. Append(approvals[k].provided, [level |-> level, time |-> now]) \in Seq(ApprovalType)
  BY <1>3, <1>5
<1> QED
  BY <1>1, <1>2, <1>4, <1>6 DEF FoundAt, approve_new, ApprovalsType

LEMMA ApproveOldRow ==
    ASSUME TypeOK, NEW k \in Keys, NEW level \in Levels, approve_old(k, level)
    PROVE  \E i \in DOMAIN old_approvals[k].requested :
               LET row == [requested |-> RemoveAt(old_approvals[k].requested, i),
                           provided |-> Append(old_approvals[k].provided, level)]
               IN  /\ k \notin DOMAIN approvals /\ k \in DOMAIN old_approvals
                   /\ old_approvals[k].requested[i] = level
                   /\ row \in OldApprovalsType
                   /\ old_approvals' = [old_approvals EXCEPT ![k] = row]
                   /\ approvals' = approvals
<1>1. PICK i \in DOMAIN old_approvals[k].requested :
          /\ FoundAt(old_approvals[k].requested, level, i)
          /\ old_approvals' = [old_approvals EXCEPT
                 ![k] = [requested |-> RemoveAt(@.requested, i),
                         provided |-> Append(@.provided, level)]]
  BY DEF approve_old
<1>2. k \in DOMAIN old_approvals /\ old_approvals[k] \in OldApprovalsType
  BY RowType DEF approve_old, TypeOK
<1>3. /\ old_approvals[k].requested \in Seq(Levels)
      /\ old_approvals[k].provided \in Seq(Levels)
  BY <1>2 DEF OldApprovalsType
<1>4. RemoveAt(old_approvals[k].requested, i) \in Seq(Levels)
  BY <1>3, RemoveAtProperties
<1>5. Append(old_approvals[k].provided, level) \in Seq(Levels)
  BY <1>3
<1> QED
  BY <1>1, <1>2, <1>4, <1>5 DEF FoundAt, approve_old, OldApprovalsType

LEMMA UnapproveNewRow ==
    ASSUME TypeOK, NEW k \in Keys, NEW level \in Levels, unapprove_new(k, level)
    PROVE  \E i \in DOMAIN approvals[k].provided :
               LET row == [requested |-> Append(approvals[k].requested, level),
                           provided |-> RemoveAt(approvals[k].provided, i)]
               IN  /\ k \in DOMAIN approvals
                   /\ approvals[k].provided[i].level = level
                   /\ row \in ApprovalsType
                   /\ approvals' = [approvals EXCEPT ![k] = row]
                   /\ old_approvals' = old_approvals
<1>1. PICK i \in DOMAIN approvals[k].provided :
          /\ FoundAt(LevelsOf(approvals[k].provided), level, i)
          /\ approvals' = [approvals EXCEPT
                 ![k] = [requested |-> Append(@.requested, level),
                         provided |-> RemoveAt(@.provided, i)]]
  BY DEF unapprove_new
<1>2. k \in DOMAIN approvals /\ approvals[k] \in ApprovalsType
  BY RowType DEF unapprove_new, TypeOK
<1>3. /\ approvals[k].requested \in Seq(Levels)
      /\ approvals[k].provided \in Seq(ApprovalType)
  BY <1>2 DEF ApprovalsType
<1>4. RemoveAt(approvals[k].provided, i) \in Seq(ApprovalType)
  BY <1>3, RemoveAtProperties
<1>5. Append(approvals[k].requested, level) \in Seq(Levels)
  BY <1>3
<1>6. approvals[k].provided[i].level = level
  BY <1>1 DEF FoundAt, LevelsOf
<1> QED
  BY <1>1, <1>2, <1>4, <1>5, <1>6 DEF unapprove_new, ApprovalsType

LEMMA UnapproveOldRow ==
    ASSUME TypeOK, NEW k \in Keys, NEW level \in Levels, unapprove_old(k, level)
    PROVE  \E i \in DOMAIN old_approvals[k].provided :
               LET row == [requested |-> Append(old_approvals[k].requested, level),
                           provided |-> RemoveAt(old_approvals[k].provided, i)]
               IN  /\ k \notin DOMAIN approvals /\ k \in DOMAIN old_approvals
                   /\ old_approvals[k].provided[i] = level
                   /\ row \in OldApprovalsType
                   /\ old_approvals' = [old_approvals EXCEPT ![k] = row]
                   /\ approvals' = approvals
<1>1. PICK i \in DOMAIN old_approvals[k].provided :
          /\ FoundAt(old_approvals[k].provided, level, i)
          /\ old_approvals' = [old_approvals EXCEPT
                 ![k] = [requested |-> Append(@.requested, level),
                         provided |-> RemoveAt(@.provided, i)]]
  BY DEF unapprove_old
<1>2. k \in DOMAIN old_approvals /\ old_approvals[k] \in OldApprovalsType
  BY RowType DEF unapprove_old, TypeOK
<1>3. /\ old_approvals[k].requested \in Seq(Levels)
      /\ old_approvals[k].provided \in Seq(Levels)
  BY <1>2 DEF OldApprovalsType
<1>4. RemoveAt(old_approvals[k].provided, i) \in Seq(Levels)
  BY <1>3, RemoveAtProperties
<1>5. Append(old_approvals[k].requested, level) \in Seq(Levels)
  BY <1>3
<1> QED
  BY <1>1, <1>2, <1>4, <1>5 DEF FoundAt, unapprove_old, OldApprovalsType

----------------------------------------------------------------------------
(* Types, and the agreement of the tables *)

Typed == TypeOK /\ TablesAgree /\ DOMAIN consent = DOMAIN proposals

LEMMA TypedInit == Init => Typed
<1> SUFFICES ASSUME Init PROVE Typed
  OBVIOUS
<1> DEFINE row(k) == [requested |-> OldProposals[k].requested,
                      provided |-> OldProposals[k].provided]
<1>1. \A k \in DOMAIN OldProposals :
          /\ k \in Keys
          /\ OldProposals[k].trx \in Transactions
          /\ row(k) \in OldApprovalsType
          /\ ToSet(OldProposals[k].provided) \subseteq Levels
  BY OldAssumption DEF OldApprovalsType, ToSet
<1> HIDE DEF row
<1>2. old_approvals = [k \in DOMAIN OldProposals |-> row(k)]
  BY DEF Init, row
<1>3. IsTable(old_approvals, Keys, OldApprovalsType)
  BY <1>1, <1>2 DEF IsTable
<1>4. IsTable(proposals, Keys, Transactions)
  BY <1>1 DEF Init, IsTable
<1>5. IsTable(consent, Keys, SUBSET Levels)
  BY <1>1 DEF Init, IsTable
<1>6. /\ IsTable(approvals, Keys, ApprovalsType) /\ IsTable(invals, Accounts, Nat)
      /\ IsTable(deferred, Keys, Transactions)
      /\ now \in Nat
  BY DEF Init, IsTable
<1>7. TablesAgree /\ DOMAIN consent = DOMAIN proposals
  BY <1>2 DEF Init, TablesAgree
<1> QED
  BY <1>3, <1>4, <1>5, <1>6, <1>7 DEF Typed, TypeOK

LEMMA TypedPropose ==
    ASSUME Typed, NEW k \in Keys, NEW requested \in Requests, NEW trx \in Transactions,
           propose(k, requested, trx)
    PROVE  Typed'
<1> DEFINE row == [requested |-> requested, provided |-> <<>>]
<1>1. row \in ApprovalsType
  BY ConstantsAssumption DEF ApprovalsType
<1> HIDE DEF row
<1>2. /\ proposals' = Put(proposals, k, trx) /\ approvals' = Put(approvals, k, row)
      /\ consent' = Put(consent, k, {}) /\ {} \in SUBSET Levels
  BY DEF propose, row
<1>3. IsTable(proposals', Keys, Transactions)
  BY <1>2, PutTable DEF Typed, TypeOK
<1>4. IsTable(approvals', Keys, ApprovalsType)
  BY <1>1, <1>2, PutTable DEF Typed, TypeOK
<1>5. IsTable(consent', Keys, SUBSET Levels)
  BY <1>2, PutTable DEF Typed, TypeOK
<1>6. TypeOK'
  BY <1>3, <1>4, <1>5 DEF propose, Typed, TypeOK
<1>7. TablesAgree' /\ DOMAIN consent' = DOMAIN proposals'
  BY <1>2 DEF propose, Typed, TablesAgree, Put
<1> QED
  BY <1>6, <1>7 DEF Typed

\* A row of one of the two tables of approvals changes.
LEMMA TypedRows ==
    ASSUME Typed, UNCHANGED <<proposals, invals, deferred, now>>,
           DOMAIN consent' = DOMAIN consent, IsTable(consent', Keys, SUBSET Levels),
           DOMAIN approvals' = DOMAIN approvals,
           IsTable(approvals', Keys, ApprovalsType),
           DOMAIN old_approvals' = DOMAIN old_approvals,
           IsTable(old_approvals', Keys, OldApprovalsType)
    PROVE  Typed'
BY DEF Typed, TypeOK, TablesAgree

LEMMA TypedApprove ==
    ASSUME Typed, NEW k \in Keys, NEW level \in Levels, NEW hash, approve(k, level, hash)
    PROVE  Typed'
<1>1. DOMAIN consent' = DOMAIN consent /\ IsTable(consent', Keys, SUBSET Levels)
  BY DEF approve, Typed, TypeOK, IsTable
<1>2. UNCHANGED <<proposals, invals, deferred, now>>
  BY DEF approve
<1>3. CASE approve_new(k, level)
  <2>1. PICK row \in ApprovalsType :
            approvals' = [approvals EXCEPT ![k] = row] /\ old_approvals' = old_approvals
    BY <1>3, ApproveNewRow DEF Typed
  <2>2. IsTable(approvals', Keys, ApprovalsType) /\ DOMAIN approvals' = DOMAIN approvals
    BY <2>1, ChangeTable DEF Typed, TypeOK
  <2> QED
    BY <1>1, <1>2, <2>1, <2>2, TypedRows DEF Typed, TypeOK
<1>4. CASE approve_old(k, level)
  <2>1. PICK row \in OldApprovalsType :
            old_approvals' = [old_approvals EXCEPT ![k] = row] /\ approvals' = approvals
    BY <1>4, ApproveOldRow DEF Typed
  <2>2. /\ IsTable(old_approvals', Keys, OldApprovalsType)
        /\ DOMAIN old_approvals' = DOMAIN old_approvals
    BY <2>1, ChangeTable DEF Typed, TypeOK
  <2> QED
    BY <1>1, <1>2, <2>1, <2>2, TypedRows DEF Typed, TypeOK
<1> QED
  BY <1>3, <1>4 DEF approve

LEMMA TypedUnapprove ==
    ASSUME Typed, NEW k \in Keys, NEW level \in Levels, unapprove(k, level)
    PROVE  Typed'
<1>1. DOMAIN consent' = DOMAIN consent /\ IsTable(consent', Keys, SUBSET Levels)
  BY DEF unapprove, Typed, TypeOK, IsTable
<1>2. UNCHANGED <<proposals, invals, deferred, now>>
  BY DEF unapprove
<1>3. CASE unapprove_new(k, level)
  <2>1. PICK row \in ApprovalsType :
            approvals' = [approvals EXCEPT ![k] = row] /\ old_approvals' = old_approvals
    BY <1>3, UnapproveNewRow DEF Typed
  <2>2. IsTable(approvals', Keys, ApprovalsType) /\ DOMAIN approvals' = DOMAIN approvals
    BY <2>1, ChangeTable DEF Typed, TypeOK
  <2> QED
    BY <1>1, <1>2, <2>1, <2>2, TypedRows DEF Typed, TypeOK
<1>4. CASE unapprove_old(k, level)
  <2>1. PICK row \in OldApprovalsType :
            old_approvals' = [old_approvals EXCEPT ![k] = row] /\ approvals' = approvals
    BY <1>4, UnapproveOldRow DEF Typed
  <2>2. /\ IsTable(old_approvals', Keys, OldApprovalsType)
        /\ DOMAIN old_approvals' = DOMAIN old_approvals
    BY <2>1, ChangeTable DEF Typed, TypeOK
  <2> QED
    BY <1>1, <1>2, <2>1, <2>2, TypedRows DEF Typed, TypeOK
<1> QED
  BY <1>3, <1>4 DEF unapprove

\* A proposal ends: its row, its consent and its approvals go together.
LEMMA Erased ==
    ASSUME Typed, NEW k \in DOMAIN proposals, erase_proposal(k)
    PROVE  /\ proposals' = Without(proposals, k)
           /\ approvals' = Without(approvals, k)
           /\ old_approvals' = Without(old_approvals, k)
<1>1. proposals' = Without(proposals, k)
  BY DEF erase_proposal
<1>2. \A f, R : IsTable(f, Keys, R) /\ k \notin DOMAIN f => Without(f, k) = f
  BY DEF IsTable, Without
<1>3. CASE k \in DOMAIN approvals
  <2>1. approvals' = Without(approvals, k) /\ old_approvals' = old_approvals
    BY <1>3 DEF erase_proposal
  <2>2. k \notin DOMAIN old_approvals
    BY <1>3 DEF Typed, TablesAgree
  <2>3. old_approvals = Without(old_approvals, k)
    BY <1>2, <2>2 DEF Typed, TypeOK
  <2> QED
    BY <1>1, <2>1, <2>3
<1>4. CASE k \notin DOMAIN approvals
  <2>1. old_approvals' = Without(old_approvals, k) /\ approvals' = approvals
    BY <1>4 DEF erase_proposal
  <2>2. approvals = Without(approvals, k)
    BY <1>2, <1>4 DEF Typed, TypeOK
  <2> QED
    BY <1>1, <2>1, <2>2
<1> QED
  BY <1>3, <1>4

LEMMA TypedErase ==
    ASSUME Typed, NEW k \in DOMAIN proposals, erase_proposal(k), consent' = Without(consent, k),
           UNCHANGED <<invals, now>>, IsTable(deferred', Keys, Transactions)
    PROVE  Typed'
<1>1. /\ proposals' = Without(proposals, k) /\ approvals' = Without(approvals, k)
      /\ old_approvals' = Without(old_approvals, k)
  BY Erased
<1>2. IsTable(proposals', Keys, Transactions)
  BY <1>1, WithoutTable DEF Typed, TypeOK
<1>3. IsTable(approvals', Keys, ApprovalsType)
  BY <1>1, WithoutTable DEF Typed, TypeOK
<1>4. IsTable(old_approvals', Keys, OldApprovalsType)
  BY <1>1, WithoutTable DEF Typed, TypeOK
<1>5. IsTable(consent', Keys, SUBSET Levels)
  BY WithoutTable DEF Typed, TypeOK
<1>6. TypeOK'
  BY <1>2, <1>3, <1>4, <1>5 DEF Typed, TypeOK
<1>7. TablesAgree' /\ DOMAIN consent' = DOMAIN proposals'
  BY <1>1 DEF Typed, TablesAgree, Without
<1> QED
  BY <1>6, <1>7 DEF Typed

LEMMA TypedStep == Typed /\ [Next]_vars => Typed'
<1> SUFFICES ASSUME Typed, [Next]_vars PROVE Typed'
  OBVIOUS
<1>1. ASSUME NEW k \in Keys, NEW requested \in Requests, NEW trx \in Transactions,
             propose(k, requested, trx)
      PROVE  Typed'
  BY <1>1, TypedPropose
<1>2. ASSUME NEW k \in Keys, NEW level \in Levels, NEW hash, approve(k, level, hash)
      PROVE  Typed'
  BY <1>2, TypedApprove
<1>3. ASSUME NEW k \in Keys, NEW level \in Levels, unapprove(k, level)
      PROVE  Typed'
  BY <1>3, TypedUnapprove
<1>4. ASSUME NEW k \in Keys, NEW canceler \in Accounts, cancel(k, canceler)
      PROVE  Typed'
  <2>1. /\ k \in DOMAIN proposals /\ erase_proposal(k) /\ consent' = Without(consent, k)
        /\ UNCHANGED <<invals, now>> /\ deferred' = deferred
    BY <1>4 DEF cancel
  <2> QED
    BY <2>1, TypedErase DEF Typed, TypeOK
<1>5. ASSUME NEW k \in Keys, exec(k)
      PROVE  Typed'
  <2>1. /\ k \in DOMAIN proposals /\ erase_proposal(k) /\ consent' = Without(consent, k)
        /\ UNCHANGED <<invals, now>> /\ deferred' = Put(deferred, k, proposals[k])
    BY <1>5 DEF exec
  <2>2. proposals[k] \in Transactions
    BY <2>1, RowType DEF Typed, TypeOK
  <2>3. IsTable(deferred', Keys, Transactions)
    BY <2>1, <2>2, PutTable DEF Typed, TypeOK
  <2> QED
    BY <2>1, <2>3, TypedErase
<1>6. ASSUME NEW k \in Keys, RunDeferred(k)
      PROVE  Typed'
  <2>1. IsTable(deferred', Keys, Transactions)
    BY <1>6, WithoutTable DEF RunDeferred, Typed, TypeOK
  <2> QED
    BY <1>6, <2>1 DEF RunDeferred, tables, Typed, TypeOK, TablesAgree
<1>7. ASSUME NEW account \in Accounts, invalidate(account)
      PROVE  Typed'
  <2>1. IsTable(invals', Accounts, Nat)
    BY <1>7, PutTable DEF invalidate, Typed, TypeOK
  <2>2. DOMAIN consent' = DOMAIN consent /\ IsTable(consent', Keys, SUBSET Levels)
    BY <1>7 DEF invalidate, Typed, TypeOK, IsTable
  <2> QED
    BY <1>7, <2>1, <2>2 DEF invalidate, Typed, TypeOK, TablesAgree
<1>8. CASE Tick
  BY <1>8 DEF Tick, tables, Typed, TypeOK, TablesAgree
<1>9. CASE UNCHANGED vars
  BY <1>9 DEF vars, tables, Typed, TypeOK, TablesAgree
<1> QED
  BY <1>1, <1>2, <1>3, <1>4, <1>5, <1>6, <1>7, <1>8, <1>9 DEF Next

LEMMA AlwaysTyped == Spec => []Typed
BY TypedInit, TypedStep, PTL DEF Spec

\* Type correctness: every table holds rows of its type.
THEOREM MsigTypeCorrect == Spec => []TypeOK
<1>1. Typed => TypeOK
  BY DEF Typed
<1> QED
  BY <1>1, AlwaysTyped, PTL

(***************************************************************************)
(* The approvals of a proposal are in exactly one of the two tables, and   *)
(* end with it, whatever the sequence of proposals, approvals,             *)
(* cancellations and executions.                                           *)
(***************************************************************************)
THEOREM TablesAlwaysAgree == Spec => []TablesAgree
<1>1. Typed => TablesAgree
  BY DEF Typed
<1> QED
  BY <1>1, AlwaysTyped, PTL

----------------------------------------------------------------------------
(* What exec counts, against consent *)

\* The part of the invariant that needs each level to be asked once, for one proposal.
RowsOnce(k) ==
    /\ k \in DOMAIN approvals =>
           /\ EachOnce(approvals[k].requested, LevelsOf(approvals[k].provided))
           /\ \A p \in ToSet(approvals[k].provided) : p.time <= now
    /\ k \in DOMAIN old_approvals =>
           EachOnce(old_approvals[k].requested, old_approvals[k].provided)

KeyOK(k) ==
    /\ RowsOnce(k)
    /\ k \in DOMAIN proposals => counted_levels(k) \subseteq consent[k]

LEMMA InvariantByKey == IInv <=> Typed /\ \A k \in Keys : KeyOK(k)
<1>1. TypeOK => /\ DOMAIN approvals \subseteq Keys /\ DOMAIN old_approvals \subseteq Keys
                /\ DOMAIN proposals \subseteq Keys
  BY DEF TypeOK, IsTable
<1> QED
  BY <1>1 DEF IInv, Typed, KeyOK, RowsOnce, ListedOnce, TimesPassed, CountedConsent

\* A step that leaves the approvals of a proposal alone, and its consent.
LEMMA KeyUnchanged ==
    ASSUME NEW k, KeyOK(k), UNCHANGED <<invals, now>>,
           k \in DOMAIN proposals' <=> k \in DOMAIN proposals,
           k \in DOMAIN approvals' <=> k \in DOMAIN approvals,
           k \in DOMAIN approvals => approvals'[k] = approvals[k],
           k \in DOMAIN old_approvals' <=> k \in DOMAIN old_approvals,
           k \in DOMAIN old_approvals => old_approvals'[k] = old_approvals[k],
           k \in DOMAIN proposals => consent'[k] = consent[k],
           k \in DOMAIN proposals => k \in DOMAIN approvals \/ k \in DOMAIN old_approvals
    PROVE  KeyOK(k)'
<1>1. RowsOnce(k)'
  BY DEF KeyOK, RowsOnce
<1>2. k \in DOMAIN proposals => counted_levels(k)' = counted_levels(k)
  BY DEF counted_levels, still_valid
<1> QED
  BY <1>1, <1>2 DEF KeyOK

LEMMA InvariantInit == AskedOnce /\ Init => IInv
<1> SUFFICES ASSUME AskedOnce, Init PROVE IInv
  OBVIOUS
<1>1. ASSUME NEW k \in Keys PROVE KeyOK(k)
  <2>1. /\ DOMAIN approvals = {} /\ DOMAIN old_approvals = DOMAIN OldProposals
        /\ DOMAIN proposals = DOMAIN OldProposals
        /\ \A j \in DOMAIN OldProposals :
               /\ old_approvals[j].requested = OldProposals[j].requested
               /\ old_approvals[j].provided = OldProposals[j].provided
               /\ consent[j] = ToSet(OldProposals[j].provided)
    BY DEF Init
  <2>2. RowsOnce(k)
    BY <2>1 DEF RowsOnce, AskedOnce
  <2>3. k \in DOMAIN proposals => counted_levels(k) \subseteq consent[k]
    BY <2>1 DEF counted_levels
  <2> QED
    BY <2>2, <2>3 DEF KeyOK
<1> QED
  BY <1>1, TypedInit, InvariantByKey

\* No approval is provided for a new proposal.
LEMMA KeyPropose ==
    ASSUME AskedOnce, Typed, NEW k \in Keys, NEW requested \in Requests,
           NEW trx \in Transactions, propose(k, requested, trx)
    PROVE  KeyOK(k)'
<1>1. /\ k \in DOMAIN approvals' /\ approvals'[k].requested = requested
      /\ approvals'[k].provided = <<>> /\ consent'[k] = {}
  BY DEF propose, Put
<1>2. k \notin DOMAIN old_approvals'
  BY DEF propose, Typed, TablesAgree
<1>3. /\ LevelsOf(<<>>) = <<>> /\ ToSet(<<>>) = {} /\ IsInjective(<<>>)
  BY DEF LevelsOf, ToSet, IsInjective
<1>4. RowsOnce(k)'
  BY <1>1, <1>2, <1>3 DEF RowsOnce, AskedOnce, EachOnce
<1>5. counted_levels(k)' = {}
  BY <1>1, <1>3 DEF counted_levels
<1> QED
  BY <1>4, <1>5 DEF KeyOK

\* The levels of a list of approvals, when one is added or erased.
LEMMA LevelsType ==
    ASSUME NEW s \in Seq(ApprovalType)
    PROVE  LevelsOf(s) \in Seq(Levels) /\ Len(LevelsOf(s)) = Len(s)
<1>1. Len(s) \in Nat /\ DOMAIN s = 1 .. Len(s) /\ \A i \in 1 .. Len(s) : s[i] \in ApprovalType
  OBVIOUS
<1>2. \A i \in 1 .. Len(s) : s[i].level \in Levels
  BY <1>1 DEF ApprovalType
<1>3. LevelsOf(s) = [i \in 1 .. Len(s) |-> s[i].level]
  BY <1>1 DEF LevelsOf
<1>4. LevelsOf(s) \in Seq(Levels)
  BY <1>1, <1>2, <1>3
<1> QED
  BY <1>1, <1>3, <1>4

LEMMA LevelsAppended ==
    ASSUME NEW s \in Seq(ApprovalType), NEW p \in ApprovalType
    PROVE  LevelsOf(Append(s, p)) = Append(LevelsOf(s), p.level) /\ LevelsOf(s) \in Seq(Levels)
<1>1. LevelsOf(s) \in Seq(Levels) /\ Len(LevelsOf(s)) = Len(s)
  BY LevelsType
<1>2. \A i \in 1 .. Len(s) : LevelsOf(s)[i] = s[i].level
  BY DEF LevelsOf
<1>3. LevelsOf(Append(s, p)) = [i \in 1 .. Len(s) + 1 |-> Append(s, p)[i].level]
  BY DEF LevelsOf
<1>4. Append(LevelsOf(s), p.level) =
          [i \in 1 .. Len(s) + 1 |-> IF i <= Len(s) THEN LevelsOf(s)[i] ELSE p.level]
  BY <1>1
<1>5. \A i \in 1 .. Len(s) + 1 :
          Append(s, p)[i].level = IF i <= Len(s) THEN LevelsOf(s)[i] ELSE p.level
  BY <1>2
<1> QED
  BY <1>1, <1>3, <1>4, <1>5

LEMMA LevelsErased ==
    ASSUME NEW s \in Seq(ApprovalType), NEW i \in DOMAIN s
    PROVE  LevelsOf(RemoveAt(s, i)) = RemoveAt(LevelsOf(s), i)
<1> DEFINE n == Len(s) - 1
           t == LevelsOf(s)
<1>1. t \in Seq(Levels) /\ Len(t) = Len(s) /\ i \in DOMAIN t
  BY LevelsType DEF LevelsOf
<1>2. \A j \in 1 .. Len(s) : t[j] = s[j].level
  BY DEF LevelsOf
<1> HIDE DEF t
<1>3. /\ RemoveAt(s, i) \in Seq(ApprovalType) /\ Len(RemoveAt(s, i)) = n
      /\ \A j \in 1 .. n : RemoveAt(s, i)[j] = IF j < i THEN s[j] ELSE s[j + 1]
  BY RemoveAtProperties
<1>4. /\ RemoveAt(t, i) \in Seq(Levels) /\ Len(RemoveAt(t, i)) = n
      /\ \A j \in 1 .. n : RemoveAt(t, i)[j] = IF j < i THEN t[j] ELSE t[j + 1]
  BY <1>1, RemoveAtProperties
<1>5. \A j \in 1 .. n : RemoveAt(s, i)[j].level = RemoveAt(t, i)[j]
  <2> SUFFICES ASSUME NEW j \in 1 .. n PROVE RemoveAt(s, i)[j].level = RemoveAt(t, i)[j]
    OBVIOUS
  <2>1. j \in 1 .. Len(s) /\ j + 1 \in 1 .. Len(s)
    OBVIOUS
  <2> QED
    BY <1>2, <1>3, <1>4, <2>1
<1>6. DOMAIN RemoveAt(s, i) = 1 .. n /\ DOMAIN RemoveAt(t, i) = 1 .. n
  BY <1>3, <1>4
<1>7. RemoveAt(t, i) = [j \in 1 .. n |-> RemoveAt(t, i)[j]]
  BY <1>4, <1>6
<1>8. LevelsOf(RemoveAt(s, i)) = [j \in 1 .. n |-> RemoveAt(s, i)[j].level]
  BY <1>6 DEF LevelsOf
<1> QED
  BY <1>5, <1>7, <1>8 DEF t

\* What exec counts of a proposal of the new table.
LEMMA CountedNew ==
    ASSUME NEW k, k \in DOMAIN approvals
    PROVE  /\ \A l \in counted_levels(k) :
                  \E p \in ToSet(approvals[k].provided) : p.level = l /\ still_valid(p)
           /\ \A p \in ToSet(approvals[k].provided) :
                  still_valid(p) => p.level \in counted_levels(k)
BY DEF counted_levels

LEMMA ApprovedLevel ==
    ASSUME NEW s \in Seq(ApprovalType)
    PROVE  /\ ToSet(s) \subseteq ApprovalType
           /\ \A p \in ToSet(s) : p.level \in ToSet(LevelsOf(s))
BY DEF ToSet, LevelsOf

\* An approval moves its level from the requested to the provided ones.
LEMMA KeyApproveNew ==
    ASSUME Typed, NEW k \in Keys, NEW level \in Levels, KeyOK(k), approve_new(k, level),
           consent' = [consent EXCEPT ![k] = @ \cup {level}],
           UNCHANGED <<proposals, invals, now>>
    PROVE  KeyOK(k)'
<1> DEFINE requested == approvals[k].requested
           provided == approvals[k].provided
           approval == [level |-> level, time |-> now]
<1>1. PICK i \in DOMAIN requested :
          /\ k \in DOMAIN approvals /\ requested[i] = level
          /\ approvals' = [approvals EXCEPT
                 ![k] = [requested |-> RemoveAt(requested, i),
                         provided |-> Append(provided, approval)]]
          /\ old_approvals' = old_approvals
  BY ApproveNewRow DEF Typed
<1>2. requested \in Seq(Levels) /\ provided \in Seq(ApprovalType) /\ approval \in ApprovalType
  <2>1. approvals[k] \in ApprovalsType /\ now \in Nat
    BY <1>1, RowType DEF Typed, TypeOK
  <2>2. requested \in Seq(Levels) /\ provided \in Seq(ApprovalType)
    BY <2>1 DEF ApprovalsType
  <2>3. approval \in ApprovalType
    BY <2>1 DEF ApprovalType
  <2> QED
    BY <2>2, <2>3
<1>3. /\ k \in DOMAIN approvals' /\ k \notin DOMAIN old_approvals'
      /\ approvals'[k].requested = RemoveAt(requested, i)
      /\ approvals'[k].provided = Append(provided, approval)
      /\ k \in DOMAIN consent /\ k \in DOMAIN proposals /\ consent'[k] = consent[k] \cup {level}
  <2>1. /\ k \notin DOMAIN old_approvals /\ k \in DOMAIN proposals /\ k \in DOMAIN consent
    BY <1>1 DEF Typed, TablesAgree
  <2>2. DOMAIN approvals' = DOMAIN approvals
    BY <1>1
  <2> QED
    BY <1>1, <2>1, <2>2
<1>4. EachOnce(requested, LevelsOf(provided)) /\ counted_levels(k) \subseteq consent[k]
      /\ \A p \in ToSet(provided) : p.time <= now
  BY <1>1, <1>3 DEF KeyOK, RowsOnce
<1> HIDE DEF requested, provided
<1>5. level \in ToSet(requested) /\ level \notin ToSet(LevelsOf(provided))
  BY <1>1, <1>4 DEF ToSet, EachOnce
<1>6. /\ IsInjective(RemoveAt(requested, i))
      /\ ToSet(RemoveAt(requested, i)) = ToSet(requested) \ {level}
  BY <1>1, <1>2, <1>4, ErasedOnce DEF EachOnce
<1>7. LevelsOf(Append(provided, approval)) = Append(LevelsOf(provided), level)
      /\ LevelsOf(provided) \in Seq(Levels)
  BY <1>2, LevelsAppended
<1>8. /\ IsInjective(Append(LevelsOf(provided), level))
      /\ ToSet(Append(LevelsOf(provided), level)) = ToSet(LevelsOf(provided)) \cup {level}
  BY <1>4, <1>5, <1>7, AppendedOnce DEF EachOnce
<1>9. EachOnce(RemoveAt(requested, i), LevelsOf(Append(provided, approval)))
  BY <1>4, <1>6, <1>7, <1>8 DEF EachOnce
<1>10. ToSet(Append(provided, approval)) \subseteq ToSet(provided) \cup {approval}
  BY <1>2 DEF ToSet
<1>11. now <= now /\ approval.time = now
  BY DEF Typed, TypeOK
<1>12. RowsOnce(k)'
  BY <1>3, <1>4, <1>9, <1>10, <1>11 DEF RowsOnce
<1>13. counted_levels(k)' \subseteq consent'[k]
  <2>1. \A p : still_valid(p)' <=> still_valid(p)
    BY DEF still_valid
  <2>2. ASSUME NEW l \in counted_levels(k)' PROVE l \in consent'[k]
    <3>1. PICK p \in ToSet(Append(provided, approval)) : p.level = l /\ still_valid(p)
      BY <1>3, <2>1, <2>2 DEF counted_levels
    <3>2. CASE p = approval
      BY <1>3, <3>1, <3>2
    <3>3. CASE p \in ToSet(provided)
      BY <1>1, <1>3, <1>4, <3>1, <3>3, CountedNew DEF provided
    <3> QED
      BY <1>10, <3>2, <3>3
  <2> QED
    BY <2>2
<1> QED
  BY <1>3, <1>12, <1>13 DEF KeyOK

\* Its revocation moves the level back, and leaves no other approval of it.
LEMMA KeyUnapproveNew ==
    ASSUME Typed, NEW k \in Keys, NEW level \in Levels, KeyOK(k), unapprove_new(k, level),
           consent' = [consent EXCEPT ![k] = @ \ {level}],
           UNCHANGED <<proposals, invals, now>>
    PROVE  KeyOK(k)'
<1> DEFINE requested == approvals[k].requested
           provided == approvals[k].provided
<1>1. PICK i \in DOMAIN provided :
          /\ k \in DOMAIN approvals /\ provided[i].level = level
          /\ approvals' = [approvals EXCEPT
                 ![k] = [requested |-> Append(requested, level),
                         provided |-> RemoveAt(provided, i)]]
          /\ old_approvals' = old_approvals
  BY UnapproveNewRow DEF Typed
<1>2. requested \in Seq(Levels) /\ provided \in Seq(ApprovalType)
  <2>1. approvals[k] \in ApprovalsType
    BY <1>1, RowType DEF Typed, TypeOK
  <2> QED
    BY <2>1 DEF ApprovalsType
<1>3. /\ k \in DOMAIN approvals' /\ k \notin DOMAIN old_approvals'
      /\ approvals'[k].requested = Append(requested, level)
      /\ approvals'[k].provided = RemoveAt(provided, i)
      /\ k \in DOMAIN consent /\ k \in DOMAIN proposals /\ consent'[k] = consent[k] \ {level}
  <2>1. /\ k \notin DOMAIN old_approvals /\ k \in DOMAIN proposals /\ k \in DOMAIN consent
    BY <1>1 DEF Typed, TablesAgree
  <2>2. DOMAIN approvals' = DOMAIN approvals
    BY <1>1
  <2> QED
    BY <1>1, <2>1, <2>2
<1>4. EachOnce(requested, LevelsOf(provided)) /\ counted_levels(k) \subseteq consent[k]
      /\ \A p \in ToSet(provided) : p.time <= now
  BY <1>1, <1>3 DEF KeyOK, RowsOnce
<1> HIDE DEF requested, provided
<1>5. /\ LevelsOf(provided) \in Seq(Levels) /\ i \in DOMAIN LevelsOf(provided)
      /\ LevelsOf(provided)[i] = level
  BY <1>1, <1>2, LevelsType DEF LevelsOf
<1>6. level \in ToSet(LevelsOf(provided)) /\ level \notin ToSet(requested)
  BY <1>4, <1>5 DEF ToSet, EachOnce
<1>7. LevelsOf(RemoveAt(provided, i)) = RemoveAt(LevelsOf(provided), i)
  BY <1>2, LevelsErased
<1>8. /\ IsInjective(RemoveAt(LevelsOf(provided), i))
      /\ ToSet(RemoveAt(LevelsOf(provided), i)) = ToSet(LevelsOf(provided)) \ {level}
  BY <1>4, <1>5, ErasedOnce DEF EachOnce
<1>9. /\ IsInjective(Append(requested, level))
      /\ ToSet(Append(requested, level)) = ToSet(requested) \cup {level}
  BY <1>2, <1>4, <1>6, AppendedOnce DEF EachOnce
<1>10. EachOnce(Append(requested, level), LevelsOf(RemoveAt(provided, i)))
  BY <1>4, <1>7, <1>8, <1>9 DEF EachOnce
<1>11. ToSet(RemoveAt(provided, i)) \subseteq ToSet(provided)
  <2>1. /\ RemoveAt(provided, i) \in Seq(ApprovalType)
        /\ Len(RemoveAt(provided, i)) = Len(provided) - 1
        /\ \A j \in 1 .. Len(provided) - 1 :
               RemoveAt(provided, i)[j] = IF j < i THEN provided[j] ELSE provided[j + 1]
    BY <1>2, RemoveAtProperties
  <2>2. \A j \in 1 .. Len(provided) - 1 : j \in DOMAIN provided /\ j + 1 \in DOMAIN provided
    BY <1>2
  <2>3. DOMAIN RemoveAt(provided, i) = 1 .. Len(provided) - 1
    BY <2>1
  <2> QED
    BY <2>1, <2>2, <2>3 DEF ToSet
<1>12. RowsOnce(k)'
  BY <1>3, <1>4, <1>10, <1>11 DEF RowsOnce
<1>13. counted_levels(k)' \subseteq consent'[k]
  <2>1. \A p : still_valid(p)' <=> still_valid(p)
    BY DEF still_valid
  <2>2. ASSUME NEW l \in counted_levels(k)' PROVE l \in consent'[k]
    <3>1. PICK p \in ToSet(RemoveAt(provided, i)) : p.level = l /\ still_valid(p)
      BY <1>3, <2>1, <2>2 DEF counted_levels
    <3>2. RemoveAt(provided, i) \in Seq(ApprovalType)
      BY <1>2, RemoveAtProperties
    <3>3. l # level
      BY <1>7, <1>8, <3>1, <3>2, ApprovedLevel
    <3>4. l \in counted_levels(k)
      BY <1>1, <1>11, <3>1, CountedNew DEF provided
    <3> QED
      BY <1>3, <1>4, <3>3, <3>4
  <2> QED
    BY <2>2
<1> QED
  BY <1>3, <1>12, <1>13 DEF KeyOK

\* The same in the table of the earlier version.
LEMMA KeyApproveOld ==
    ASSUME Typed, NEW k \in Keys, NEW level \in Levels, KeyOK(k), approve_old(k, level),
           consent' = [consent EXCEPT ![k] = @ \cup {level}],
           UNCHANGED <<proposals, invals, now>>
    PROVE  KeyOK(k)'
<1> DEFINE requested == old_approvals[k].requested
           provided == old_approvals[k].provided
<1>1. PICK i \in DOMAIN requested :
          /\ k \notin DOMAIN approvals /\ k \in DOMAIN old_approvals /\ requested[i] = level
          /\ old_approvals' = [old_approvals EXCEPT
                 ![k] = [requested |-> RemoveAt(requested, i),
                         provided |-> Append(provided, level)]]
          /\ approvals' = approvals
  BY ApproveOldRow DEF Typed
<1>2. requested \in Seq(Levels) /\ provided \in Seq(Levels)
  <2>1. old_approvals[k] \in OldApprovalsType
    BY <1>1, RowType DEF Typed, TypeOK
  <2> QED
    BY <2>1 DEF OldApprovalsType
<1>3. /\ k \notin DOMAIN approvals' /\ k \in DOMAIN old_approvals'
      /\ old_approvals'[k].requested = RemoveAt(requested, i)
      /\ old_approvals'[k].provided = Append(provided, level)
      /\ k \in DOMAIN consent /\ k \in DOMAIN proposals /\ consent'[k] = consent[k] \cup {level}
  <2>1. k \in DOMAIN proposals /\ k \in DOMAIN consent
    BY <1>1 DEF Typed, TablesAgree
  <2> QED
    BY <1>1, <2>1
<1>4. EachOnce(requested, provided)
  BY <1>1 DEF KeyOK, RowsOnce
<1>5. {l \in ToSet(provided) : Actor[l] \notin DOMAIN invals} \subseteq consent[k]
  BY <1>1, <1>3 DEF KeyOK, counted_levels
<1> HIDE DEF requested, provided
<1>6. level \in ToSet(requested) /\ level \notin ToSet(provided)
  BY <1>1, <1>4 DEF ToSet, EachOnce
<1>7. /\ IsInjective(RemoveAt(requested, i))
      /\ ToSet(RemoveAt(requested, i)) = ToSet(requested) \ {level}
  BY <1>1, <1>2, <1>4, ErasedOnce DEF EachOnce
<1>8. /\ IsInjective(Append(provided, level))
      /\ ToSet(Append(provided, level)) = ToSet(provided) \cup {level}
  BY <1>2, <1>4, <1>6, AppendedOnce DEF EachOnce
<1>9. EachOnce(RemoveAt(requested, i), Append(provided, level))
  BY <1>4, <1>7, <1>8 DEF EachOnce
<1>10. RowsOnce(k)'
  BY <1>3, <1>9 DEF RowsOnce
<1>11. counted_levels(k)' \subseteq consent'[k]
  BY <1>3, <1>5, <1>8 DEF counted_levels
<1> QED
  BY <1>10, <1>11 DEF KeyOK

LEMMA KeyUnapproveOld ==
    ASSUME Typed, NEW k \in Keys, NEW level \in Levels, KeyOK(k), unapprove_old(k, level),
           consent' = [consent EXCEPT ![k] = @ \ {level}],
           UNCHANGED <<proposals, invals, now>>
    PROVE  KeyOK(k)'
<1> DEFINE requested == old_approvals[k].requested
           provided == old_approvals[k].provided
<1>1. PICK i \in DOMAIN provided :
          /\ k \notin DOMAIN approvals /\ k \in DOMAIN old_approvals /\ provided[i] = level
          /\ old_approvals' = [old_approvals EXCEPT
                 ![k] = [requested |-> Append(requested, level),
                         provided |-> RemoveAt(provided, i)]]
          /\ approvals' = approvals
  BY UnapproveOldRow DEF Typed
<1>2. requested \in Seq(Levels) /\ provided \in Seq(Levels)
  <2>1. old_approvals[k] \in OldApprovalsType
    BY <1>1, RowType DEF Typed, TypeOK
  <2> QED
    BY <2>1 DEF OldApprovalsType
<1>3. /\ k \notin DOMAIN approvals' /\ k \in DOMAIN old_approvals'
      /\ old_approvals'[k].requested = Append(requested, level)
      /\ old_approvals'[k].provided = RemoveAt(provided, i)
      /\ k \in DOMAIN consent /\ k \in DOMAIN proposals /\ consent'[k] = consent[k] \ {level}
  <2>1. k \in DOMAIN proposals /\ k \in DOMAIN consent
    BY <1>1 DEF Typed, TablesAgree
  <2> QED
    BY <1>1, <2>1
<1>4. EachOnce(requested, provided)
  BY <1>1 DEF KeyOK, RowsOnce
<1>5. {l \in ToSet(provided) : Actor[l] \notin DOMAIN invals} \subseteq consent[k]
  BY <1>1, <1>3 DEF KeyOK, counted_levels
<1> HIDE DEF requested, provided
<1>6. level \in ToSet(provided) /\ level \notin ToSet(requested)
  BY <1>1, <1>4 DEF ToSet, EachOnce
<1>7. /\ IsInjective(RemoveAt(provided, i))
      /\ ToSet(RemoveAt(provided, i)) = ToSet(provided) \ {level}
  BY <1>1, <1>2, <1>4, ErasedOnce DEF EachOnce
<1>8. /\ IsInjective(Append(requested, level))
      /\ ToSet(Append(requested, level)) = ToSet(requested) \cup {level}
  BY <1>2, <1>4, <1>6, AppendedOnce DEF EachOnce
<1>9. EachOnce(Append(requested, level), RemoveAt(provided, i))
  BY <1>4, <1>7, <1>8 DEF EachOnce
<1>10. RowsOnce(k)'
  BY <1>3, <1>9 DEF RowsOnce
<1>11. counted_levels(k)' \subseteq consent'[k]
  BY <1>3, <1>5, <1>7 DEF counted_levels
<1> QED
  BY <1>10, <1>11 DEF KeyOK

\* An invalidation leaves nothing of its account to count: no approval is later than now.
LEMMA KeyInvalidate ==
    ASSUME Typed, NEW k \in Keys, KeyOK(k), NEW account \in Accounts, invalidate(account)
    PROVE  KeyOK(k)'
<1>1. RowsOnce(k)'
  BY DEF invalidate, KeyOK, RowsOnce
<1>2. /\ DOMAIN invals' = DOMAIN invals \cup {account} /\ invals'[account] = now
      /\ \A a \in DOMAIN invals : a # account => invals'[a] = invals[a]
  BY DEF invalidate, Put
<1>3. k \in DOMAIN proposals => counted_levels(k)' \subseteq consent'[k]
  <2> SUFFICES ASSUME k \in DOMAIN proposals, NEW l \in counted_levels(k)'
               PROVE  l \in consent[k] /\ Actor[l] # account
    BY DEF invalidate, Typed
  <2>1. counted_levels(k) \subseteq consent[k]
    BY DEF KeyOK
  <2>2. CASE k \in DOMAIN approvals
    <3>1. PICK p \in ToSet(approvals[k].provided) : p.level = l /\ still_valid(p)'
      BY <2>2 DEF invalidate, counted_levels
    <3>2. p.time <= now /\ p.time \in Nat /\ now \in Nat
      <4>1. approvals[k] \in ApprovalsType /\ now \in Nat
        BY <2>2, RowType DEF Typed, TypeOK
      <4>2. approvals[k].provided \in Seq(ApprovalType)
        BY <4>1 DEF ApprovalsType
      <4>3. p \in ApprovalType
        BY <4>2, ApprovedLevel
      <4> QED
        BY <2>2, <4>1, <4>3 DEF KeyOK, RowsOnce, ApprovalType
    <3>3. Actor[l] # account
      BY <1>2, <3>1, <3>2 DEF still_valid
    <3>4. still_valid(p)
      BY <1>2, <3>1, <3>3 DEF still_valid
    <3> QED
      BY <2>1, <2>2, <3>1, <3>3, <3>4, CountedNew
  <2>3. CASE k \notin DOMAIN approvals
    BY <1>2, <2>1, <2>3 DEF invalidate, counted_levels
  <2> QED
    BY <2>2, <2>3
<1>4. proposals' = proposals
  BY DEF invalidate
<1> QED
  BY <1>1, <1>3, <1>4 DEF KeyOK

LEMMA KeyTick ==
    ASSUME Typed, NEW k \in Keys, KeyOK(k), Tick
    PROVE  KeyOK(k)'
<1>1. now \in Nat /\ now' = now + 1 /\ UNCHANGED <<proposals, approvals, old_approvals, invals, consent>>
  BY DEF Tick, tables, Typed, TypeOK
<1>2. k \in DOMAIN approvals => \A p \in ToSet(approvals[k].provided) : p.time <= now + 1
  <2> SUFFICES ASSUME k \in DOMAIN approvals, NEW p \in ToSet(approvals[k].provided)
               PROVE  p.time <= now + 1
    OBVIOUS
  <2>1. approvals[k] \in ApprovalsType
    BY RowType DEF Typed, TypeOK
  <2>2. approvals[k].provided \in Seq(ApprovalType)
    BY <2>1 DEF ApprovalsType
  <2>3. p \in ApprovalType
    BY <2>2, ApprovedLevel
  <2>4. p.time \in Nat /\ p.time <= now
    BY <2>3 DEF KeyOK, RowsOnce, ApprovalType
  <2> QED
    BY <1>1, <2>4
<1>3. RowsOnce(k)'
  BY <1>1, <1>2 DEF KeyOK, RowsOnce
<1>4. counted_levels(k)' = counted_levels(k)
  BY <1>1 DEF counted_levels, still_valid
<1> QED
  BY <1>1, <1>3, <1>4 DEF KeyOK

\* A proposal that ends leaves nothing to count.
LEMMA KeyErased ==
    ASSUME Typed, NEW k \in DOMAIN proposals, erase_proposal(k), consent' = Without(consent, k),
           UNCHANGED <<invals, now>>, NEW j \in Keys, KeyOK(j)
    PROVE  KeyOK(j)'
<1>1. /\ proposals' = Without(proposals, k) /\ approvals' = Without(approvals, k)
      /\ old_approvals' = Without(old_approvals, k)
  BY Erased
<1>2. CASE j = k
  BY <1>1, <1>2 DEF Without, KeyOK, RowsOnce
<1>3. CASE j # k
  <2>1. /\ j \in DOMAIN proposals' <=> j \in DOMAIN proposals
        /\ j \in DOMAIN approvals' <=> j \in DOMAIN approvals
        /\ j \in DOMAIN approvals => approvals'[j] = approvals[j]
        /\ j \in DOMAIN old_approvals' <=> j \in DOMAIN old_approvals
        /\ j \in DOMAIN old_approvals => old_approvals'[j] = old_approvals[j]
    BY <1>1, <1>3 DEF Without
  <2>2. j \in DOMAIN proposals => consent'[j] = consent[j]
    BY <1>3 DEF Without, Typed
  <2>3. j \in DOMAIN proposals => j \in DOMAIN approvals \/ j \in DOMAIN old_approvals
    BY DEF Typed, TablesAgree
  <2> QED
    BY <2>1, <2>2, <2>3, KeyUnchanged
<1> QED
  BY <1>2, <1>3

\* The rows of the other proposals stay when one changes.
LEMMA KeyOther ==
    ASSUME Typed, UNCHANGED <<invals, now>>, NEW j \in Keys, KeyOK(j),
           j \in DOMAIN proposals' <=> j \in DOMAIN proposals,
           j \in DOMAIN approvals' <=> j \in DOMAIN approvals,
           j \in DOMAIN approvals => approvals'[j] = approvals[j],
           old_approvals' = old_approvals
              \/ /\ DOMAIN old_approvals' = DOMAIN old_approvals
                 /\ j \in DOMAIN old_approvals => old_approvals'[j] = old_approvals[j],
           j \in DOMAIN consent => consent'[j] = consent[j]
    PROVE  KeyOK(j)'
<1>1. /\ j \in DOMAIN old_approvals' <=> j \in DOMAIN old_approvals
      /\ j \in DOMAIN old_approvals => old_approvals'[j] = old_approvals[j]
  OBVIOUS
<1>2. /\ j \in DOMAIN proposals => consent'[j] = consent[j]
      /\ j \in DOMAIN proposals => j \in DOMAIN approvals \/ j \in DOMAIN old_approvals
  BY DEF Typed, TablesAgree
<1> QED
  BY <1>1, <1>2, KeyUnchanged

LEMMA ApprovalStep ==
    ASSUME Typed, \A j \in Keys : KeyOK(j), NEW k \in Keys, NEW level \in Levels, NEW hash,
           approve(k, level, hash)
    PROVE  \A j \in Keys : KeyOK(j)'
<1>1. /\ consent' = [consent EXCEPT ![k] = @ \cup {level}]
      /\ UNCHANGED <<proposals, invals, now>>
  BY DEF approve
<1>2. ASSUME NEW j \in Keys, j # k PROVE j \in DOMAIN consent => consent'[j] = consent[j]
  BY <1>1, <1>2
<1>3. CASE approve_new(k, level)
  <2>1. PICK row : approvals' = [approvals EXCEPT ![k] = row] /\ old_approvals' = old_approvals
    BY <1>3, ApproveNewRow DEF Typed
  <2>2. KeyOK(k)'
    BY <1>1, <1>3, KeyApproveNew
  <2>3. ASSUME NEW j \in Keys, j # k PROVE KeyOK(j)'
    <3>1. /\ j \in DOMAIN approvals' <=> j \in DOMAIN approvals
          /\ j \in DOMAIN approvals => approvals'[j] = approvals[j]
      BY <2>1, <2>3
    <3> QED
      BY <1>1, <1>2, <2>1, <2>3, <3>1, KeyOther
  <2> QED
    BY <2>2, <2>3
<1>4. CASE approve_old(k, level)
  <2>1. PICK row : old_approvals' = [old_approvals EXCEPT ![k] = row] /\ approvals' = approvals
    BY <1>4, ApproveOldRow DEF Typed
  <2>2. KeyOK(k)'
    BY <1>1, <1>4, KeyApproveOld
  <2>3. ASSUME NEW j \in Keys, j # k PROVE KeyOK(j)'
    <3>1. /\ DOMAIN old_approvals' = DOMAIN old_approvals
          /\ j \in DOMAIN old_approvals => old_approvals'[j] = old_approvals[j]
      BY <2>1, <2>3
    <3> QED
      BY <1>1, <1>2, <2>1, <2>3, <3>1, KeyOther
  <2> QED
    BY <2>2, <2>3
<1> QED
  BY <1>3, <1>4 DEF approve

LEMMA RevocationStep ==
    ASSUME Typed, \A j \in Keys : KeyOK(j), NEW k \in Keys, NEW level \in Levels,
           unapprove(k, level)
    PROVE  \A j \in Keys : KeyOK(j)'
<1>1. /\ consent' = [consent EXCEPT ![k] = @ \ {level}]
      /\ UNCHANGED <<proposals, invals, now>>
  BY DEF unapprove
<1>2. ASSUME NEW j \in Keys, j # k PROVE j \in DOMAIN consent => consent'[j] = consent[j]
  BY <1>1, <1>2
<1>3. CASE unapprove_new(k, level)
  <2>1. PICK row : approvals' = [approvals EXCEPT ![k] = row] /\ old_approvals' = old_approvals
    BY <1>3, UnapproveNewRow DEF Typed
  <2>2. KeyOK(k)'
    BY <1>1, <1>3, KeyUnapproveNew
  <2>3. ASSUME NEW j \in Keys, j # k PROVE KeyOK(j)'
    <3>1. /\ j \in DOMAIN approvals' <=> j \in DOMAIN approvals
          /\ j \in DOMAIN approvals => approvals'[j] = approvals[j]
      BY <2>1, <2>3
    <3> QED
      BY <1>1, <1>2, <2>1, <2>3, <3>1, KeyOther
  <2> QED
    BY <2>2, <2>3
<1>4. CASE unapprove_old(k, level)
  <2>1. PICK row : old_approvals' = [old_approvals EXCEPT ![k] = row] /\ approvals' = approvals
    BY <1>4, UnapproveOldRow DEF Typed
  <2>2. KeyOK(k)'
    BY <1>1, <1>4, KeyUnapproveOld
  <2>3. ASSUME NEW j \in Keys, j # k PROVE KeyOK(j)'
    <3>1. /\ DOMAIN old_approvals' = DOMAIN old_approvals
          /\ j \in DOMAIN old_approvals => old_approvals'[j] = old_approvals[j]
      BY <2>1, <2>3
    <3> QED
      BY <1>1, <1>2, <2>1, <2>3, <3>1, KeyOther
  <2> QED
    BY <2>2, <2>3
<1> QED
  BY <1>3, <1>4 DEF unapprove

LEMMA InvariantByKeyAfter == Typed' /\ (\A k \in Keys : KeyOK(k))' => IInv'
BY InvariantByKey, PTL

LEMMA InvariantStep ==
    ASSUME AskedOnce, IInv, [Next]_vars
    PROVE  IInv'
<1>1. Typed /\ Typed' /\ \A j \in Keys : KeyOK(j)
  BY InvariantByKey, TypedStep
<1>2. ASSUME NEW k \in Keys, NEW requested \in Requests, NEW trx \in Transactions,
             propose(k, requested, trx)
      PROVE  \A j \in Keys : KeyOK(j)'
  <2>1. KeyOK(k)'
    BY <1>1, <1>2, KeyPropose
  <2>2. ASSUME NEW j \in Keys, j # k PROVE KeyOK(j)'
    <3>1. /\ j \in DOMAIN proposals' <=> j \in DOMAIN proposals
          /\ j \in DOMAIN approvals' <=> j \in DOMAIN approvals
          /\ j \in DOMAIN approvals => approvals'[j] = approvals[j]
          /\ j \in DOMAIN consent => consent'[j] = consent[j]
          /\ old_approvals' = old_approvals /\ UNCHANGED <<invals, now>>
      BY <1>2, <2>2 DEF propose, Put
    <3> QED
      BY <1>1, <3>1, KeyOther
  <2> QED
    BY <2>1, <2>2
<1>3. ASSUME NEW k \in Keys, NEW level \in Levels, NEW hash, approve(k, level, hash)
      PROVE  \A j \in Keys : KeyOK(j)'
  BY <1>1, <1>3, ApprovalStep
<1>4. ASSUME NEW k \in Keys, NEW level \in Levels, unapprove(k, level)
      PROVE  \A j \in Keys : KeyOK(j)'
  BY <1>1, <1>4, RevocationStep
<1>5. ASSUME NEW k \in Keys, NEW canceler \in Accounts, cancel(k, canceler)
      PROVE  \A j \in Keys : KeyOK(j)'
  BY <1>1, <1>5, KeyErased DEF cancel
<1>6. ASSUME NEW k \in Keys, exec(k)
      PROVE  \A j \in Keys : KeyOK(j)'
  BY <1>1, <1>6, KeyErased DEF exec
<1>7. ASSUME NEW account \in Accounts, invalidate(account)
      PROVE  \A j \in Keys : KeyOK(j)'
  BY <1>1, <1>7, KeyInvalidate
<1>8. ASSUME Tick PROVE \A j \in Keys : KeyOK(j)'
  BY <1>1, <1>8, KeyTick
<1>9. ASSUME UNCHANGED <<tables, now, consent>>
      PROVE  \A j \in Keys : KeyOK(j)'
  <2>1. /\ UNCHANGED <<proposals, approvals, old_approvals, invals, now, consent>>
    BY <1>9 DEF tables
  <2> QED
    BY <1>1, <2>1, KeyOther
<1>10. ASSUME NEW k \in Keys, RunDeferred(k)
       PROVE  \A j \in Keys : KeyOK(j)'
  BY <1>9, <1>10 DEF RunDeferred
<1>11. ASSUME UNCHANGED vars PROVE \A j \in Keys : KeyOK(j)'
  BY <1>9, <1>11 DEF vars
<1>12. \A j \in Keys : KeyOK(j)'
  BY <1>2, <1>3, <1>4, <1>5, <1>6, <1>7, <1>8, <1>10, <1>11 DEF Next
<1> QED
  BY <1>1, <1>12, InvariantByKeyAfter

(***************************************************************************)
(* What exec counts is consented to, in every reachable state, if nobody   *)
(* asks a level twice.                                                     *)
(***************************************************************************)
THEOREM CountedIsConsented ==
    ASSUME AskedOnce
    PROVE  Spec => []IInv
<1>1. Init => IInv
  BY InvariantInit
<1>2. IInv /\ [Next]_vars => IInv'
  BY InvariantStep
<1> QED
  BY <1>1, <1>2, PTL DEF Spec

(***************************************************************************)
(* unapprove takes the approval of a level back entirely, if nobody asks a *)
(* level twice (run "twice" shows what happens otherwise).                 *)
(***************************************************************************)
THEOREM UnapprovalRevokes ==
    ASSUME AskedOnce
    PROVE  Spec => UnapproveRevokes
<1>1. IInv /\ IInv' /\ [Next]_vars =>
          [\A k \in Keys, level \in Levels :
              unapprove(k, level) => level \notin counted_levels(k)']_vars
  <2> SUFFICES ASSUME IInv, IInv', NEW k \in Keys, NEW level \in Levels, unapprove(k, level)
               PROVE  level \notin counted_levels(k)'
    OBVIOUS
  <2>1. k \in DOMAIN consent /\ k \in DOMAIN proposals
    BY DEF unapprove, unapprove_new, unapprove_old, IInv, TablesAgree, CountedConsent
  <2>2. consent' = [consent EXCEPT ![k] = @ \ {level}] /\ proposals' = proposals
    BY DEF unapprove
  <2>3. counted_levels(k)' \subseteq consent'[k]
    BY <2>1, <2>2 DEF IInv, CountedConsent
  <2> QED
    BY <2>1, <2>2, <2>3
<1> QED
  BY <1>1, CountedIsConsented, PTL DEF Spec, UnapproveRevokes

----------------------------------------------------------------------------
(* The refinement *)

\* The tables of the two specifications are written the same way.
LEMMA SameTables ==
    ASSUME NEW f, NEW k, NEW v
    PROVE  Consent!With(f, k, v) = Put(f, k, v) /\ Consent!Drop(f, k) = Without(f, k)
BY DEF Put, Without, Consent!With, Consent!Drop

LEMMA SameAuthorization ==
    ASSUME NEW S, NEW T, NEW trx, S \subseteq T, Authorized(S, trx)
    PROVE  Consent!Authorized(T, trx)
BY DEF Authorized, Consent!Authorized

LEMMA ConsentInit == Init => Consent!Init
<1> SUFFICES ASSUME Init PROVE Consent!Init
  OBVIOUS
<1>1. Typed
  BY TypedInit
<1>2. DOMAIN proposals \subseteq Keys /\ consent \in [DOMAIN proposals -> SUBSET Levels]
  BY <1>1 DEF Typed, TypeOK, IsTable
<1> QED
  BY <1>2 DEF Init, Consent!Init

\* An execution is an execution by consent: this is the step that needs the invariant.
LEMMA ConsentExec ==
    ASSUME IInv, NEW k \in Keys, exec(k)
    PROVE  Consent!Execute(k)
<1>1. /\ k \in DOMAIN proposals /\ k \notin DOMAIN deferred
      /\ Authorized(counted_levels(k), proposals[k])
      /\ deferred' = Put(deferred, k, proposals[k])
      /\ proposals' = Without(proposals, k) /\ consent' = Without(consent, k)
  BY DEF exec, erase_proposal
<1>2. counted_levels(k) \subseteq consent[k]
  BY <1>1 DEF IInv, CountedConsent
<1>3. Consent!Authorized(consent[k], proposals[k])
  BY <1>1, <1>2, SameAuthorization
<1> QED
  BY <1>1, <1>3, SameTables DEF Consent!Execute

LEMMA ConsentInvalidate ==
    ASSUME Typed, NEW account \in Accounts, invalidate(account)
    PROVE  [Consent!Next]_(Consent!vars)
<1>1. /\ consent' = [k \in DOMAIN consent |-> {l \in consent[k] : Actor[l] # account}]
      /\ UNCHANGED <<proposals, deferred>>
  BY DEF invalidate
<1>2. CASE account \in {Actor[l] : l \in Levels}
  BY <1>1, <1>2 DEF Consent!Next, Consent!RevokeAll
<1>3. CASE account \notin {Actor[l] : l \in Levels}
  <2>1. \A k \in DOMAIN consent : consent[k] \subseteq Levels
    BY DEF Typed, TypeOK, IsTable
  <2>2. \A k \in DOMAIN consent : {l \in consent[k] : Actor[l] # account} = consent[k]
    BY <1>3, <2>1
  <2>3. consent = [k \in DOMAIN consent |-> consent[k]]
    BY DEF Typed, TypeOK, IsTable
  <2>4. consent' = consent
    BY <1>1, <2>2, <2>3
  <2> QED
    BY <1>1, <2>4 DEF Consent!vars
<1> QED
  BY <1>2, <1>3

LEMMA ConsentStep ==
    ASSUME IInv, [Next]_vars
    PROVE  [Consent!Next]_(Consent!vars)
<1> Typed
  BY InvariantByKey
<1>1. ASSUME NEW k \in Keys, NEW requested \in Requests, NEW trx \in Transactions,
             propose(k, requested, trx)
      PROVE  Consent!Next
  <2>1. Consent!Propose(k, trx)
    BY <1>1, SameTables DEF propose, Consent!Propose
  <2> QED
    BY <2>1 DEF Consent!Next
<1>2. ASSUME NEW k \in Keys, NEW level \in Levels, NEW hash, approve(k, level, hash)
      PROVE  Consent!Next
  <2>1. k \in DOMAIN proposals
    BY <1>2 DEF approve, approve_new, approve_old, Typed, TablesAgree
  <2>2. Consent!Approve(k, level)
    BY <1>2, <2>1 DEF approve, Consent!Approve
  <2> QED
    BY <2>2 DEF Consent!Next
<1>3. ASSUME NEW k \in Keys, NEW level \in Levels, unapprove(k, level)
      PROVE  Consent!Next
  <2>1. k \in DOMAIN proposals
    BY <1>3 DEF unapprove, unapprove_new, unapprove_old, Typed, TablesAgree
  <2>2. Consent!Revoke(k, level)
    BY <1>3, <2>1 DEF unapprove, Consent!Revoke
  <2> QED
    BY <2>2 DEF Consent!Next
<1>4. ASSUME NEW k \in Keys, NEW canceler \in Accounts, cancel(k, canceler)
      PROVE  Consent!Next
  <2>1. Consent!Withdraw(k)
    BY <1>4, SameTables DEF cancel, erase_proposal, Consent!Withdraw
  <2> QED
    BY <2>1 DEF Consent!Next
<1>5. ASSUME NEW k \in Keys, exec(k)
      PROVE  Consent!Next
  BY <1>5, ConsentExec DEF Consent!Next
<1>6. ASSUME NEW k \in Keys, RunDeferred(k)
      PROVE  Consent!Next
  <2>1. Consent!Settle(k)
    BY <1>6, SameTables DEF RunDeferred, tables, Consent!Settle
  <2> QED
    BY <2>1 DEF Consent!Next
<1>7. ASSUME NEW account \in Accounts, invalidate(account)
      PROVE  [Consent!Next]_(Consent!vars)
  BY <1>7, ConsentInvalidate
<1>8. CASE Tick \/ UNCHANGED vars
  BY <1>8 DEF Tick, vars, tables, Consent!vars
<1> QED
  BY <1>1, <1>2, <1>3, <1>4, <1>5, <1>6, <1>7, <1>8 DEF Next

(***************************************************************************)
(* The contract, with two versions of its tables and times instead of      *)
(* revocations, implements the promise MsigConsent states: every execution *)
(* rests on levels that consent when it happens.                           *)
(***************************************************************************)
THEOREM ContractImplementsConsent ==
    ASSUME AskedOnce
    PROVE  Spec => ImplementsConsent
<1>1. Spec => []IInv
  BY CountedIsConsented
<1>2. IInv /\ [Next]_vars => [Consent!Next]_(Consent!vars)
  BY ConsentStep
<1> QED
  BY <1>1, <1>2, ConsentInit, PTL DEF Spec, ImplementsConsent, Consent!Spec
=============================================================================
