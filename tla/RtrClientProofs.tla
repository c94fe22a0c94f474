-------------------------- MODULE RtrClientProofs ---------------------------
(***************************************************************************)
(* Theorems about RtrClient for every set of VRPs, every number of         *)
(* versions the server publishes and every number of lost connections.     *)
(***************************************************************************)
EXTENDS RtrClient, FiniteSetTheorems, SequenceTheorems, TLAPS

-----------------------------------------------------------------------------
(* The inductive invariant *)

\* The PDUs a server whose last serial is n sends
Pdus(n) ==
         {CacheResponse, CacheReset, SerialNotify}
    \cup {EndOfData(k) : k \in 1 .. n}
    \cup {Prefix(v, f) : v \in VRPs, f \in BOOLEAN}

\* The server has a version to serve and the connection carries its PDUs.
Wire == Current >= 1 /\ toClient \in Seq(Pdus(Current))

\* The End of Data at position i ends the response that starts with the Cache Response
\* at position j, or with one already handled (j = 0): what was collected and what
\* is still to come make up the version whose serial it carries.
Response(j, i) ==
    /\ IF j = 0 THEN collecting ELSE toClient[j].type = "cache_response"
    /\ \A l \in j + 1 .. i - 1 : toClient[l].type = "prefix"
    /\ published[toClient[i].serial] =
          (IF j = 0 THEN pending ELSE {}) \cup {toClient[l].vrp : l \in j + 1 .. i - 1}

\* Every End of Data under way ends a whole response.
ResponsesWhole ==
    \A i \in 1 .. Len(toClient) :
        toClient[i].type = "end_of_data" => \E j \in 0 .. i - 1 : Response(j, i)

\* Full responses withdraw nothing.
NoWithdrawals ==
    \A i \in 1 .. Len(toClient) : toClient[i].type = "prefix" => toClient[i].announce

\* The table is that of its serial even while the next one is collected.
TableKept == serial # 0 => vrps = published[serial]

RInv == ResponsesWhole /\ NoWithdrawals /\ TableKept

-----------------------------------------------------------------------------
(* Facts about the operators *)

\* The PDUs of a finite set of VRPs list each of them, and nothing else.
LEMMA SetToSeqRange ==
    ASSUME NEW S, IsFiniteSet(S)
    PROVE  /\ Len(SetToSeq(S)) \in Nat /\ SetToSeq(S) \in Seq(S)
           /\ {SetToSeq(S)[i] : i \in 1 .. Len(SetToSeq(S))} = S
<1> DEFINE n == Cardinality(S)
           q == SetToSeq(S)
<1>1. n \in Nat /\ ExistsBijection(1 .. n, S)
  BY FS_CardinalityType
<1>2. PICK f \in Bijection(1 .. n, S) : TRUE
  BY <1>1 DEF ExistsBijection
<1>3. f \in [1 .. n -> S] /\ IsInjective(f)
  BY <1>2 DEF Bijection, Injection, IsInjective
<1>4. q \in [1 .. n -> S] /\ IsInjective(q)
  BY <1>3 DEF SetToSeq
<1>5. IsFiniteSet(1 .. n) /\ Cardinality(1 .. n) = n
  BY <1>1, FS_Interval
<1>6. q \in Injection(1 .. n, S)
  BY <1>4 DEF Injection, IsInjective
<1> HIDE DEF q
<1>7. q \in Surjection(1 .. n, S)
  BY <1>5, <1>6, FS_Injection
<1>8. \A x \in S : \E i \in 1 .. n : q[i] = x
  BY <1>7 DEF Surjection
<1>9. q \in Seq(S) /\ Len(q) = n
  BY <1>1, <1>4
<1> QED
  BY <1>1, <1>4, <1>8, <1>9 DEF q

\* The fields of a PDU, by its type
LEMMA PduFields ==
    ASSUME NEW n \in Nat, NEW x \in Pdus(n)
    PROVE  /\ x.type \in {"cache_response", "cache_reset", "serial_notify", "end_of_data", "prefix"}
           /\ x.type = "end_of_data" => x.serial \in 1 .. n
           /\ x.type = "prefix" => x.vrp \in VRPs /\ x.announce \in BOOLEAN
<1>1. CASE x \in {CacheResponse, CacheReset, SerialNotify}
  BY <1>1 DEF CacheResponse, CacheReset, SerialNotify
<1>2. CASE x \in {EndOfData(k) : k \in 1 .. n}
  BY <1>2 DEF EndOfData
<1>3. CASE x \in {Prefix(v, f) : v \in VRPs, f \in BOOLEAN}
  BY <1>3 DEF Prefix
<1> QED
  BY <1>1, <1>2, <1>3 DEF Pdus

\* The VRPs a server can publish are finitely many.
LEMMA VersionFinite ==
    ASSUME NEW S \in SUBSET VRPs
    PROVE  IsFiniteSet(S)
BY RtrAssumption, FS_Subset

\* The prefix PDUs of a version
LEMMA PrefixPdusShape ==
    ASSUME NEW S \in SUBSET VRPs, NEW f \in BOOLEAN, NEW n \in Nat
    PROVE  /\ PrefixPdus(S, f) \in Seq(Pdus(n)) /\ Len(PrefixPdus(S, f)) \in Nat
           /\ \A i \in 1 .. Len(PrefixPdus(S, f)) :
                 PrefixPdus(S, f)[i].type = "prefix" /\ PrefixPdus(S, f)[i].announce = f
           /\ {PrefixPdus(S, f)[i].vrp : i \in 1 .. Len(PrefixPdus(S, f))} = S
<1> DEFINE q == SetToSeq(S)
           P == PrefixPdus(S, f)
<1>1. Len(q) \in Nat /\ q \in Seq(S) /\ {q[i] : i \in 1 .. Len(q)} = S
  BY VersionFinite, SetToSeqRange
<1>2. P = [i \in 1 .. Len(q) |-> Prefix(q[i], f)]
  BY DEF PrefixPdus
<1> HIDE DEF q, P
<1>3. \A i \in 1 .. Len(q) : q[i] \in S
  BY <1>1
<1>4. \A i \in 1 .. Len(q) : Prefix(q[i], f) \in Pdus(n)
  BY <1>3 DEF Pdus
<1>5. P \in Seq(Pdus(n)) /\ Len(P) = Len(q)
  BY <1>1, <1>2, <1>4
<1>6. \A i \in 1 .. Len(q) : P[i].type = "prefix" /\ P[i].announce = f /\ P[i].vrp = q[i]
  BY <1>2 DEF Prefix
<1>7. {P[i].vrp : i \in 1 .. Len(q)} = {q[i] : i \in 1 .. Len(q)}
  BY <1>6
<1> QED
  BY <1>1, <1>5, <1>6, <1>7 DEF P

\* Whatever the query, the answer is made of PDUs of the last serial.
LEMMA AnswerType ==
    ASSUME RtrTypeOK, Wire, NEW q
    PROVE  Answer(q) \in Seq(Pdus(Current))
<1>0. Current \in Nat /\ Current >= 1 /\ published \in Seq(SUBSET VRPs)
  BY DEF RtrTypeOK, Wire, Current
<1>1. \A n \in 1 .. Current : published[n] \in SUBSET VRPs
  BY <1>0 DEF Current
<1>2. <<CacheResponse>> \in Seq(Pdus(Current)) /\ <<CacheReset>> \in Seq(Pdus(Current))
      /\ <<EndOfData(Current)>> \in Seq(Pdus(Current))
  BY <1>0 DEF Pdus
<1>3. FullTable \in Seq(Pdus(Current))
  <2>0. published[Current] \in SUBSET VRPs
    BY <1>0, <1>1
  <2>1. PrefixPdus(published[Current], TRUE) \in Seq(Pdus(Current))
    BY <1>0, <2>0, PrefixPdusShape, Zenon
  <2> QED
    BY <1>2, <2>1, ConcatProperties DEF FullTable
<1>4. ASSUME NEW n \in 1 .. Current PROVE Changes(n) \in Seq(Pdus(Current))
  <2>0. published[n] \ published[Current] \in SUBSET VRPs /\ published[Current] \ published[n] \in SUBSET VRPs
    BY <1>0, <1>1
  <2>1. PrefixPdus(published[n] \ published[Current], FALSE) \in Seq(Pdus(Current))
    BY <1>0, <2>0, PrefixPdusShape, Zenon
  <2>2. PrefixPdus(published[Current] \ published[n], TRUE) \in Seq(Pdus(Current))
    BY <1>0, <2>0, PrefixPdusShape, Zenon
  <2> QED
    BY <1>2, <2>1, <2>2, ConcatProperties DEF Changes
<1> QED
  BY <1>2, <1>3, <1>4 DEF Answer

\* A new version leaves the PDUs under way what they are.
LEMMA PdusGrow ==
    ASSUME NEW n \in Nat, NEW s \in Seq(Pdus(n))
    PROVE  s \in Seq(Pdus(n + 1))
<1>1. Pdus(n) \subseteq Pdus(n + 1)
  BY DEF Pdus
<1> QED
  BY <1>1

-----------------------------------------------------------------------------
(* Types *)

\* The initial states are well formed.
LEMMA TypeInit == RtrInit => RtrTypeOK /\ Wire
<1> SUFFICES ASSUME RtrInit PROVE RtrTypeOK /\ Wire
  OBVIOUS
<1>1. PICK S \in SUBSET VRPs : published = <<S>>
  BY DEF RtrInit
<1>2. published \in Seq(SUBSET VRPs) /\ Len(published) = 1
  BY <1>1
<1>3. 0 \in 0 .. Len(published) /\ 0 \in 0 .. MaxDrops /\ Len(published) >= 1
  BY <1>2, RtrAssumption
<1>4. toClient \in Seq(Pdus(Current))
  BY EmptySeq DEF RtrInit
<1> QED
  BY <1>2, <1>3, <1>4 DEF RtrInit, RtrTypeOK, Wire, Current

\* The head of the connection is a PDU and the rest stays well formed.
LEMMA HeadPdu ==
    ASSUME RtrTypeOK, Wire, toClient # << >>
    PROVE  /\ Current \in Nat /\ Head(toClient) \in Pdus(Current)
           /\ Tail(toClient) \in Seq(Pdus(Current))
BY DEF RtrTypeOK, Wire, Current

\* Every PDU handled, answer, version and lost connection keeps the types.
LEMMA TypeStep == RtrTypeOK /\ Wire /\ [RtrNext]_rtrVars => RtrTypeOK' /\ Wire'
<1> SUFFICES ASSUME RtrTypeOK, Wire, [RtrNext]_rtrVars PROVE RtrTypeOK' /\ Wire'
  OBVIOUS
<1>0. /\ vrps \subseteq VRPs /\ serial \in 0 .. Current /\ connected \in BOOLEAN
      /\ collecting \in BOOLEAN /\ pending \subseteq VRPs /\ published \in Seq(SUBSET VRPs)
      /\ drops \in 0 .. MaxDrops /\ Current \in Nat /\ Current >= 1
      /\ toClient \in Seq(Pdus(Current)) /\ MaxDrops \in Nat
  BY RtrAssumption DEF RtrTypeOK, Wire, Current
<1>1. ASSUME NEW S \in SUBSET VRPs, RtrPublish(S) PROVE RtrTypeOK' /\ Wire'
  <2>1. published' \in Seq(SUBSET VRPs) /\ Len(published') = Len(published) + 1
    BY <1>0, <1>1 DEF RtrPublish
  <2>2. Current' = Current + 1
    BY <2>1 DEF Current
  <2>3. toClient \in Seq(Pdus(Current + 1)) /\ SerialNotify \in Pdus(Current + 1)
    BY <1>0, PdusGrow DEF Pdus
  <2>4. toClient' \in Seq(Pdus(Current'))
    <3>1. Append(toClient, SerialNotify) \in Seq(Pdus(Current + 1))
      BY <2>3
    <3>2. toClient' \in {toClient, Append(toClient, SerialNotify)}
      BY <1>1 DEF RtrPublish
    <3> QED
      BY <2>2, <2>3, <3>1, <3>2
  <2>5. serial' \in 0 .. Current' /\ Current' >= 1
    BY <1>0, <1>1, <2>2 DEF RtrPublish, cache
  <2> QED
    BY <1>0, <1>1, <2>1, <2>4, <2>5 DEF RtrPublish, cache, session, RtrTypeOK, Wire
<1>2. ASSUME ServerAnswers PROVE RtrTypeOK' /\ Wire'
  <2>1. toClient' \in Seq(Pdus(Current))
    BY <1>0, <1>2, AnswerType, ConcatProperties DEF ServerAnswers
  <2> QED
    BY <1>0, <1>2, <2>1 DEF ServerAnswers, cache, session, RtrTypeOK, Wire, Current
<1>3. ASSUME RtrConnect PROVE RtrTypeOK' /\ Wire'
  <2>1. toClient' \in Seq(Pdus(Current))
    BY <1>3, EmptySeq DEF RtrConnect
  <2> QED
    BY <1>0, <1>3, <2>1 DEF RtrConnect, cache, RtrTypeOK, Wire, Current
<1>4. ASSUME Drop PROVE RtrTypeOK' /\ Wire'
  <2>1. drops' \in 0 .. MaxDrops
    BY <1>0, <1>4 DEF Drop
  <2>2. toClient' \in Seq(Pdus(Current))
    BY <1>4, EmptySeq DEF Drop
  <2> QED
    BY <1>0, <1>4, <2>1, <2>2 DEF Drop, cache, RtrTypeOK, Wire, Current
<1>5. ASSUME HandlePdu PROVE RtrTypeOK' /\ Wire'
  <2> DEFINE pdu == Head(toClient)
  <2>0. /\ pdu \in Pdus(Current) /\ toClient' \in Seq(Pdus(Current))
        /\ UNCHANGED <<connected, published, drops>>
        /\ OnCacheResponse(pdu) \/ OnPrefix(pdu) \/ OnEndOfData(pdu) \/ OnCacheReset(pdu) \/ OnSerialNotify(pdu)
    BY <1>5, HeadPdu DEF HandlePdu
  <2> HIDE DEF pdu
  <2>1. vrps' \subseteq VRPs /\ serial' \in 0 .. Current /\ pending' \subseteq VRPs /\ collecting' \in BOOLEAN
    <3>1. CASE OnCacheResponse(pdu)
      BY <1>0, <3>1 DEF OnCacheResponse, cache
    <3>2. CASE OnPrefix(pdu)
      <4>1. pdu.vrp \in VRPs
        BY <1>0, <2>0, <3>2, PduFields DEF OnPrefix
      <4> QED
        BY <1>0, <3>2, <4>1 DEF OnPrefix, ApplyDelta, cache
    <3>3. CASE OnEndOfData(pdu)
      <4>1. pdu.serial \in 0 .. Current
        BY <1>0, <2>0, <3>3, PduFields DEF OnEndOfData
      <4> QED
        BY <1>0, <3>3, <4>1 DEF OnEndOfData, Reset, ApplyDelta
    <3>4. CASE OnCacheReset(pdu)
      BY <1>0, <3>4 DEF OnCacheReset, cache
    <3>5. CASE OnSerialNotify(pdu)
      BY <1>0, <3>5 DEF OnSerialNotify, cache
    <3> QED
      BY <2>0, <3>1, <3>2, <3>3, <3>4, <3>5
  <2> QED
    BY <1>0, <2>0, <2>1 DEF RtrTypeOK, Wire, Current
<1>6. ASSUME UNCHANGED rtrVars PROVE RtrTypeOK' /\ Wire'
  BY <1>0, <1>6 DEF rtrVars, cache, session, RtrTypeOK, Wire, Current
<1> QED
  BY <1>1, <1>2, <1>3, <1>4, <1>5, <1>6 DEF RtrNext

\* The client's table, its serial and what it collects stay well formed, and it never
\* holds a serial the server has not published, whether or not the server sends deltas.
THEOREM TypeCorrect == RtrSpec => []RtrTypeOK
BY TypeInit, TypeStep, PTL DEF RtrSpec

-----------------------------------------------------------------------------
(* The connection *)

\* A full response: Cache Response, the VRPs of the last version, End of Data
LEMMA FullTableShape ==
    ASSUME RtrTypeOK, Wire
    PROVE  /\ Len(FullTable) \in Nat /\ Len(FullTable) >= 2
           /\ FullTable[1].type = "cache_response"
           /\ \A i \in 2 .. Len(FullTable) - 1 :
                 FullTable[i].type = "prefix" /\ FullTable[i].announce
           /\ FullTable[Len(FullTable)].type = "end_of_data"
           /\ FullTable[Len(FullTable)].serial = Current
           /\ {FullTable[i].vrp : i \in 2 .. Len(FullTable) - 1} = published[Current]
<1> DEFINE P == PrefixPdus(published[Current], TRUE)
           k == Len(P)
           A == <<CacheResponse>> \o P
           F == A \o <<EndOfData(Current)>>
           D == Pdus(Current)
<1>0. Current \in Nat /\ Current >= 1 /\ published[Current] \in SUBSET VRPs
  BY DEF RtrTypeOK, Wire, Current
<1>1. /\ P \in Seq(D) /\ k \in Nat
      /\ \A i \in 1 .. k : P[i].type = "prefix" /\ P[i].announce = TRUE
      /\ {P[i].vrp : i \in 1 .. k} = published[Current]
  BY <1>0, PrefixPdusShape, Zenon
<1>2. FullTable = F
  BY DEF FullTable
<1>3. CacheResponse \in D /\ EndOfData(Current) \in D
  BY <1>0 DEF Pdus
<1> HIDE DEF P, D
<1>4. A \in Seq(D) /\ Len(A) = k + 1 /\ A[1] = CacheResponse /\ \A i \in 1 .. k : A[i + 1] = P[i]
  BY <1>1, <1>3 DEF k
<1> HIDE DEF A, k
<1>5. /\ Len(F) = k + 2 /\ F[k + 2] = EndOfData(Current)
      /\ \A i \in 1 .. k + 1 : F[i] = A[i]
  BY <1>1, <1>3, <1>4
<1> HIDE DEF F
<1>6. F[1] = CacheResponse /\ \A i \in 1 .. k : F[i + 1] = P[i]
  BY <1>1, <1>4, <1>5
<1>7. \A i \in 2 .. k + 1 : i - 1 \in 1 .. k /\ F[i] = P[i - 1]
  BY <1>1, <1>6
<1>8. {F[i].vrp : i \in 2 .. k + 1} = {P[i].vrp : i \in 1 .. k}
  <2>1. ASSUME NEW x \in {F[i].vrp : i \in 2 .. k + 1} PROVE x \in {P[i].vrp : i \in 1 .. k}
    BY <1>7
  <2>2. ASSUME NEW i \in 1 .. k PROVE P[i].vrp \in {F[j].vrp : j \in 2 .. k + 1}
    <3>1. i + 1 \in 2 .. k + 1 /\ F[i + 1] = P[i]
      BY <1>1, <1>6
    <3> QED
      BY <3>1
  <2> QED
    BY <2>1, <2>2
<1>9. (k + 2) - 1 = k + 1 /\ k + 2 \in Nat /\ k + 2 >= 2
  BY <1>1
<1>10. \A i \in 2 .. k + 1 : F[i].type = "prefix" /\ F[i].announce
  BY <1>1, <1>7
<1>11. /\ CacheResponse.type = "cache_response"
       /\ EndOfData(Current).type = "end_of_data" /\ EndOfData(Current).serial = Current
  BY DEF CacheResponse, EndOfData
<1>12. Len(F) \in Nat /\ Len(F) >= 2 /\ Len(F) - 1 = k + 1 /\ Len(F) = k + 2
  BY <1>5, <1>9
<1>13. {F[i].vrp : i \in 2 .. Len(F) - 1} = published[Current]
  BY <1>1, <1>8, <1>12
<1>14. \A i \in 2 .. Len(F) - 1 : F[i].type = "prefix" /\ F[i].announce
  BY <1>10, <1>12
<1>15. F[Len(F)] = EndOfData(Current)
  BY <1>5, <1>12
<1> QED
  BY <1>2, <1>6, <1>11, <1>12, <1>13, <1>14, <1>15

\* The PDUs s are added at the end of the connection.
Adds(s) ==
    /\ Len(toClient) \in Nat /\ Len(s) \in Nat /\ Len(toClient') = Len(toClient) + Len(s)
    /\ \A i \in 1 .. Len(toClient) : toClient'[i] = toClient[i]
    /\ \A i \in 1 .. Len(s) : toClient'[Len(toClient) + i] = s[i]

\* The client takes the first PDU off the connection.
Takes ==
    /\ Len(toClient) \in Nat /\ Len(toClient) >= 1 /\ Len(toClient') = Len(toClient) - 1
    /\ \A i \in 1 .. Len(toClient) - 1 : toClient'[i] = toClient[i + 1]

\* A concatenation adds.
LEMMA AddShape ==
    ASSUME NEW D, toClient \in Seq(D), NEW s \in Seq(D), toClient' = toClient \o s
    PROVE  Adds(s)
BY DEF Adds

\* Reading the head takes.
LEMMA TakeShape ==
    ASSUME NEW D, toClient \in Seq(D), toClient # << >>, toClient' = Tail(toClient)
    PROVE  Takes /\ Head(toClient) = toClient[1]
BY DEF Takes

\* Versions stay what they were published as.
Keeps == \A n \in 1 .. Current : published'[n] = published[n]

\* What is added behind a response leaves it whole.
LEMMA ResponseKept ==
    ASSUME NEW s, Adds(s), Keeps, pending' = pending, collecting' = collecting,
           NEW i \in 1 .. Len(toClient), toClient[i].serial \in 1 .. Current,
           NEW j \in 0 .. i - 1, Response(j, i)
    PROVE  Response(j, i)'
<1>0. Len(toClient) \in Nat /\ \A l \in 1 .. Len(toClient) : toClient'[l] = toClient[l]
  BY DEF Adds
<1>1. /\ toClient'[i] = toClient[i] /\ (j # 0 => toClient'[j] = toClient[j])
      /\ \A l \in j + 1 .. i - 1 : toClient'[l] = toClient[l]
  BY <1>0
<1>2. {toClient'[l].vrp : l \in j + 1 .. i - 1} = {toClient[l].vrp : l \in j + 1 .. i - 1}
  BY <1>1
<1>3. published'[toClient'[i].serial] = published[toClient[i].serial]
  BY <1>1 DEF Keeps
<1> QED
  BY <1>1, <1>2, <1>3 DEF Response

-----------------------------------------------------------------------------
(* Steps of the server *)

\* The version and the PDUs under way after a step of the server that adds s, when
\* every End of Data in s ends a response within s.
LEMMA ServerStep ==
    ASSUME RtrTypeOK, Wire, RInv, NEW s, Adds(s), Keeps, NEW n, n = Len(toClient),
           vrps' = vrps, serial' = serial, pending' = pending, collecting' = collecting,
           \A i \in 1 .. Len(s) : s[i].type = "prefix" => s[i].announce,
           \A i \in 1 .. Len(s) : s[i].type = "end_of_data" =>
              \E j \in 0 .. (n + i) - 1 : Response(j, n + i)'
    PROVE  RInv'
<1>0. /\ n \in Nat /\ Len(s) \in Nat /\ Len(toClient') = n + Len(s)
      /\ \A i \in 1 .. n : toClient'[i] = toClient[i]
      /\ \A i \in 1 .. Len(s) : toClient'[n + i] = s[i]
  BY DEF Adds
<1>1. ASSUME NEW i \in 1 .. Len(toClient')
      PROVE  (i \in 1 .. n) \/ (\E k \in 1 .. Len(s) : i = n + k)
  <2>1. CASE i <= n
    BY <1>0, <2>1
  <2>2. CASE i > n
    <3>1. i - n \in 1 .. Len(s) /\ i = n + (i - n)
      BY <1>0, <2>2
    <3> QED
      BY <3>1
  <2> QED
    BY <1>0, <2>1, <2>2
<1>2. ResponsesWhole'
  <2> SUFFICES ASSUME NEW i \in 1 .. Len(toClient'), toClient'[i].type = "end_of_data"
               PROVE  \E j \in 0 .. i - 1 : Response(j, i)'
    BY DEF ResponsesWhole
  <2>1. CASE i \in 1 .. n
    <3>1. toClient'[i] = toClient[i] /\ toClient[i] \in Pdus(Current) /\ Current \in Nat
      BY <1>0, <2>1 DEF RtrTypeOK, Wire, Current
    <3>2. toClient[i].serial \in 1 .. Current /\ toClient[i].type = "end_of_data"
      BY <3>1, PduFields
    <3>3. PICK j \in 0 .. i - 1 : Response(j, i)
      BY <2>1, <3>2 DEF RInv, ResponsesWhole
    <3>4. Response(j, i)'
      BY <2>1, <3>2, <3>3, ResponseKept
    <3> QED
      BY <3>4
  <2>2. ASSUME NEW k \in 1 .. Len(s), i = n + k
        PROVE  \E j \in 0 .. i - 1 : Response(j, i)'
    <3>1. s[k].type = "end_of_data"
      BY <1>0, <2>2
    <3> QED
      BY <2>2, <3>1
  <2> QED
    BY <1>1, <2>1, <2>2
<1>3. NoWithdrawals'
  <2> SUFFICES ASSUME NEW i \in 1 .. Len(toClient'), toClient'[i].type = "prefix"
               PROVE  toClient'[i].announce
    BY DEF NoWithdrawals
  <2>1. CASE i \in 1 .. n
    BY <1>0, <2>1 DEF RInv, NoWithdrawals
  <2>2. ASSUME NEW k \in 1 .. Len(s), i = n + k PROVE toClient'[i].announce
    BY <1>0, <2>2
  <2> QED
    BY <1>1, <2>1, <2>2
<1>4. TableKept'
  BY DEF RInv, TableKept, Keeps, RtrTypeOK
<1> QED
  BY <1>2, <1>3, <1>4 DEF RInv

\* The answer to a Reset Query is a whole response wherever it lands.
LEMMA FullTableWhole ==
    ASSUME RtrTypeOK, Wire, Adds(FullTable), Keeps, NEW n, n = Len(toClient),
           NEW i \in 1 .. Len(FullTable), FullTable[i].type = "end_of_data"
    PROVE  \E j \in 0 .. (n + i) - 1 : Response(j, n + i)'
<1> DEFINE m == Len(FullTable)
           F == FullTable
<1>0. /\ n \in Nat /\ m \in Nat /\ m >= 2
      /\ \A l \in 1 .. m : toClient'[n + l] = F[l]
      /\ Current \in 1 .. Current
  BY FullTableShape DEF Adds, Wire, RtrTypeOK, Current
<1>1. /\ F[1].type = "cache_response" /\ F[m].serial = Current
      /\ \A l \in 2 .. m - 1 : F[l].type = "prefix"
      /\ {F[l].vrp : l \in 2 .. m - 1} = published[Current]
  BY FullTableShape
<1> HIDE DEF F, m
<1>2. i = m
  <2>0. i \in 1 .. m
    BY DEF m
  <2>1. i # 1 /\ ~(i \in 2 .. m - 1)
    BY <1>1 DEF F
  <2> QED
    BY <1>0, <2>0, <2>1
<1>3. \A l \in n + 2 .. (n + m) - 1 :
         l - n \in 2 .. m - 1 /\ toClient'[l] = F[l - n]
  <2> SUFFICES ASSUME NEW l \in n + 2 .. (n + m) - 1
               PROVE  l - n \in 2 .. m - 1 /\ toClient'[l] = F[l - n]
    OBVIOUS
  <2>1. l - n \in 2 .. m - 1 /\ l - n \in 1 .. m /\ n + (l - n) = l
    BY <1>0
  <2>2. toClient'[n + (l - n)] = F[l - n]
    BY <1>0, <2>1
  <2> QED
    BY <2>1, <2>2
<1>4. {toClient'[l].vrp : l \in n + 2 .. (n + m) - 1} = published[Current]
  <2>1. ASSUME NEW l \in n + 2 .. (n + m) - 1 PROVE toClient'[l].vrp \in {F[k].vrp : k \in 2 .. m - 1}
    BY <1>3
  <2>2. ASSUME NEW k \in 2 .. m - 1
        PROVE  F[k].vrp \in {toClient'[l].vrp : l \in n + 2 .. (n + m) - 1}
    <3>1. n + k \in n + 2 .. (n + m) - 1 /\ k \in 1 .. m
      BY <1>0
    <3> QED
      BY <1>0, <3>1
  <2> QED
    BY <1>1, <2>1, <2>2
<1>5. /\ n + 1 \in 0 .. (n + m) - 1 /\ n + 1 # 0 /\ (n + 1) + 1 = n + 2
      /\ toClient'[n + 1] = F[1] /\ toClient'[n + m] = F[m]
  BY <1>0
<1>6. published'[toClient'[n + m].serial] = published[Current]
  BY <1>0, <1>1, <1>5 DEF Keeps
<1>7. Response(n + 1, n + i)'
  <2>1. toClient'[n + 1].type = "cache_response"
    BY <1>1, <1>5
  <2>2. \A l \in (n + 1) + 1 .. (n + m) - 1 : toClient'[l].type = "prefix"
    BY <1>1, <1>3, <1>5
  <2>3. published'[toClient'[n + m].serial] = {} \cup {toClient'[l].vrp : l \in (n + 1) + 1 .. (n + m) - 1}
    BY <1>4, <1>5, <1>6
  <2> QED
    BY <1>2, <1>5, <2>1, <2>2, <2>3 DEF Response
<1> QED
  BY <1>2, <1>5, <1>7

-----------------------------------------------------------------------------
(* Steps of the client *)

\* A response whose start is still on the connection moves to the front.
LEMMA ResponseShifted ==
    ASSUME Takes, published' = published,
           NEW i \in 2 .. Len(toClient), NEW j \in 2 .. i - 1, Response(j, i)
    PROVE  \E k \in 0 .. (i - 1) - 1 : Response(k, i - 1)'
<1>0. /\ Len(toClient) \in Nat
      /\ \A l \in 1 .. Len(toClient) - 1 : toClient'[l] = toClient[l + 1]
  BY DEF Takes
<1> DEFINE h == i - 1
           g == j - 1
<1>1. /\ h \in 1 .. Len(toClient) - 1 /\ h + 1 = i /\ g \in 1 .. Len(toClient) - 1 /\ g + 1 = j
      /\ g \in 0 .. h - 1 /\ g # 0 /\ j # 0
  BY <1>0
<1> HIDE DEF h, g
<1>2. toClient'[h] = toClient[i] /\ toClient'[g] = toClient[j]
  BY <1>0, <1>1
<1>3. \A l \in g + 1 .. h - 1 : l + 1 \in j + 1 .. i - 1 /\ toClient'[l] = toClient[l + 1]
  BY <1>0, <1>1
<1>4. {toClient'[l].vrp : l \in g + 1 .. h - 1} = {toClient[l].vrp : l \in j + 1 .. i - 1}
  <2>1. ASSUME NEW l \in g + 1 .. h - 1 PROVE toClient'[l].vrp \in {toClient[k].vrp : k \in j + 1 .. i - 1}
    BY <1>3
  <2>2. ASSUME NEW k \in j + 1 .. i - 1
        PROVE  toClient[k].vrp \in {toClient'[l].vrp : l \in g + 1 .. h - 1}
    <3> DEFINE l == k - 1
    <3>1. l \in g + 1 .. h - 1 /\ l + 1 = k
      BY <1>1
    <3>2. toClient'[l] = toClient[k]
      BY <1>3, <3>1
    <3> QED
      BY <3>1, <3>2
  <2> QED
    BY <2>1, <2>2
<1>5. Response(g, h)'
  BY <1>1, <1>2, <1>3, <1>4 DEF Response
<1> QED
  BY <1>1, <1>5 DEF h

\* Taking a PDU off the connection leaves what follows it whole: a response that the PDU
\* belongs to goes on with what the client has collected.
LEMMA ClientWhole ==
    ASSUME RtrTypeOK, Wire, RInv, Takes, published' = published,
           \/ toClient[1].type = "cache_response" /\ collecting' /\ pending' = {}
           \/ toClient[1].type = "prefix" /\ collecting' = collecting
              /\ pending' = pending \cup {toClient[1].vrp}
           \/ toClient[1].type \in {"end_of_data", "cache_reset", "serial_notify"}
    PROVE  ResponsesWhole' /\ NoWithdrawals'
<1>0. /\ Len(toClient) \in Nat /\ Len(toClient) >= 1 /\ Len(toClient') = Len(toClient) - 1
      /\ \A l \in 1 .. Len(toClient) - 1 : toClient'[l] = toClient[l + 1]
  BY DEF Takes
<1>1. NoWithdrawals'
  <2> SUFFICES ASSUME NEW i \in 1 .. Len(toClient'), toClient'[i].type = "prefix"
               PROVE  toClient'[i].announce
    BY DEF NoWithdrawals
  <2>1. i + 1 \in 1 .. Len(toClient) /\ toClient'[i] = toClient[i + 1]
    BY <1>0
  <2> QED
    BY <2>1 DEF RInv, NoWithdrawals
<1>2. ResponsesWhole'
  <2> SUFFICES ASSUME NEW h \in 1 .. Len(toClient'), toClient'[h].type = "end_of_data"
               PROVE  \E k \in 0 .. h - 1 : Response(k, h)'
    BY DEF ResponsesWhole
  <2> DEFINE i == h + 1
  <2>1. i \in 2 .. Len(toClient) /\ i \in 1 .. Len(toClient) /\ i - 1 = h /\ h \in Nat
        /\ toClient'[h] = toClient[i] /\ h >= 1
    BY <1>0
  <2> HIDE DEF i
  <2>2. PICK j \in 0 .. i - 1 : Response(j, i)
    BY <2>1 DEF RInv, ResponsesWhole
  <2>3. CASE j >= 2
    <3>1. j \in 2 .. i - 1
      BY <2>1, <2>3
    <3>2. \E k \in 0 .. (i - 1) - 1 : Response(k, i - 1)'
      BY <2>1, <2>2, <3>1, ResponseShifted
    <3>3. \A x : x = h => ((\E k \in 0 .. x - 1 : Response(k, x)') => \E k \in 0 .. h - 1 : Response(k, h)')
      OBVIOUS
    <3> QED
      BY <2>1, <3>2, <3>3
  <2>4. ASSUME j = 0 \/ j = 1 PROVE Response(0, h)'
    <3>1. \A l \in 1 .. h - 1 : l + 1 \in 2 .. i - 1 /\ toClient'[l] = toClient[l + 1]
      BY <1>0, <2>1
    <3>2. {toClient'[l].vrp : l \in 1 .. h - 1} = {toClient[l].vrp : l \in 2 .. i - 1}
      <4>1. ASSUME NEW l \in 1 .. h - 1 PROVE toClient'[l].vrp \in {toClient[k].vrp : k \in 2 .. i - 1}
        BY <3>1
      <4>2. ASSUME NEW k \in 2 .. i - 1
            PROVE  toClient[k].vrp \in {toClient'[l].vrp : l \in 1 .. h - 1}
        <5> DEFINE l == k - 1
        <5>1. l \in 1 .. h - 1 /\ l + 1 = k
          BY <2>1
        <5>2. toClient'[l] = toClient[k]
          BY <3>1, <5>1
        <5> QED
          BY <5>1, <5>2
      <4> QED
        BY <4>1, <4>2
    <3>3. \A l \in 2 .. i - 1 : toClient[l].type = "prefix"
      BY <2>1, <2>2, <2>4 DEF Response
    <3>4. collecting' /\ published[toClient[i].serial] = pending' \cup {toClient[l].vrp : l \in 2 .. i - 1}
      <4>1. CASE j = 1
        BY <2>2, <4>1 DEF Response
      <4>2. CASE j = 0
        <5>1. /\ collecting /\ \A l \in 0 + 1 .. i - 1 : toClient[l].type = "prefix"
              /\ published[toClient[i].serial] = pending \cup {toClient[l].vrp : l \in 0 + 1 .. i - 1}
          BY <2>2, <4>2 DEF Response
        <5>2. 1 \in 0 + 1 .. i - 1
          BY <2>1
        <5>3. {toClient[l].vrp : l \in 0 + 1 .. i - 1}
                 = {toClient[1].vrp} \cup {toClient[l].vrp : l \in 2 .. i - 1}
          <6>1. \A l \in 0 + 1 .. i - 1 : l = 1 \/ l \in 2 .. i - 1
            BY <2>1
          <6>2. \A l \in 2 .. i - 1 : l \in 0 + 1 .. i - 1
            BY <2>1
          <6> QED
            BY <5>2, <6>1, <6>2
        <5> QED
          BY <5>1, <5>2, <5>3
      <4> QED
        BY <2>4, <4>1, <4>2
    <3>5. \A l \in 0 + 1 .. h - 1 : toClient'[l].type = "prefix"
      BY <3>1, <3>3
    <3>6. published'[toClient'[h].serial] = pending' \cup {toClient'[l].vrp : l \in 0 + 1 .. h - 1}
      <4>1. 0 + 1 = 1
        OBVIOUS
      <4>2. {toClient'[l].vrp : l \in 0 + 1 .. h - 1} = {toClient[l].vrp : l \in 2 .. i - 1}
        BY <3>2, <4>1
      <4>3. published'[toClient'[h].serial] = published[toClient[i].serial]
        BY <2>1
      <4> QED
        BY <3>4, <4>2, <4>3
    <3> QED
      BY <3>4, <3>5, <3>6 DEF Response
  <2>5. 0 \in 0 .. h - 1
    BY <2>1
  <2> QED
    BY <2>1, <2>2, <2>3, <2>4, <2>5
<1> QED
  BY <1>1, <1>2

\* The client's steps keep the invariant: it replaces the table only by a whole version.
LEMMA ClientStep ==
    ASSUME RtrTypeOK, Wire, RInv, HandlePdu
    PROVE  RInv'
<1> DEFINE pdu == Head(toClient)
<1>0. /\ toClient \in Seq(Pdus(Current)) /\ toClient # << >> /\ toClient' = Tail(toClient)
      /\ published' = published
      /\ OnCacheResponse(pdu) \/ OnPrefix(pdu) \/ OnEndOfData(pdu) \/ OnCacheReset(pdu) \/ OnSerialNotify(pdu)
  BY DEF HandlePdu, Wire
<1>1. Takes /\ pdu = toClient[1]
  BY <1>0, TakeShape
<1>2. pdu \in Pdus(Current) /\ Current \in Nat
  BY <1>0, HeadPdu
<1> HIDE DEF pdu
<1>3. 1 \in 1 .. Len(toClient)
  BY <1>1 DEF Takes
<1>a. ASSUME UNCHANGED cache PROVE TableKept'
  BY <1>0, <1>a DEF RInv, TableKept, cache
<1>4. CASE OnCacheResponse(pdu)
  <2>1. toClient[1].type = "cache_response" /\ collecting' /\ pending' = {} /\ UNCHANGED cache
    BY <1>1, <1>4 DEF OnCacheResponse
  <2> QED
    BY <1>0, <1>1, <1>a, <2>1, ClientWhole DEF RInv
<1>5. CASE OnPrefix(pdu)
  <2>1. pdu.type = "prefix" /\ pdu.announce
    BY <1>1, <1>3, <1>5 DEF OnPrefix, RInv, NoWithdrawals
  <2>2. collecting' = collecting /\ pending' = pending \cup {toClient[1].vrp} /\ UNCHANGED cache
    BY <1>1, <1>5, <2>1 DEF OnPrefix
  <2> QED
    BY <1>0, <1>1, <1>a, <2>1, <2>2, ClientWhole DEF RInv
<1>6. CASE OnEndOfData(pdu)
  <2>1. pdu.type = "end_of_data"
    BY <1>6 DEF OnEndOfData
  <2>2. PICK j \in 0 .. 1 - 1 : Response(j, 1)
    BY <1>1, <1>3, <2>1 DEF RInv, ResponsesWhole
  <2>3. j = 0
    OBVIOUS
  <2>4. /\ collecting
        /\ published[pdu.serial] = pending \cup {toClient[l].vrp : l \in 0 + 1 .. 1 - 1}
    BY <1>1, <2>2, <2>3 DEF Response
  <2>5. \A l \in 0 + 1 .. 1 - 1 : FALSE
    OBVIOUS
  <2>6. published[pdu.serial] = pending
    BY <2>4, <2>5
  <2>7. vrps' = pending /\ serial' = pdu.serial
    BY <1>6, <2>4 DEF OnEndOfData, Reset
  <2>8. TableKept'
    BY <1>0, <2>6, <2>7 DEF TableKept
  <2> QED
    BY <1>0, <1>1, <2>1, <2>8, ClientWhole DEF RInv
<1>7. CASE OnCacheReset(pdu)
  <2>1. toClient[1].type = "cache_reset" /\ UNCHANGED cache
    BY <1>1, <1>7 DEF OnCacheReset
  <2> QED
    BY <1>0, <1>1, <1>a, <2>1, ClientWhole DEF RInv
<1>8. CASE OnSerialNotify(pdu)
  <2>1. toClient[1].type = "serial_notify" /\ UNCHANGED cache
    BY <1>1, <1>8 DEF OnSerialNotify
  <2> QED
    BY <1>0, <1>1, <1>a, <2>1, ClientWhole DEF RInv
<1> QED
  BY <1>0, <1>4, <1>5, <1>6, <1>7, <1>8

\* A connection that starts or is lost carries nothing.
LEMMA EmptyConnection ==
    ASSUME toClient = << >> PROVE ResponsesWhole /\ NoWithdrawals
<1>1. Len(toClient) = 0
  OBVIOUS
<1>2. \A i \in 1 .. Len(toClient) : FALSE
  BY <1>1
<1> QED
  BY <1>2 DEF ResponsesWhole, NoWithdrawals

\* Every step keeps the invariant, with a server that sends no deltas.
LEMMA RInvStep == ~Deltas /\ RtrTypeOK /\ Wire /\ RInv /\ [RtrNext]_rtrVars => RInv'
<1> SUFFICES ASSUME ~Deltas, RtrTypeOK, Wire, RInv, [RtrNext]_rtrVars PROVE RInv'
  OBVIOUS
<1>0. /\ toClient \in Seq(Pdus(Current)) /\ published \in Seq(SUBSET VRPs) /\ Current \in Nat
      /\ Len(toClient) \in Nat
  BY DEF RtrTypeOK, Wire, Current
<1>a. published' = published => Keeps
  BY DEF Keeps
<1>b. ASSUME published' = published, vrps' = vrps, serial' = serial PROVE TableKept'
  BY <1>b DEF RInv, TableKept
<1>c. ASSUME Keeps, UNCHANGED <<toClient, vrps, serial, pending, collecting>> PROVE RInv'
  <2>1. \A i \in 1 .. Len(<< >>) : FALSE
    OBVIOUS
  <2>2. Adds(<< >>)
    BY <1>0, <1>c DEF Adds
  <2> QED
    BY <1>c, <2>1, <2>2, ServerStep
<1>1. ASSUME NEW S \in SUBSET VRPs, RtrPublish(S) PROVE RInv'
  <2>1. Keeps
    BY <1>0, <1>1 DEF RtrPublish, Keeps, Current
  <2>2. UNCHANGED <<vrps, serial, pending, collecting>>
    BY <1>1 DEF RtrPublish, cache, session
  <2>3. CASE toClient' = Append(toClient, SerialNotify)
    <3>1. SerialNotify \in Pdus(Current) /\ SerialNotify.type = "serial_notify"
      BY DEF Pdus, SerialNotify
    <3>2. Adds(<<SerialNotify>>)
      BY <1>0, <2>3, <3>1 DEF Adds
    <3>3. \A i \in 1 .. Len(<<SerialNotify>>) : <<SerialNotify>>[i].type = "serial_notify"
      BY <3>1
    <3> QED
      BY <2>1, <2>2, <3>2, <3>3, ServerStep
  <2>4. CASE toClient' = toClient
    BY <1>c, <2>1, <2>2, <2>4
  <2> QED
    BY <1>1, <2>3, <2>4 DEF RtrPublish
<1>2. ASSUME ServerAnswers PROVE RInv'
  <2> DEFINE q == Head(toServer)
  <2>0. /\ UNCHANGED <<published, vrps, serial, pending, collecting>>
        /\ toClient' = toClient \o Answer(q)
    BY <1>2 DEF ServerAnswers, cache, session
  <2>1. Answer(q) \in Seq(Pdus(Current)) /\ Keeps
    BY <1>a, <2>0, AnswerType
  <2>2. Adds(Answer(q))
    BY <1>0, <2>0, <2>1, AddShape
  <2> HIDE DEF q
  <2>3. CASE Answer(q) = FullTable
    <3>0. Adds(FullTable)
      BY <2>2, <2>3
    <3>1. \A i \in 1 .. Len(FullTable) : FullTable[i].type = "prefix" => FullTable[i].announce
      <4> SUFFICES ASSUME NEW i \in 1 .. Len(FullTable), FullTable[i].type = "prefix"
                   PROVE  FullTable[i].announce
        OBVIOUS
      <4>1. i = 1 \/ i = Len(FullTable) \/ i \in 2 .. Len(FullTable) - 1
        BY FullTableShape
      <4> QED
        BY <4>1, FullTableShape
    <3> DEFINE n == Len(toClient)
    <3>2. PICK k : k = n
      OBVIOUS
    <3>3. \A i \in 1 .. Len(FullTable) : FullTable[i].type = "end_of_data" =>
             \E j \in 0 .. (k + i) - 1 : Response(j, k + i)'
      BY <2>1, <3>0, <3>2, FullTableWhole
    <3> QED
      BY <2>0, <2>1, <3>0, <3>1, <3>2, <3>3, ServerStep
  <2>4. CASE Answer(q) = <<CacheReset>>
    <3>1. \A i \in 1 .. Len(<<CacheReset>>) : <<CacheReset>>[i].type = "cache_reset"
      BY DEF CacheReset
    <3>2. Adds(<<CacheReset>>)
      BY <2>2, <2>4
    <3> QED
      BY <2>0, <2>1, <3>1, <3>2, ServerStep
  <2> QED
    BY <2>3, <2>4 DEF Answer
<1>3. ASSUME RtrConnect PROVE RInv'
  <2>1. toClient' = << >> /\ TableKept'
    BY <1>3, <1>b DEF RtrConnect, cache
  <2>2. ResponsesWhole' /\ NoWithdrawals'
    <3>1. \A i \in 1 .. Len(toClient') : FALSE
      BY <2>1
    <3> QED
      BY <3>1 DEF ResponsesWhole, NoWithdrawals
  <2> QED
    BY <2>1, <2>2 DEF RInv
<1>4. ASSUME Drop PROVE RInv'
  <2>1. toClient' = << >> /\ TableKept'
    BY <1>4, <1>b DEF Drop, cache
  <2>2. ResponsesWhole' /\ NoWithdrawals'
    <3>1. \A i \in 1 .. Len(toClient') : FALSE
      BY <2>1
    <3> QED
      BY <3>1 DEF ResponsesWhole, NoWithdrawals
  <2> QED
    BY <2>1, <2>2 DEF RInv
<1>5. ASSUME HandlePdu PROVE RInv'
  BY <1>5, ClientStep
<1>6. ASSUME UNCHANGED rtrVars PROVE RInv'
  BY <1>6, <1>a, <1>c DEF rtrVars, cache, session
<1> QED
  BY <1>1, <1>2, <1>3, <1>4, <1>5, <1>6 DEF RtrNext

\* With a server that answers every Serial Query with a Cache Reset, the table is always
\* the whole version of the serial the cache reports: whatever notifications, queries
\* and responses are in flight, an End of Data finds exactly the version it closes
\* collected, and a connection lost half way leaves the old table in use.
THEOREM TableMatchesSerialHolds == ~Deltas => (RtrSpec => []TableMatchesSerial)
<1> SUFFICES ASSUME ~Deltas PROVE RtrSpec => []TableMatchesSerial
  OBVIOUS
<1>1. RtrInit => RtrTypeOK /\ Wire /\ RInv
  <2> SUFFICES ASSUME RtrInit PROVE RInv
    BY TypeInit
  <2> QED
    BY EmptyConnection DEF RtrInit, RInv, TableKept
<1>2. RtrTypeOK /\ Wire /\ RInv /\ [RtrNext]_rtrVars => (RtrTypeOK /\ Wire /\ RInv)'
  BY TypeStep, RInvStep
<1>3. RInv => TableMatchesSerial
  BY DEF RInv, TableKept, TableMatchesSerial
<1> QED
  BY <1>1, <1>2, <1>3, PTL DEF RtrSpec

=============================================================================
