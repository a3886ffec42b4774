------------------------ MODULE HostnameFieldProofs ------------------------
(***************************************************************************)
(* For fields of any size and names of any length, what is logged is the   *)
(* name that was written, cut to the size of the field.                    *)
(***************************************************************************)
EXTENDS HostnameField, TLAPS

(* Both fields are the copies of the names they are said to be for. *)
IInv ==
    /\ TypeOK
    /\ field = Copy(field, host)
    /\ event = Copy(event, evHost)

Size(h) == IF Len(h) < MAX_HOSTNAME_LEN THEN Len(h) ELSE MAX_HOSTNAME_LEN

(* A name has no zero byte. *)
LEMMA NoZeroByte == \A b \in NameByte : b # 0
BY DEF NameByte

(* The beginning of a name is a name. *)
LEMMA CutType == ASSUME NEW h \in Seq(NameByte) PROVE Cut(h) \in Seq(NameByte)
<1>1. Size(h) \in Nat BY HostnameAssumption DEF Size
<1>2. \A i \in 1..Size(h) : h[i] \in NameByte BY HostnameAssumption DEF Size
<1>3. Cut(h) = [i \in 1..Size(h) |-> h[i]] BY DEF Cut, Size
<1>q. QED BY <1>1, <1>2, <1>3

(* The copying loop fills the field with bytes of the name and zeros. *)
LEMMA CopyType ==
    ASSUME NEW h \in Seq(NameByte), NEW old PROVE Copy(old, h) \in Fields
<1>1. \A i \in 1..MAX_HOSTNAME_LEN : i <= Len(h) => h[i] \in NameByte
  BY HostnameAssumption
<1>q. QED BY <1>1 DEF Copy, Fields

(* nullTermString finds the end of the name, or that of the field: the bytes *)
(* before it are not zero, and the next one is.                              *)
LEMMA ReadBack ==
    ASSUME NEW h \in Seq(NameByte), NEW old
    PROVE  nullTermString(Copy(old, h)) = Cut(h)
<1> DEFINE f == Copy(old, h)
           N == Size(h)
<1>1. N \in 0..MAX_HOSTNAME_LEN BY HostnameAssumption DEF Size
<1>2. \A i \in 1..MAX_HOSTNAME_LEN : f[i] = IF i <= Len(h) THEN h[i] ELSE 0 BY DEF Copy
<1>3. \A i \in 1..N : i \in 1..MAX_HOSTNAME_LEN /\ i <= Len(h)
  BY HostnameAssumption DEF Size
<1>4. \A i \in 1..N : f[i] = h[i] /\ h[i] \in NameByte /\ f[i] # 0
  <2>1. TAKE i \in 1..N
  <2>2. f[i] = h[i] BY <1>2, <1>3
  <2>3. h[i] \in NameByte BY <1>3
  <2>4. h[i] # 0 BY <2>3, NoZeroByte
  <2>q. QED BY <2>2, <2>3, <2>4
<1>5. N < MAX_HOSTNAME_LEN => f[N + 1] = 0
  BY <1>1, <1>2, HostnameAssumption DEF Size
<1>6. IsEnd(f, N) BY <1>4, <1>5 DEF IsEnd
<1>7. ASSUME NEW m \in 0..MAX_HOSTNAME_LEN, IsEnd(f, m) PROVE m = N
  <2>1. CASE m < N
    <3>1. m + 1 \in 1..N /\ m < MAX_HOSTNAME_LEN BY <1>1, <2>1, HostnameAssumption
    <3>q. QED BY <1>4, <1>7, <3>1 DEF IsEnd
  <2>2. CASE m > N
    <3>1. N + 1 \in 1..m /\ N < MAX_HOSTNAME_LEN BY <1>1, <2>2, HostnameAssumption
    <3>q. QED BY <1>5, <1>7, <3>1 DEF IsEnd
  <2>q. QED BY <1>1, <2>1, <2>2, HostnameAssumption
<1>8. (CHOOSE n \in 0..MAX_HOSTNAME_LEN : IsEnd(f, n)) = N BY <1>1, <1>6, <1>7
<1>9. nullTermString(f) = [i \in 1..N |-> f[i]] BY <1>8 DEF nullTermString
<1>10. Cut(h) = [i \in 1..N |-> h[i]] BY DEF Cut, Size
<1>q. QED BY <1>4, <1>9, <1>10

LEMMA InitIInv == Init => IInv
<1> SUFFICES ASSUME Init PROVE IInv OBVIOUS
<1>1. <<>> \in Seq(NameByte) OBVIOUS
<1>2. Zero \in Fields BY DEF Zero, Fields
<1>3. \A old : Copy(old, <<>>) = Zero BY HostnameAssumption DEF Copy, Zero
<1>q. QED BY <1>1, <1>2, <1>3 DEF Init, IInv, TypeOK

LEMMA NextIInv == IInv /\ [Next]_vars => IInv'
<1> SUFFICES ASSUME IInv, [Next]_vars PROVE IInv' OBVIOUS
<1>0. \A a, b, h : Copy(a, h) = Copy(b, h) BY DEF Copy
<1>1. ASSUME NEW h \in Hosts, writeDestination(h) PROVE IInv'
  <2>1. h \in Seq(NameByte) BY HostnameAssumption
  <2>2. field' \in Fields BY <1>1, <2>1, CopyType DEF writeDestination
  <2>3. field' = Copy(field', host') BY <1>0, <1>1 DEF writeDestination
  <2>4. event' = Copy(event', evHost') BY <1>0, <1>1 DEF writeDestination, IInv
  <2>q. QED BY <1>1, <2>1, <2>2, <2>3, <2>4 DEF writeDestination, IInv, TypeOK
<1>2. CASE ReadField
  <2>1. event' = Copy(event', evHost') BY <1>0, <1>2 DEF ReadField, IInv
  <2>2. field' = Copy(field', host') BY <1>0, <1>2 DEF ReadField, IInv
  <2>q. QED BY <1>2, <2>1, <2>2 DEF ReadField, IInv, TypeOK
<1>3. CASE ReadRedirectEvents
  <2>1. evHost \in Seq(NameByte) BY DEF IInv, TypeOK
  <2>2. nullTermString(event) = Cut(evHost) BY <2>1, ReadBack DEF IInv
  <2>3. logged' \in Seq(NameByte) BY <1>3, <2>1, <2>2, CutType DEF ReadRedirectEvents
  <2>4. event' = Copy(event', evHost') /\ field' = Copy(field', host')
    BY <1>0, <1>3 DEF ReadRedirectEvents, IInv
  <2>q. QED BY <1>3, <2>3, <2>4 DEF ReadRedirectEvents, IInv, TypeOK
<1>4. CASE UNCHANGED vars
  <2>1. event' = Copy(event', evHost') /\ field' = Copy(field', host')
    BY <1>0, <1>4 DEF vars, IInv
  <2>q. QED BY <1>4, <2>1 DEF vars, IInv, TypeOK
<1>q. QED BY <1>1, <1>2, <1>3, <1>4 DEF Next

(* A redirect event is logged under the name its entry was written for, up   *)
(* to the size of the field, for any names written before.                   *)
THEOREM HostnameSurvives == Spec => []LoggedIsName
<1>1. Spec => []IInv BY InitIInv, NextIInv, PTL DEF Spec
<1>2. IInv => LoggedIsName
  <2>1. SUFFICES ASSUME IInv PROVE LoggedIsName OBVIOUS
  <2>2. evHost \in Seq(NameByte) BY <2>1 DEF IInv, TypeOK
  <2>q. QED BY <2>1, <2>2, ReadBack DEF IInv, LoggedIsName
<1>q. QED BY <1>1, <1>2, PTL

(* The fields hold bytes of names and zeros, and no zero is logged. *)
THEOREM HostnameTypeCorrect == Spec => []TypeOK
<1>1. Spec => []IInv BY InitIInv, NextIInv, PTL DEF Spec
<1>2. IInv => TypeOK BY DEF IInv
<1>q. QED BY <1>1, <1>2, PTL
=============================================================================
