------------------------- MODULE AccountUri_proofs -------------------------
(***************************************************************************)
(* What registerWithNumber makes of any number and host, and what          *)
(* CTSoftPhoneConfig says of any transport.                                *)
(***************************************************************************)
EXTENDS AccountUri, LeastNumber, SequenceTheorems, TLAPS

\* A sequence of one part.
LEMMA OneSeq ==
  ASSUME NEW Parts, NEW x \in Parts
  PROVE  <<x>> \in Seq(Parts) /\ Len(<<x>>) = 1 /\ <<x>>[1] = x
OBVIOUS

\* The first component of a string has no "@", and an "@" follows it unless it
\* is the whole string.
LEMMA BeforeProperties ==
  ASSUME NEW Parts, NEW s \in Seq(Parts)
  PROVE  /\ Before(s) \in Seq(Parts) /\ Len(Before(s)) <= Len(s)
         /\ \A i \in 1 .. Len(Before(s)) : Before(s)[i] = s[i] /\ s[i] # "@"
         /\ Ats(s) = {} => Before(s) = s
         /\ Ats(s) # {} => /\ FirstAt(s) \in 1 .. Len(s)
                           /\ s[FirstAt(s)] = "@"
                           /\ Len(Before(s)) = FirstAt(s) - 1
<1>1. Len(s) \in Nat /\ \A i \in 1 .. Len(s) : s[i] \in Parts
  BY LenProperties
<1>2. CASE Ats(s) = {}
  BY <1>1, <1>2 DEF Before, Ats
<1>3. CASE Ats(s) # {}
  <2> DEFINE k == FirstAt(s)
  <2>1. k \in Ats(s) /\ \A j \in Ats(s) : k <= j
    <3>1. Ats(s) \subseteq Nat
      BY <1>1 DEF Ats
    <3> QED BY <1>3, <3>1, Least DEF FirstAt
  <2>2. k \in 1 .. Len(s) /\ s[k] = "@"
    BY <2>1 DEF Ats
  <2>3. Before(s) = SubSeq(s, 1, k - 1)
    BY <1>3 DEF Before
  <2> HIDE DEF k
  <2>4. k - 1 \in Int /\ \A i \in 1 .. k - 1 : i \in 1 .. Len(s) /\ i \notin Ats(s)
    <3> SUFFICES ASSUME NEW i \in 1 .. k - 1
                 PROVE  i \in 1 .. Len(s) /\ i \notin Ats(s)
      BY <2>2, <1>1
    <3>1. i \in Int /\ i < k /\ i \in 1 .. Len(s)
      BY <2>2, <1>1
    <3> QED BY <3>1, <2>1, <2>2, <1>1
  <2>5. \A i \in 1 .. k - 1 : s[i] \in Parts /\ s[i] # "@"
    BY <2>4, <1>1 DEF Ats
  <2>6. /\ SubSeq(s, 1, k - 1) \in Seq(Parts)
        /\ Len(SubSeq(s, 1, k - 1)) = IF 1 <= k - 1 THEN k - 1 - 1 + 1 ELSE 0
        /\ \A i \in 1 .. k - 1 - 1 + 1 : SubSeq(s, 1, k - 1)[i] = s[1 + i - 1]
    BY <2>4, <2>5, SubSeqProperties
  <2>7. Len(Before(s)) = k - 1
    BY <2>2, <2>3, <2>6, <1>1
  <2>8. \A i \in 1 .. k - 1 : Before(s)[i] = s[i]
    <3> TAKE i \in 1 .. k - 1
    <3>1. i \in 1 .. k - 1 - 1 + 1 /\ 1 + i - 1 = i
      BY <2>4
    <3> QED BY <3>1, <2>3, <2>6
  <2> QED BY <1>1, <1>3, <2>2, <2>3, <2>5, <2>6, <2>7, <2>8 DEF k
<1> QED BY <1>2, <1>3

\* Between two strings that are joined by an "@" there is one.
LEMMA JoinedByAt ==
  ASSUME NEW Parts, "@" \in Parts,
         NEW a \in Seq(Parts), NEW h \in Seq(Parts)
  PROVE  a \o <<"@">> \o h \in Seq(Parts) /\ Ats(a \o <<"@">> \o h) # {}
<1>1. PICK at \in Seq(Parts) : at = <<"@">> /\ Len(at) = 1 /\ at[1] = "@"
  <2>1. "@" \in Parts
    OBVIOUS
  <2> QED BY <2>1, OneSeq
<1>2. PICK b \in Seq(Parts) : b = a \o at
  BY ConcatProperties
<1>3. PICK c \in Seq(Parts) : c = b \o h
  BY ConcatProperties
<1>4. /\ Len(b) = Len(a) + Len(at)
      /\ \A i \in 1 .. Len(a) + Len(at) :
           b[i] = IF i <= Len(a) THEN a[i] ELSE at[i - Len(a)]
  BY <1>2, ConcatProperties
<1>5. /\ Len(c) = Len(b) + Len(h)
      /\ \A i \in 1 .. Len(b) + Len(h) :
           c[i] = IF i <= Len(b) THEN b[i] ELSE h[i - Len(b)]
  BY <1>3, ConcatProperties
<1>6. Len(a) \in Nat /\ Len(h) \in Nat
  BY LenProperties
<1>7. b[Len(b)] = "@" /\ Len(b) \in Nat \ {0}
  BY <1>1, <1>4, <1>6
<1>8. Len(b) \in 1 .. Len(c) /\ c[Len(b)] = "@"
  BY <1>5, <1>6, <1>7
<1> QED BY <1>1, <1>2, <1>3, <1>8 DEF Ats

\* newUri is a sequence of parts with an "@" after the number.
LEMMA NewUriProperties ==
  ASSUME NEW Parts, {"sip:", "@"} \subseteq Parts,
         NEW number \in Seq(Parts), NEW host \in Seq(Parts)
  PROVE  NewUri(number, host) \in Seq(Parts) /\ Ats(NewUri(number, host)) # {}
<1>1. PICK sip \in Seq(Parts) : sip = <<"sip:">>
  <2>1. "sip:" \in Parts
    OBVIOUS
  <2> QED BY <2>1, OneSeq
<1>2. sip \o number \in Seq(Parts)
  BY ConcatProperties
<1> QED BY <1>1, <1>2, JoinedByAt DEF NewUri

\* cfg.id of any number and host is the address newUri starts with, up to a
\* second "@".
THEOREM AccountIdIsAddress ==
  ASSUME NEW Parts, {"sip:", "@"} \subseteq Parts,
         NEW number \in Seq(Parts), NEW host \in Seq(Parts)
  PROVE  /\ AccountId(number, host) \in Seq(Parts)
         /\ IsAddressOf(AccountId(number, host), NewUri(number, host))
<1>1. PICK uri \in Seq(Parts) : uri = NewUri(number, host) /\ Ats(uri) # {}
  BY NewUriProperties
<1>2. PICK at \in Seq(Parts) : at = <<"@">> /\ Len(at) = 1 /\ at[1] = "@"
  <2>1. "@" \in Parts
    OBVIOUS
  <2> QED BY <2>1, OneSeq
<1>3. PICK u \in Seq(Parts) : u = Before(uri)
  BY BeforeProperties
<1>4. PICK k \in 1 .. Len(uri) : k = FirstAt(uri)
  BY <1>1, BeforeProperties
<1>5. /\ Len(u) = k - 1 /\ uri[k] = "@"
      /\ \A i \in 1 .. k - 1 : u[i] = uri[i] /\ uri[i] # "@"
  BY <1>1, <1>3, <1>4, BeforeProperties
<1>6. Len(uri) \in Nat /\ \A i \in 1 .. Len(uri) : uri[i] \in Parts
  BY LenProperties
<1>7. PICK rest \in Seq(Parts) :
        /\ rest = After(uri) /\ Len(rest) = Len(uri) - k
        /\ \A i \in 1 .. Len(uri) - k : rest[i] = uri[k + i]
  <2>1. /\ k + 1 \in Int /\ Len(uri) \in Int
        /\ \A i \in k + 1 .. Len(uri) : uri[i] \in Parts
    BY <1>6
  <2>2. /\ SubSeq(uri, k + 1, Len(uri)) \in Seq(Parts)
        /\ Len(SubSeq(uri, k + 1, Len(uri)))
             = IF k + 1 <= Len(uri) THEN Len(uri) - (k + 1) + 1 ELSE 0
        /\ \A i \in 1 .. Len(uri) - (k + 1) + 1 :
             SubSeq(uri, k + 1, Len(uri))[i] = uri[k + 1 + i - 1]
    BY <2>1, SubSeqProperties
  <2>3. After(uri) = SubSeq(uri, k + 1, Len(uri))
    BY <1>4 DEF After
  <2>4. Len(After(uri)) = Len(uri) - k
    BY <1>6, <2>2, <2>3
  <2>5. ASSUME NEW i \in 1 .. Len(uri) - k
        PROVE  After(uri)[i] = uri[k + i]
    <3>1. i \in 1 .. Len(uri) - (k + 1) + 1 /\ k + 1 + i - 1 = k + i
      BY <1>6
    <3> QED BY <3>1, <2>2, <2>3
  <2> QED BY <2>2, <2>3, <2>4, <2>5
<1>8. PICK d \in Seq(Parts) : d = Before(rest)
  BY BeforeProperties
<1>9. /\ Len(d) \in Nat /\ Len(d) <= Len(rest)
      /\ \A i \in 1 .. Len(d) : d[i] = rest[i] /\ rest[i] # "@"
      /\ \/ Len(d) = Len(rest)
         \/ Len(d) < Len(rest) /\ rest[Len(d) + 1] = "@"
  <2>1. /\ Len(d) \in Nat /\ Len(d) <= Len(rest)
        /\ \A i \in 1 .. Len(d) : d[i] = rest[i] /\ rest[i] # "@"
    BY <1>8, BeforeProperties, LenProperties
  <2>2. CASE Ats(rest) = {}
    BY <1>8, <2>1, <2>2, BeforeProperties
  <2>3. CASE Ats(rest) # {}
    <3>1. /\ FirstAt(rest) \in 1 .. Len(rest) /\ rest[FirstAt(rest)] = "@"
          /\ Len(d) = FirstAt(rest) - 1
      BY <1>8, <2>3, BeforeProperties
    <3>2. Len(rest) \in Nat
      BY LenProperties
    <3>3. FirstAt(rest) = Len(d) + 1 /\ Len(d) < Len(rest)
      BY <3>1, <3>2, <2>1
    <3> QED BY <2>1, <3>1, <3>3
  <2> QED BY <2>2, <2>3
<1>10. PICK v \in Seq(Parts) :
         /\ v = u \o at /\ Len(v) = k /\ v[k] = "@"
         /\ \A i \in 1 .. k - 1 : v[i] = uri[i]
  <2>1. /\ u \o at \in Seq(Parts) /\ Len(u \o at) = Len(u) + Len(at)
        /\ \A i \in 1 .. Len(u) + Len(at) :
             (u \o at)[i] = IF i <= Len(u) THEN u[i] ELSE at[i - Len(u)]
    BY ConcatProperties
  <2>2. Len(u \o at) = k /\ (u \o at)[k] = "@"
    BY <1>2, <1>5, <1>6, <2>1
  <2>3. \A i \in 1 .. k - 1 : (u \o at)[i] = uri[i]
    BY <1>2, <1>5, <1>6, <2>1
  <2> QED BY <2>1, <2>2, <2>3
<1>11. PICK id \in Seq(Parts) :
         /\ id = v \o d /\ Len(id) = k + Len(d)
         /\ \A i \in 1 .. k : id[i] = v[i]
         /\ \A i \in 1 .. Len(d) : id[k + i] = d[i]
  <2>1. /\ v \o d \in Seq(Parts) /\ Len(v \o d) = Len(v) + Len(d)
        /\ \A i \in 1 .. Len(v) + Len(d) :
             (v \o d)[i] = IF i <= Len(v) THEN v[i] ELSE d[i - Len(v)]
    BY ConcatProperties
  <2>2. \A i \in 1 .. k : (v \o d)[i] = v[i]
    BY <1>9, <1>10, <2>1
  <2>3. ASSUME NEW i \in 1 .. Len(d)
        PROVE  (v \o d)[k + i] = d[i]
    <3> DEFINE j == k + i
    <3>1. j \in 1 .. Len(v) + Len(d) /\ ~ (j <= Len(v)) /\ j - Len(v) = i
      BY <1>9, <1>10
    <3>2. (v \o d)[j] = d[j - Len(v)]
      <4> HIDE DEF j
      <4> QED BY <3>1, <2>1
    <3> QED BY <3>1, <3>2
  <2> QED BY <1>10, <2>1, <2>2, <2>3
<1>12. id = AccountId(number, host)
  BY <1>1, <1>2, <1>3, <1>7, <1>8, <1>10, <1>11 DEF AccountId
<1>13. Len(id) <= Len(uri) /\ \A i \in 1 .. Len(id) : id[i] = uri[i]
  <2>1. Len(id) <= Len(uri)
    BY <1>6, <1>7, <1>9, <1>11
  <2>2. ASSUME NEW i \in 1 .. Len(id)
        PROVE  id[i] = uri[i]
    <3>1. CASE i < k
      BY <1>10, <1>11, <3>1
    <3>2. CASE i = k
      BY <1>5, <1>10, <1>11, <3>2
    <3>3. CASE i > k
      <4>1. i - k \in 1 .. Len(d) /\ i = k + (i - k)
        BY <1>9, <1>11, <3>3
      <4>2. i - k \in 1 .. Len(uri) - k
        BY <4>1, <1>7, <1>9, <1>6
      <4>3. id[k + (i - k)] = d[i - k] /\ d[i - k] = rest[i - k]
            /\ rest[i - k] = uri[k + (i - k)]
        BY <4>1, <4>2, <1>7, <1>9, <1>11
      <4> QED BY <4>1, <4>3
    <3>4. i \in Int /\ k \in Int
      OBVIOUS
    <3> QED BY <3>1, <3>2, <3>3, <3>4
  <2> QED BY <2>1, <2>2
<1>14. Ats(id) = {k}
  <2>1. k \in 1 .. Len(id) /\ id[k] = "@"
    BY <1>9, <1>10, <1>11
  <2>2. ASSUME NEW i \in 1 .. Len(id), i # k
        PROVE  id[i] # "@"
    <3>1. CASE i < k
      <4>1. i \in 1 .. k - 1 /\ i \in 1 .. k
        BY <3>1
      <4> QED BY <4>1, <1>5, <1>10, <1>11
    <3>2. CASE i > k
      <4>1. i - k \in 1 .. Len(d) /\ i = k + (i - k)
        BY <1>9, <1>11, <3>2
      <4>2. id[k + (i - k)] = d[i - k] /\ d[i - k] # "@"
        BY <4>1, <1>9, <1>11
      <4> QED BY <4>1, <4>2
    <3>3. i \in Int /\ k \in Int
      OBVIOUS
    <3> QED BY <2>2, <3>1, <3>2, <3>3
  <2> QED BY <2>1, <2>2 DEF Ats
<1>15. Len(id) = Len(uri) \/ uri[Len(id) + 1] = "@"
  <2>1. CASE Len(d) = Len(rest)
    <3>1. Len(id) = k + (Len(uri) - k)
      BY <2>1, <1>7, <1>11
    <3> QED BY <3>1, <1>6
  <2>2. CASE Len(d) < Len(rest) /\ rest[Len(d) + 1] = "@"
    <3>1. Len(d) + 1 \in 1 .. Len(uri) - k /\ k + (Len(d) + 1) = Len(id) + 1
      BY <2>2, <1>6, <1>7, <1>9, <1>11
    <3> QED BY <3>1, <2>2, <1>7
  <2> QED BY <2>1, <2>2, <1>9
<1>16. \E i \in Ats(id) : Ats(id) = {i}
  BY <1>14
<1> QED BY <1>1, <1>12, <1>13, <1>15, <1>16 DEF IsAddressOf

\* The name CTSoftPhoneConfig puts into the URIs is the protocol of the
\* transport it has the library create, for every type.
THEOREM NamedTransportFits ==
  ASSUME NEW t \in TransportTypes
  PROVE  /\ PjTransportType[t] \in Nat \ {0}
         /\ TransportDescription[t] \in {"tcp", "udp", "tls"}
         /\ ProtocolName(PjTransportType[t]) = TransportDescription[t]
<1>1. t \in {"TCP", "UDP", "TLS", "TCPIPv6", "UDPIPv6", "TLSIPv6"}
  BY DEF TransportTypes
<1>2. PjTransportType[t] % IPv6 \in 1 .. 3 /\ PjTransportType[t] \in Nat \ {0}
  BY <1>1 DEF PjTransportType, IPv6
<1>3. ProtocolName(PjTransportType[t]) = TransportDescription[t]
  BY <1>1 DEF ProtocolName, PjTransportType, TransportDescription, IPv6
<1>4. TransportDescription[t] \in {"tcp", "udp", "tls"}
  BY <1>1 DEF TransportDescription
<1> QED BY <1>2, <1>3, <1>4
=============================================================================
