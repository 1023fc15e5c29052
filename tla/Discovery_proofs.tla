-------------------------- MODULE Discovery_proofs --------------------------
(***************************************************************************)
(* The lists of the search, of any length, and what is returned: everyone  *)
(* who was heard, once, as SSDP showed him, and the proxy as a proxy.      *)
(***************************************************************************)
EXTENDS Discovery, SequenceTheorems, FiniteSetTheorems, WellFoundedInduction, TLAPS

\* What holds of 0, and of n + 1 whenever of n, holds of all numbers.
LEMMA Induction ==
  ASSUME NEW T, T \subseteq Nat, 0 \in T, \A n \in T : n + 1 \in T
  PROVE  T = Nat
  <1> SUFFICES ASSUME Nat \ T # {} PROVE FALSE
    OBVIOUS
  <1>1. PICK m \in Nat \ T : \A n \in Nat \ T : <<n, m>> \notin OpToRel(<, Nat)
    <2> DEFINE S == Nat \ T
    <2>1. S \subseteq Nat
      OBVIOUS
    <2> HIDE DEF S
    <2> QED
      BY <2>1, NatLessThanWellFounded, WFMin, Zenon DEF S
  <1>2. \A n \in Nat \ T : ~(n < m)
    BY <1>1, Zenon DEF OpToRel
  <1> QED
    BY <1>2

-----------------------------------------------------------------------------
(***************************************************************************)
(* Lists of entries.                                                       *)
(***************************************************************************)

\* No place is in a list twice.
Distinct(entries) ==
  \A i, j \in 1..Len(entries) : entries[i].place = entries[j].place => i = j

LEMMA PlacesByIndex ==
  ASSUME NEW S, NEW s \in Seq(S)
  PROVE  /\ Range(s) = {s[i] : i \in 1..Len(s)}
         /\ Places(s) = {s[i].place : i \in 1..Len(s)}
  BY DEF Range, Places

\* Add appends an entry of a new place and leaves others out.
LEMMA AddProperties ==
  ASSUME NEW S, NEW s \in Seq(S), NEW e \in S
  PROVE  /\ Add(s, e) \in Seq(S)
         /\ Range(s) \subseteq Range(Add(s, e))
         /\ Places(Add(s, e)) = Places(s) \cup {e.place}
         /\ \A x \in Range(Add(s, e)) : x \in Range(s) \/ (x = e /\ e.place \notin Places(s))
         /\ Distinct(s) => Distinct(Add(s, e))
  <1>1. CASE e.place \in Places(s)
    BY <1>1 DEF Add
  <1>2. CASE e.place \notin Places(s)
    <2> DEFINE r == Append(s, e)
    <2>1. Add(s, e) = r
      BY <1>2 DEF Add
    <2>2. /\ r \in Seq(S) /\ Len(r) = Len(s) + 1 /\ Len(s) \in Nat
          /\ \A i \in 1..Len(s) : r[i] = s[i]
          /\ r[Len(s) + 1] = e
      OBVIOUS
    <2> HIDE DEF r
    <2>3. Range(r) = Range(s) \cup {e}
      <3>1. 1..Len(r) = 1..Len(s) \cup {Len(s) + 1}
        BY <2>2
      <3>2. {r[i] : i \in 1..Len(r)} = {s[i] : i \in 1..Len(s)} \cup {e}
        BY <2>2, <3>1
      <3> QED
        BY <2>2, <3>2, PlacesByIndex
    <2>4. Places(r) = Places(s) \cup {e.place}
      BY <2>3 DEF Places
    <2>5. ASSUME Distinct(s) PROVE Distinct(r)
      <3> SUFFICES ASSUME NEW i \in 1..Len(r), NEW j \in 1..Len(r), r[i].place = r[j].place
                   PROVE  i = j
        BY DEF Distinct
      <3>1. \A k \in 1..Len(s) : s[k].place # e.place
        BY <1>2, PlacesByIndex
      <3>2. (i \in 1..Len(s) \/ i = Len(s) + 1) /\ (j \in 1..Len(s) \/ j = Len(s) + 1)
        BY <2>2
      <3> QED
        BY <2>2, <2>5, <3>1, <3>2 DEF Distinct
    <2> QED
      BY <1>2, <2>1, <2>2, <2>3, <2>4, <2>5
  <1> QED
    BY <1>1, <1>2

\* A list without doubles is as long as it has places.
LEMMA DistinctCount ==
  ASSUME NEW S, NEW s \in Seq(S), Distinct(s)
  PROVE  Len(s) = Cardinality(Places(s))
  <1> DEFINE f == [i \in 1..Len(s) |-> s[i].place]
  <1>1. Places(s) = {f[i] : i \in 1..Len(s)}
    BY PlacesByIndex
  <1>2. f \in [1..Len(s) -> Places(s)]
    BY <1>1
  <1>3. \A i, j \in 1..Len(s) : f[i] = f[j] => i = j
    BY DEF Distinct
  <1> HIDE DEF f
  <1>4. f \in Bijection(1..Len(s), Places(s))
    BY <1>1, <1>2, <1>3 DEF Bijection, Injection, Surjection, IsInjective
  <1>5. ExistsBijection(1..Len(s), Places(s)) /\ Len(s) \in Nat
    BY <1>4 DEF ExistsBijection
  <1> QED
    BY <1>5, FS_CountingElements

\* Unique adds one entry at a time.
LEMMA UniqueStepwise ==
  ASSUME NEW S, NEW s \in Seq(S)
  PROVE  \E upTo : /\ upTo[0] = <<>>
                   /\ \A i \in 1..Len(s) : upTo[i] = Add(upTo[i - 1], s[i])
                   /\ Unique(s) = upTo[Len(s)]
  <1> DEFINE empty == <<>>
             Next1(f, i) == IF i = 0 THEN empty ELSE Add(f[i - 1], s[i])
             T == {n \in Nat : \E f : f = [i \in 0..n |-> Next1(f, i)]}
  <1>0. Len(s) \in Nat
    OBVIOUS
  <1> HIDE DEF empty
  <1>1. 0 \in T
    <2> DEFINE f == [i \in 0..0 |-> empty]
    <2>1. f = [i \in 0..0 |-> Next1(f, i)]
      OBVIOUS
    <2> QED
      BY <2>1
  <1>2. ASSUME NEW n \in T PROVE n + 1 \in T
    <2>0. n \in Nat
      OBVIOUS
    <2>1. PICK f : f = [i \in 0..n |-> Next1(f, i)]
      OBVIOUS
    <2> DEFINE g == [i \in 0..n + 1 |-> Next1(f, i)]
    <2>2. \A i \in 0..n : g[i] = f[i]
      BY <2>1
    <2>3. \A i \in 0..n + 1 : Next1(f, i) = Next1(g, i)
      <3> TAKE i \in 0..n + 1
      <3>1. CASE i = 0
        BY <3>1
      <3>2. CASE i # 0
        <4> HIDE DEF g, T
        <4>1. g[i - 1] = f[i - 1]
          <5>1. i - 1 \in 0..n
            BY <2>0, <3>2
          <5> QED
            BY <2>2, <5>1
        <4> QED
          BY <3>2, <4>1
      <3> QED
        BY <3>1, <3>2
    <2>4. g = [i \in 0..n + 1 |-> Next1(g, i)]
      <3> HIDE DEF Next1
      <3> QED
        BY <2>3
    <2> HIDE DEF g
    <2> QED
      BY <2>4
  <1>3. Len(s) \in T
    <2>1. T \subseteq Nat
      OBVIOUS
    <2> HIDE DEF T
    <2> QED
      BY <1>0, <1>1, <1>2, <2>1, Induction
  <1>4. PICK f : f = [i \in 0..Len(s) |-> Next1(f, i)]
    BY <1>3
  <1> DEFINE upTo == CHOOSE g : g = [i \in 0..Len(s) |-> Next1(g, i)]
  <1>5. upTo = [i \in 0..Len(s) |-> Next1(upTo, i)]
    BY <1>4
  <1>6. Unique(s) = upTo[Len(s)]
    BY DEF Unique, empty
  <1> HIDE DEF upTo
  <1>7. upTo[0] = empty /\ \A i \in 1..Len(s) : upTo[i] = Add(upTo[i - 1], s[i])
    BY <1>0, <1>5
  <1> QED
    BY <1>6, <1>7 DEF empty

\* Of each place, Unique keeps the first entry, and this alone.
LEMMA UniqueProperties ==
  ASSUME NEW S, NEW s \in Seq(S)
  PROVE  /\ Unique(s) \in Seq(S)
         /\ Distinct(Unique(s))
         /\ Places(Unique(s)) = Places(s)
         /\ \A x \in Range(Unique(s)) :
              \E i \in 1..Len(s) : s[i] = x /\ \A k \in 1..(i - 1) : s[k].place # x.place
  <1>1. PICK upTo : /\ upTo[0] = <<>>
                    /\ \A i \in 1..Len(s) : upTo[i] = Add(upTo[i - 1], s[i])
                    /\ Unique(s) = upTo[Len(s)]
    BY UniqueStepwise
  <1> DEFINE First(n, r) ==
               \A x \in Range(r) :
                 \E i \in 1..n : s[i] = x /\ \A k \in 1..(i - 1) : s[k].place # x.place
             Good(n, r) == /\ r \in Seq(S)
                           /\ Distinct(r)
                           /\ Places(r) = {s[i].place : i \in 1..n}
                           /\ First(n, r)
             T == {n \in Nat : n <= Len(s) => Good(n, upTo[n])}
  <1>0. Len(s) \in Nat
    OBVIOUS
  <1>2. 0 \in T
    <2> DEFINE empty == <<>>
    <2>1. empty \in Seq(S) /\ Range(empty) = {} /\ Places(empty) = {} /\ Distinct(empty)
      BY DEF Range, Places, Distinct
    <2>2. {s[i].place : i \in 1..0} = {}
      OBVIOUS
    <2>3. upTo[0] = empty
      BY <1>1
    <2> HIDE DEF empty
    <2> QED
      BY <2>1, <2>2, <2>3
  <1>3. ASSUME NEW n \in T PROVE n + 1 \in T
    <2> SUFFICES ASSUME n + 1 <= Len(s) PROVE Good(n + 1, upTo[n + 1])
      OBVIOUS
    <2> DEFINE old == upTo[n]
               e == s[n + 1]
               new == upTo[n + 1]
    <2>0. n \in Nat /\ n + 1 \in 1..Len(s) /\ n <= Len(s)
      BY <1>0
    <2>1. Good(n, old)
      BY <2>0
    <2>2. e \in S
      BY <2>0
    <2>3. new = Add(old, e)
      <3>1. upTo[n + 1] = Add(upTo[(n + 1) - 1], s[n + 1])
        BY <1>1, <2>0
      <3>2. (n + 1) - 1 = n
        BY <2>0
      <3> QED
        BY <3>1, <3>2
    <2> HIDE DEF old, e, new, First
    <2>4. 1..n + 1 = 1..n \cup {n + 1}
      BY <2>0
    <2>5. /\ new \in Seq(S) /\ Distinct(new) /\ Places(new) = Places(old) \cup {e.place}
          /\ \A x \in Range(new) : x \in Range(old) \/ (x = e /\ e.place \notin Places(old))
      BY <2>1, <2>2, <2>3, AddProperties
    <2>6. Places(new) = {s[i].place : i \in 1..n + 1}
      BY <2>1, <2>4, <2>5 DEF e
    <2>7. First(n + 1, new)
      <3> SUFFICES ASSUME NEW x \in Range(new)
                   PROVE  \E i \in 1..n + 1 : s[i] = x /\ \A k \in 1..(i - 1) : s[k].place # x.place
        BY DEF First
      <3>1. CASE x \in Range(old)
        BY <2>1, <2>4, <3>1 DEF First
      <3>2. CASE x = e /\ e.place \notin Places(old)
        <4>1. \A k \in 1..n : s[k].place # x.place
          BY <2>1, <3>2
        <4>2. (n + 1) - 1 = n /\ n + 1 \in 1..n + 1
          BY <2>0
        <4> QED
          BY <3>2, <4>1, <4>2 DEF e
      <3> QED
        BY <2>5, <3>1, <3>2
    <2> QED
      BY <2>5, <2>6, <2>7 DEF new
  <1>4. Good(Len(s), Unique(s))
    <2>1. T \subseteq Nat
      OBVIOUS
    <2> HIDE DEF Good
    <2>2. T = Nat
      <3> HIDE DEF T
      <3> QED
        BY <1>2, <1>3, <2>1, Induction
    <2> QED
      BY <1>0, <1>1, <2>2
  <1> QED
    BY <1>4, PlacesByIndex

\* What is merged: the first list, and of the second what is of other places.
LEMMA MergeProperties ==
  ASSUME NEW S, NEW a \in Seq(S), NEW b \in Seq(S)
  PROVE  /\ Merge(a, b) \in Seq(S)
         /\ Distinct(Merge(a, b))
         /\ Places(Merge(a, b)) = Places(a) \cup Places(b)
         /\ \A x \in Range(Merge(a, b)) : x \in Range(a) \/ (x \in Range(b) /\ x.place \notin Places(a))
  <1> DEFINE s == a \o b
             r == Merge(a, b)
  <1>1. /\ s \in Seq(S) /\ Len(s) = Len(a) + Len(b) /\ Len(a) \in Nat /\ Len(b) \in Nat
        /\ \A i \in 1..Len(s) : s[i] = IF i <= Len(a) THEN a[i] ELSE b[i - Len(a)]
    OBVIOUS
  <1>2. r = Unique(s)
    BY DEF Merge
  <1> HIDE DEF s, r
  <1>0. /\ Range(a) = {a[i] : i \in 1..Len(a)} /\ Places(a) = {a[i].place : i \in 1..Len(a)}
        /\ Range(b) = {b[i] : i \in 1..Len(b)}
        /\ Range(s) = {s[i] : i \in 1..Len(s)}
    <2>1. s \in Seq(S)
      BY <1>1
    <2> HIDE <1>1
    <2> QED
      BY <2>1, PlacesByIndex
  <1>3. /\ r \in Seq(S) /\ Distinct(r) /\ Places(r) = Places(s)
        /\ \A x \in Range(r) :
             \E i \in 1..Len(s) : s[i] = x /\ \A k \in 1..(i - 1) : s[k].place # x.place
    BY <1>1, <1>2, UniqueProperties
  <1>4. Range(s) = Range(a) \cup Range(b)
    <2>1. \A i \in 1..Len(s) : s[i] \in Range(a) \cup Range(b)
      BY <1>1, PlacesByIndex
    <2>2. \A i \in 1..Len(a) : i \in 1..Len(s) /\ s[i] = a[i]
      BY <1>1
    <2>3. \A i \in 1..Len(b) : i + Len(a) \in 1..Len(s) /\ s[i + Len(a)] = b[i]
      <3> TAKE i \in 1..Len(b)
      <3>1. /\ i + Len(a) \in 1..Len(s) /\ ~(i + Len(a) <= Len(a))
            /\ i + Len(a) - Len(a) = i
        BY <1>1
      <3> QED
        BY <1>1, <3>1
    <2>4. Range(a) \subseteq Range(s)
      <3> SUFFICES ASSUME NEW i \in 1..Len(a) PROVE a[i] \in Range(s)
        BY <1>0
      <3> QED
        BY <1>0, <2>2
    <2>5. Range(b) \subseteq Range(s)
      <3> SUFFICES ASSUME NEW i \in 1..Len(b) PROVE b[i] \in Range(s)
        BY <1>0
      <3> QED
        BY <1>0, <2>3
    <2> QED
      BY <1>0, <2>1, <2>4, <2>5
  <1>5. Places(s) = Places(a) \cup Places(b)
    BY <1>4 DEF Places
  <1>6. ASSUME NEW x \in Range(r)
        PROVE  x \in Range(a) \/ (x \in Range(b) /\ x.place \notin Places(a))
    <2>1. PICK i \in 1..Len(s) : s[i] = x /\ \A k \in 1..(i - 1) : s[k].place # x.place
      BY <1>3
    <2>2. CASE i <= Len(a)
      BY <1>1, <2>1, <2>2, PlacesByIndex
    <2>3. CASE ~(i <= Len(a))
      <3>1. i - Len(a) \in 1..Len(b) /\ x = b[i - Len(a)]
        BY <1>1, <2>1, <2>3
      <3>2. \A k \in 1..Len(a) : a[k].place # x.place
        BY <1>1, <2>1, <2>3
      <3>3. x \in Range(b)
        BY <1>0, <3>1
      <3>4. x.place \notin Places(a)
        BY <1>0, <3>2
      <3> QED
        BY <3>3, <3>4
    <2> QED
      BY <2>2, <2>3
  <1> QED
    BY <1>3, <1>5, <1>6 DEF r

-----------------------------------------------------------------------------
(***************************************************************************)
(* What is heard, and what is made of it.                                  *)
(***************************************************************************)

ProxyDatagram == Datagram(Proxy, "proxy", "proxy")

\* All that may ever arrive.
Known ==
  {ProxyDatagram, Datagram(Nowhere, "plain", "plain")}
    \cup {Datagram(device.place, device.server, usn) :
            device \in {x \in Devices : x.targets # {}}, usn \in {"denon", "plain"}}

Entries == {SsdpEntry(d) : d \in Known} \cup {MdnsEntry(device) : device \in Devices}

LEMMA AnswersAreKnown == Answers \subseteq Known
  <1>1. ProxyAnswers \subseteq Known
    BY DEF ProxyAnswers, Known, ProxyDatagram
  <1>2. ASSUME NEW device \in Devices PROVE DeviceAnswers(device) \subseteq Known
    <2> SUFFICES ASSUME NEW target \in device.targets
                 PROVE  Datagram(device.place, device.server,
                                 IF target \in {"aios", "act"} THEN "denon" ELSE "plain") \in Known
      BY DEF DeviceAnswers
    <2>1. device \in {x \in Devices : x.targets # {}}
      OBVIOUS
    <2> QED
      BY <2>1 DEF Known
  <1> QED
    BY <1>1, <1>2 DEF Answers, Known

\* Only the proxy answers for its place.
LEMMA PlaceOfProxy ==
  ASSUME NEW d \in Known, d.place = Proxy
  PROVE  d = ProxyDatagram
  <1>1. d # Datagram(Nowhere, "plain", "plain")
    BY TextsAssumption DEF Datagram
  <1>2. ASSUME NEW device \in Devices, device.targets # {}, NEW usn \in {"denon", "plain"}
        PROVE  d # Datagram(device.place, device.server, usn)
    BY <1>2, OneProxyAssumption DEF Datagram
  <1> QED
    BY <1>1, <1>2 DEF Known

\* Only the answer of the proxy is shown as a proxy.
LEMMA BrandOfSsdp ==
  ASSUME NEW d \in Known
  PROVE  SsdpEntry(d).brand = "proxy" <=> d = ProxyDatagram
  <1>0. SsdpEntry(d).brand = BrandOf(NameOf(d), d.usn) /\ Silent # "proxy"
    BY TextsAssumption DEF SsdpEntry, Texts
  <1>1. CASE d = ProxyDatagram
    <2>1. d.usn = "proxy"
      BY <1>1 DEF ProxyDatagram, Datagram
    <2> QED
      BY <1>0, <1>1, <2>1 DEF BrandOf
  <1>2. CASE d # ProxyDatagram
    <2>1. d.usn # "proxy" /\ d.server # "proxy"
      <3>1. CASE d = Datagram(Nowhere, "plain", "plain")
        BY <3>1 DEF Datagram
      <3>2. CASE d # Datagram(Nowhere, "plain", "plain")
        <4>1. PICK device \in Devices, usn \in {"denon", "plain"} :
                d = Datagram(device.place, device.server, usn)
          BY <1>2, <3>2 DEF Known
        <4> QED
          BY <4>1, OneProxyAssumption DEF Datagram
      <3> QED
        BY <3>1, <3>2
    <2>2. NameOf(d) # "proxy"
      BY <2>1 DEF NameOf
    <2>3. BrandOf(NameOf(d), d.usn) \in {"denon", Silent}
      BY <2>1, <2>2 DEF BrandOf
    <2> QED
      BY <1>0, <1>2, <2>3
  <1> QED
    BY <1>1, <1>2

\* A service is shown as a proxy if it has the name of one.
LEMMA BrandOfMdns ==
  ASSUME NEW device \in Devices
  PROVE  MdnsEntry(device).brand = "proxy" <=> device.service = "proxy"
  <1>1. Silent # "proxy"
    BY TextsAssumption DEF Texts
  <1>2. MdnsEntry(device).brand = BrandOf(device.service, Silent)
    BY DEF MdnsEntry
  <1> QED
    BY <1>1, <1>2 DEF BrandOf

\* The name of a place in mDNS is that of any service that has it.
LEMMA NameOfPlace ==
  ASSUME NEW device \in Devices
  PROVE  device.place \in NamedPlaces <=> device.service = "proxy"
  BY PlacesAssumption DEF NamedPlaces

\* What is shown as a proxy has a name that matches.
LEMMA ProxyMatches ==
  ASSUME NEW e \in Entries, e.brand = "proxy"
  PROVE  e.matched
  <1>1. CASE e \in {SsdpEntry(d) : d \in Known}
    <2>1. PICK d \in Known : e = SsdpEntry(d)
      BY <1>1
    <2>2. d = ProxyDatagram
      BY <2>1, BrandOfSsdp
    <2>3. NameOf(d) = "proxy"
      <3>1. d.server = "proxy" /\ d.usn = "proxy"
        BY <2>2 DEF ProxyDatagram, Datagram
      <3> QED
        BY <3>1 DEF NameOf
    <2>4. e.matched = IsDenon(NameOf(d))
      BY <2>1 DEF SsdpEntry
    <2> QED
      BY <2>3, <2>4 DEF IsDenon
  <1>2. CASE e \in {MdnsEntry(device) : device \in Devices}
    <2>1. PICK device \in Devices : e = MdnsEntry(device)
      BY <1>2
    <2>2. device.service = "proxy"
      BY <2>1, BrandOfMdns
    <2>3. e.matched = IsDenon(device.service)
      BY <2>1 DEF MdnsEntry
    <2> QED
      BY <2>2, <2>3 DEF IsDenon
  <1> QED
    BY <1>1, <1>2 DEF Entries

-----------------------------------------------------------------------------
(***************************************************************************)
(* The invariant.                                                          *)
(***************************************************************************)

\* A search of one kind has nothing of the other.
MethodInv ==
  /\ method \in {"ssdp", "mdns", "both"}
  /\ method = "mdns" => heard = {} /\ phase \in {"over", "found", "failed"}
  /\ method = "ssdp" => mdns = <<>> /\ ~browsing

\* What was heard and tells a place has an entry, and no entry is of else.
SsdpInv ==
  /\ queue \in Seq(Known) /\ heard \subseteq Known
  /\ ssdp \in Seq(Entries) /\ Distinct(ssdp)
  /\ \A e \in Range(ssdp) : \E d \in heard : d.place # Nowhere /\ e = SsdpEntry(d)
  /\ \A d \in heard : d.place # Nowhere => d.place \in Places(ssdp)

MdnsInv ==
  /\ mdns \in Seq(Entries) /\ Distinct(mdns)
  /\ \A e \in Range(mdns) : \E device \in Devices : e = MdnsEntry(device)

\* Nothing comes after the end.
EndInv == phase = "found" => ~browsing

ListsInv == MethodInv /\ SsdpInv /\ MdnsInv /\ EndInv

LEMMA EmptyLists ==
  /\ <<>> \in Seq(Known) /\ <<>> \in Seq(Entries)
  /\ Range(<<>>) = {} /\ Places(<<>>) = {} /\ Distinct(<<>>)
  BY DEF Range, Places, Distinct

LEMMA ListsInit == Init => ListsInv
  <1> SUFFICES ASSUME Init PROVE ListsInv
    OBVIOUS
  <1>1. MethodInv /\ EndInv
    BY DEF Init, MethodInv, EndInv
  <1>2. SsdpInv
    BY EmptyLists DEF Init, SsdpInv
  <1>3. MdnsInv
    BY EmptyLists DEF Init, MdnsInv
  <1> QED
    BY <1>1, <1>2, <1>3 DEF ListsInv

\* What was heard gets its entry.
LEMMA TakeKeeps ==
  ASSUME SsdpInv, Take
  PROVE  SsdpInv'
  <1> DEFINE d == Head(queue)
             e == SsdpEntry(d)
  <1>1. d \in Known /\ queue' \in Seq(Known)
    BY DEF SsdpInv, Take
  <1>2. e \in Entries /\ e.place = d.place
    BY <1>1 DEF Entries, SsdpEntry
  <1>3. heard' = heard \cup {d} /\ ssdp' = IF d.place = Nowhere THEN ssdp ELSE Add(ssdp, e)
    BY DEF Take
  <1> HIDE DEF d, e
  <1>4. CASE d.place = Nowhere
    BY <1>1, <1>3, <1>4 DEF SsdpInv
  <1>5. CASE d.place # Nowhere
    <2>1. /\ ssdp' \in Seq(Entries) /\ Distinct(ssdp')
          /\ Places(ssdp') = Places(ssdp) \cup {d.place}
          /\ \A x \in Range(ssdp') : x \in Range(ssdp) \/ x = e
      BY <1>2, <1>3, <1>5, AddProperties DEF SsdpInv
    <2>2. \A x \in Range(ssdp') : \E y \in heard' : y.place # Nowhere /\ x = SsdpEntry(y)
      BY <1>3, <1>5, <2>1 DEF SsdpInv, e
    <2>3. \A y \in heard' : y.place # Nowhere => y.place \in Places(ssdp')
      BY <1>3, <2>1 DEF SsdpInv
    <2> QED
      BY <1>1, <1>3, <2>1, <2>2, <2>3 DEF SsdpInv, Places
  <1> QED
    BY <1>4, <1>5

LEMMA ServiceKeeps ==
  ASSUME MdnsInv, NEW device \in Devices, ServiceAdded(device)
  PROVE  MdnsInv'
  <1> DEFINE e == MdnsEntry(device)
  <1>1. e \in Entries /\ mdns' = Add(mdns, e)
    BY DEF Entries, ServiceAdded
  <1>2. /\ mdns' \in Seq(Entries) /\ Distinct(mdns')
        /\ \A x \in Range(mdns') : x \in Range(mdns) \/ x = e
    BY <1>1, AddProperties DEF MdnsInv
  <1>3. \A x \in Range(mdns') : \E v \in Devices : x = MdnsEntry(v)
    BY <1>2 DEF MdnsInv
  <1> QED
    BY <1>2, <1>3 DEF MdnsInv

LEMMA ListsStep ==
  ASSUME ListsInv, [Next]_vars
  PROVE  ListsInv'
  <1> USE DEF ListsInv, netVars, mdnsVars
  <1>1. CASE Open
    BY <1>1 DEF Open, MethodInv, SsdpInv, MdnsInv, EndInv
  <1>2. CASE Ask
    BY <1>2 DEF Ask, MethodInv, SsdpInv, MdnsInv, EndInv
  <1>3. CASE Arrive
    <2>1. queue' \in Seq(Known)
      BY <1>3, AnswersAreKnown DEF Arrive, SsdpInv
    <2> QED
      BY <1>3, <2>1 DEF Arrive, MethodInv, SsdpInv, MdnsInv, EndInv
  <1>4. CASE Tick
    BY <1>4 DEF Tick, MethodInv, SsdpInv, MdnsInv, EndInv
  <1>5. CASE Test
    BY <1>5 DEF Test, MethodInv, SsdpInv, MdnsInv, EndInv
  <1>6. CASE Take
    <2>1. SsdpInv'
      BY <1>6, TakeKeeps
    <2> QED
      BY <1>6, <2>1 DEF Take, MethodInv, MdnsInv, EndInv
  <1>7. CASE TimeOut
    BY <1>7 DEF TimeOut, MethodInv, SsdpInv, MdnsInv, EndInv
  <1>8. ASSUME NEW device \in Devices, ServiceAdded(device) PROVE ListsInv'
    <2>1. MdnsInv'
      BY <1>8, ServiceKeeps
    <2> QED
      BY <1>8, <2>1 DEF ServiceAdded, MethodInv, SsdpInv, EndInv
  <1>9. CASE BrowseEnds
    BY <1>9 DEF BrowseEnds, MethodInv, SsdpInv, MdnsInv, EndInv
  <1>10. CASE Fail
    BY <1>10 DEF Fail, MethodInv, SsdpInv, MdnsInv, EndInv
  <1>11. CASE Return
    BY <1>11 DEF Return, MethodInv, SsdpInv, MdnsInv, EndInv
  <1>12. CASE UNCHANGED vars
    BY <1>12 DEF vars, MethodInv, SsdpInv, MdnsInv, EndInv
  <1> QED
    BY <1>1, <1>2, <1>3, <1>4, <1>5, <1>6, <1>7, <1>8, <1>9, <1>10, <1>11, <1>12
    DEF Next, Searcher

-----------------------------------------------------------------------------
(***************************************************************************)
(* What is returned.                                                       *)
(***************************************************************************)

\* The result: all entries of SSDP, and those of mDNS that are of other places.
LEMMA ReturnedLists ==
  ASSUME ListsInv, Return
  PROVE  /\ found' \in Seq(Entries) /\ Distinct(found')
         /\ Places(found') = Places(ssdp) \cup Places(mdns)
         /\ \A e \in Range(found') :
              e \in Range(ssdp) \/ (e \in Range(mdns) /\ e.place \notin Places(ssdp))
  <1>0. /\ ssdp \in Seq(Entries) /\ Distinct(ssdp) /\ mdns \in Seq(Entries) /\ Distinct(mdns)
    BY DEF ListsInv, SsdpInv, MdnsInv
  <1>1. CASE method = "ssdp"
    <2>1. found' = ssdp /\ Places(mdns) = {}
      BY <1>1, EmptyLists DEF Return, ListsInv, MethodInv
    <2> QED
      BY <1>0, <2>1
  <1>2. CASE method = "mdns"
    <2>1. found' = mdns
      BY <1>2 DEF Return
    <2>2. Places(ssdp) = {} /\ Range(ssdp) = {}
      BY <1>2 DEF ListsInv, MethodInv, SsdpInv, Places
    <2> QED
      BY <1>0, <2>1, <2>2
  <1>3. CASE method = "both"
    <2>1. found' = Merge(ssdp, mdns)
      BY <1>3 DEF Return
    <2> QED
      BY <1>0, <2>1, MergeProperties
  <1> QED
    BY <1>1, <1>2, <1>3 DEF ListsInv, MethodInv

\* What is returned stays, and so does all it is compared with.
LEMMA EndIsEnd ==
  ASSUME ListsInv, [Next]_vars, phase' = "found", ~Return
  PROVE  phase = "found" /\ UNCHANGED <<found, mdns, heard>>
  <1>1. phase = "found" => ~browsing
    BY DEF ListsInv, EndInv
  <1> QED
    BY <1>1 DEF Next, Searcher, vars, netVars, mdnsVars, Open, Ask, Arrive, Tick, Test, Take, TimeOut,
                ServiceAdded, BrowseEnds, Fail

\* Everyone who was heard is returned, once, and as SSDP showed him, and with
\* them every place mDNS has found: for any devices, any number of answers in
\* any order, and lists of any length.
THEOREM AllHeardReturned == Spec => []HeardAreReturned
  <1> DEFINE Inv == ListsInv /\ HeardAreReturned
  <1>1. Init => Inv
    <2>1. Init => HeardAreReturned
      BY DEF Init, HeardAreReturned
    <2> QED
      BY <2>1, ListsInit
  <1>2. Inv /\ [Next]_vars => Inv'
    <2> SUFFICES ASSUME Inv, [Next]_vars PROVE HeardAreReturned'
      BY ListsStep
    <2>1. CASE Return
      <3>1. /\ found' \in Seq(Entries) /\ Distinct(found')
            /\ Places(found') = Places(ssdp) \cup Places(mdns)
            /\ \A e \in Range(found') :
                 e \in Range(ssdp) \/ (e \in Range(mdns) /\ e.place \notin Places(ssdp))
        BY <2>1, ReturnedLists
      <3>2. Len(found') = Cardinality(Places(found'))
        BY <3>1, DistinctCount
      <3>3. mdns' = mdns /\ heard' = heard
        BY <2>1 DEF Return, mdnsVars, netVars
      <3>4. ASSUME NEW d \in heard, d.place # Nowhere
            PROVE  \E e \in Range(found') : e.place = d.place /\ e.method = "ssdp"
        <4>1. d.place \in Places(ssdp)
          BY <3>4 DEF ListsInv, SsdpInv
        <4>2. PICK e \in Range(found') : e.place = d.place
          BY <3>1, <4>1 DEF Places
        <4>3. e \in Range(ssdp)
          BY <3>1, <4>1, <4>2
        <4>4. e.method = "ssdp"
          BY <4>3 DEF ListsInv, SsdpInv, SsdpEntry
        <4> QED
          BY <4>2, <4>4
      <3>5. Places(mdns') \subseteq Places(found')
        BY <3>1, <3>3
      <3> QED
        BY <3>2, <3>3, <3>4, <3>5 DEF HeardAreReturned, Places
    <2>2. CASE ~Return
      <3> SUFFICES ASSUME phase' = "found" PROVE HeardAreReturned'
        BY DEF HeardAreReturned
      <3>1. phase = "found" /\ UNCHANGED <<found, mdns, heard>>
        BY <2>2, EndIsEnd
      <3> QED
        BY <3>1 DEF HeardAreReturned, Places
    <2> QED
      BY <2>1, <2>2
  <1> HIDE DEF Inv
  <1>3. Inv => HeardAreReturned
    BY DEF Inv
  <1> QED
    BY <1>1, <1>2, <1>3, PTL DEF Spec

\* What is returned is shown as a proxy if it is the answer of the proxy or has
\* its name in mDNS, and nothing else is; and it is matched like an AVR: for any
\* devices beside a proxy, and any number of answers in any order.
THEOREM ProxyIsShown == Spec => []ProxiesAreNamed
  <1> DEFINE Inv == ListsInv /\ ProxiesAreNamed
  <1>1. Init => Inv
    <2>1. Init => ProxiesAreNamed
      BY DEF Init, ProxiesAreNamed
    <2> QED
      BY <2>1, ListsInit
  <1>2. Inv /\ [Next]_vars => Inv'
    <2> SUFFICES ASSUME Inv, [Next]_vars PROVE ProxiesAreNamed'
      BY ListsStep
    <2>1. CASE Return
      <3>1. ASSUME NEW e \in Range(found')
            PROVE  e.brand = "proxy" <=> \/ e.method = "ssdp" /\ e.place = Proxy
                                         \/ e.method = "mdns" /\ e.place \in NamedPlaces
        <4>0. e \in Range(ssdp) \/ e \in Range(mdns)
          BY <2>1, <3>1, ReturnedLists
        <4>1. CASE e \in Range(ssdp)
          <5>1. PICK d \in Known : d.place # Nowhere /\ e = SsdpEntry(d)
            BY <4>1 DEF ListsInv, SsdpInv
          <5>2. e.place = d.place /\ e.method = "ssdp"
            BY <5>1 DEF SsdpEntry
          <5>3. e.brand = "proxy" <=> d = ProxyDatagram
            BY <5>1, BrandOfSsdp
          <5>4. d = ProxyDatagram <=> e.place = Proxy
            BY <5>2, PlaceOfProxy DEF ProxyDatagram, Datagram
          <5> QED
            BY <5>2, <5>3, <5>4
        <4>2. CASE e \in Range(mdns)
          <5>1. PICK device \in Devices : e = MdnsEntry(device)
            BY <4>2 DEF ListsInv, MdnsInv
          <5>2. e.place = device.place /\ e.method = "mdns"
            BY <5>1 DEF MdnsEntry
          <5> QED
            BY <5>1, <5>2, BrandOfMdns, NameOfPlace
        <4> QED
          BY <4>0, <4>1, <4>2
      <3>2. ASSUME NEW e \in Range(found'), e.brand = "proxy" PROVE e.matched
        <4>1. found' \in Seq(Entries)
          BY <2>1, ReturnedLists
        <4>2. e \in Entries
          BY <4>1, PlacesByIndex
        <4> QED
          BY <3>2, <4>2, ProxyMatches
      <3> QED
        BY <3>1, <3>2 DEF ProxiesAreNamed, NamedPlaces
    <2>2. CASE ~Return
      <3> SUFFICES ASSUME phase' = "found" PROVE ProxiesAreNamed'
        BY DEF ProxiesAreNamed
      <3>1. phase = "found" /\ found' = found
        BY <2>2, EndIsEnd
      <3> QED
        BY <3>1 DEF ProxiesAreNamed, NamedPlaces
    <2> QED
      BY <2>1, <2>2
  <1> HIDE DEF Inv
  <1>3. Inv => ProxiesAreNamed
    BY DEF Inv
  <1> QED
    BY <1>1, <1>2, <1>3, PTL DEF Spec
=============================================================================
