--------------------------- MODULE TagCacheProofs ---------------------------
(***************************************************************************)
(* Proofs of the safety properties of TagCache for any set of tags, any    *)
(* reader, time-to-live and scheduling gap, with or without faults.        *)
(***************************************************************************)
EXTENDS TagCache, TLAPS, FiniteSetTheorems, SequenceTheorems

\* The groups of variables that UNCHANGED names
USE DEF host, seen, chip

-----------------------------------------------------------------------------
(* Sequences of endpoints *)

LEMMA RemoveAtIs ==
  ASSUME NEW S, NEW s \in Seq(S), NEW i \in 1..Len(s)
  PROVE  /\ RemoveAt(s, i) \in Seq(S)
         /\ Len(RemoveAt(s, i)) = Len(s) - 1
         /\ \A j \in 1..(Len(s) - 1) :
              RemoveAt(s, i)[j] = s[IF j < i THEN j ELSE j + 1]
<1> DEFINE front == SubSeq(s, 1, i - 1)
           back == SubSeq(s, i + 1, Len(s))
<1>1. /\ front \in Seq(S) /\ Len(front) = i - 1
      /\ \A j \in 1..(i - 1) : front[j] = s[j]
  BY SubSeqProperties
<1>2. /\ back \in Seq(S) /\ Len(back) = Len(s) - i
      /\ \A j \in 1..(Len(s) - i) : back[j] = s[j + i]
  BY SubSeqProperties
<1>3. RemoveAt(s, i) = front \o back
  BY DEF RemoveAt
<1> HIDE DEF front, back
<1>4. /\ front \o back \in Seq(S)
      /\ Len(front \o back) = Len(front) + Len(back)
      /\ \A j \in 1..(Len(front) + Len(back)) :
           (front \o back)[j] = IF j <= Len(front) THEN front[j] ELSE back[j - Len(front)]
  BY <1>1, <1>2, ConcatProperties
<1>5. Len(front) + Len(back) = Len(s) - 1
  BY <1>1, <1>2
<1>6. ASSUME NEW j \in 1..(Len(s) - 1)
      PROVE  (front \o back)[j] = s[IF j < i THEN j ELSE j + 1]
  <2>1. CASE j < i
    BY <1>1, <1>4, <1>5, <2>1
  <2>2. CASE ~(j < i)
    <3>1. j - (i - 1) \in 1..(Len(s) - i) /\ (j - (i - 1)) + i = j + 1
      BY <2>2
    <3>2. (front \o back)[j] = back[j - (i - 1)]
      BY <1>1, <1>4, <1>5, <2>2
    <3> QED
      BY <1>2, <2>2, <3>1, <3>2
  <2> QED
    BY <2>1, <2>2
<1> QED
  BY <1>3, <1>4, <1>5, <1>6

\* What OneEntryPerTag and UserViewMatchesCache say of a cache
OneEach(s) == \A i, j \in DOMAIN s : s[i].tag = s[j].tag => i = j
View(s) == {s[i].tag : i \in {j \in DOMAIN s : s[j].trig_called}}

LEMMA ViewMember ==
  ASSUME NEW s, NEW t
  PROVE  t \in View(s) <=> \E i \in DOMAIN s : s[i].trig_called /\ s[i].tag = t
BY DEF View

LEMMA RemoveOne ==
  ASSUME NEW s \in Seq(Endpoint), OneEach(s), NEW i \in DOMAIN s
  PROVE  /\ OneEach(RemoveAt(s, i))
         /\ View(RemoveAt(s, i)) = View(s) \ {s[i].tag}
<1> DEFINE r == RemoveAt(s, i)
           From(j) == IF j < i THEN j ELSE j + 1
<1>1. /\ r \in Seq(Endpoint) /\ DOMAIN r = 1..(Len(s) - 1)
      /\ \A j \in DOMAIN r : r[j] = s[From(j)]
  <2>1. i \in 1..Len(s)
    OBVIOUS
  <2>2. /\ r \in Seq(Endpoint) /\ Len(r) = Len(s) - 1
        /\ \A j \in 1..(Len(s) - 1) : r[j] = s[From(j)]
    BY <2>1, RemoveAtIs
  <2>3. DOMAIN r = 1..(Len(s) - 1)
    BY <2>2
  <2> QED
    BY <2>2, <2>3
<1>2. \A j \in DOMAIN r : From(j) \in DOMAIN s /\ From(j) # i
  BY <1>1
<1>3. \A j, k \in DOMAIN r : From(j) = From(k) => j = k
  BY <1>1
<1>4. \A k \in DOMAIN s : k # i => \E j \in DOMAIN r : From(j) = k
  <2> SUFFICES ASSUME NEW k \in DOMAIN s, k # i
               PROVE  \E j \in DOMAIN r : From(j) = k
    OBVIOUS
  <2>1. CASE k < i
    BY <1>1, <2>1
  <2>2. CASE k > i
    <3>1. k - 1 \in DOMAIN r /\ From(k - 1) = k
      BY <1>1, <2>2
    <3> QED
      BY <3>1
  <2> QED
    BY <2>1, <2>2
<1> HIDE DEF r, From
<1>5. OneEach(r)
  BY <1>1, <1>2, <1>3 DEF OneEach
<1>6. \A t : t \in View(r) <=> t \in View(s) \ {s[i].tag}
  BY <1>1, <1>2, <1>4, ViewMember DEF OneEach
<1>7. View(r) = View(s) \ {s[i].tag}
  BY <1>6
<1> QED
  BY <1>5, <1>7 DEF r

\* Entries that keep tag and mark keep both.
LEMMA SameTags ==
  ASSUME NEW s, NEW r, DOMAIN r = DOMAIN s,
         \A i \in DOMAIN s : r[i].tag = s[i].tag /\ r[i].trig_called = s[i].trig_called
  PROVE  (OneEach(s) => OneEach(r)) /\ View(r) = View(s)
<1>1. OneEach(s) => OneEach(r)
  BY DEF OneEach
<1>2. \A t : t \in View(r) <=> t \in View(s)
  BY ViewMember
<1> QED
  BY <1>1, <1>2

AgesWithin(s, b) == \A i \in DOMAIN s : s[i].last_seen <= b

LEMMA AgeCapType == AgeCap \in Nat
BY TagConstantsAssumption DEF AgeCap

\* find_tag_uid_() and what follows it: the tag has one entry afterwards.
LEMMA WithTagIs ==
  ASSUME discovered_endpoint \in Seq(Endpoint), OneEach(discovered_endpoint),
         NEW tag \in Tags, NEW id \in 1..MaxInField
  PROVE  /\ WithTag(tag, id) \in Seq(Endpoint)
         /\ OneEach(WithTag(tag, id))
         /\ View(WithTag(tag, id)) = View(discovered_endpoint)
         /\ \E i \in DOMAIN WithTag(tag, id) : WithTag(tag, id)[i].tag = tag
         /\ \A b \in Nat : AgesWithin(discovered_endpoint, b) => AgesWithin(WithTag(tag, id), b)
<1> DEFINE de == discovered_endpoint
           known == {i \in DOMAIN de : de[i].tag = tag}
           new == [tag |-> tag, id |-> id, last_seen |-> 0, trig_called |-> FALSE]
           W == WithTag(tag, id)
<1>1. new \in Endpoint
  BY AgeCapType DEF Endpoint
<1>2. CASE known = {}
  <2>1. W = Append(de, new)
    BY <1>2 DEF WithTag
  <2>2. /\ W \in Seq(Endpoint) /\ DOMAIN W = 1..(Len(de) + 1)
        /\ \A i \in 1..Len(de) : W[i] = de[i]
        /\ W[Len(de) + 1] = new
    BY <1>1, <2>1, AppendProperties
  <2>3. /\ DOMAIN de = 1..Len(de) /\ Len(de) + 1 \in DOMAIN W
        /\ \A i \in DOMAIN de : i \in DOMAIN W /\ W[i] = de[i] /\ i # Len(de) + 1
        /\ \A i \in DOMAIN W : i \in DOMAIN de \/ i = Len(de) + 1
    BY <2>2
  <2>4. new.tag = tag /\ new.trig_called = FALSE /\ new.last_seen = 0
    OBVIOUS
  <2> HIDE DEF new, W, de
  <2>5. \A i \in DOMAIN de : de[i].tag # tag
    BY <1>2
  <2>6. OneEach(de) => OneEach(W)
    BY <2>2, <2>3, <2>4, <2>5 DEF OneEach
  <2>7. \A t : t \in View(W) <=> t \in View(de)
    <3>1. ASSUME NEW t \in View(W) PROVE t \in View(de)
      <4>1. PICK i \in DOMAIN W : W[i].trig_called /\ W[i].tag = t
        BY ViewMember
      <4>2. i # Len(de) + 1
        BY <2>2, <2>4, <4>1
      <4> QED
        BY <2>3, <4>1, <4>2, ViewMember
    <3>2. ASSUME NEW t \in View(de) PROVE t \in View(W)
      <4>1. PICK i \in DOMAIN de : de[i].trig_called /\ de[i].tag = t
        BY ViewMember
      <4> QED
        BY <2>3, <4>1, ViewMember
    <3> QED
      BY <3>1, <3>2
  <2>8. \E i \in DOMAIN W : W[i].tag = tag
    BY <2>2, <2>3, <2>4
  <2>9. \A b \in Nat : AgesWithin(de, b) => AgesWithin(W, b)
    BY <2>2, <2>3, <2>4 DEF AgesWithin
  <2> QED
    BY <2>2, <2>6, <2>7, <2>8, <2>9 DEF de, W
<1>3. CASE known # {}
  <2>1. W = [i \in DOMAIN de |-> IF i \in known
                                THEN [de[i] EXCEPT !.id = id, !.last_seen = 0] ELSE de[i]]
    BY <1>3 DEF WithTag
  <2>2. ASSUME NEW e \in Endpoint
        PROVE  LET u == [e EXCEPT !.id = id, !.last_seen = 0]
               IN  /\ u \in Endpoint /\ u.tag = e.tag /\ u.trig_called = e.trig_called
                   /\ u.last_seen = 0
    <3>1. 0 \in 0..AgeCap
      BY AgeCapType
    <3> QED
      BY <3>1 DEF Endpoint
  <2>3. \A i \in DOMAIN de : de[i] \in Endpoint
    BY ElementOfSeq
  <2>4. DOMAIN W = DOMAIN de
    BY <2>1
  <2>5. \A i \in DOMAIN de : /\ W[i] \in Endpoint
                            /\ W[i].tag = de[i].tag /\ W[i].trig_called = de[i].trig_called
                            /\ W[i].last_seen \in {0, de[i].last_seen}
    <3> SUFFICES ASSUME NEW i \in DOMAIN de
                 PROVE  /\ W[i] \in Endpoint
                        /\ W[i].tag = de[i].tag /\ W[i].trig_called = de[i].trig_called
                        /\ W[i].last_seen \in {0, de[i].last_seen}
      OBVIOUS
    <3>1. CASE i \in known
      <4>1. W[i] = [de[i] EXCEPT !.id = id, !.last_seen = 0]
        BY <2>1, <3>1
      <4>2. de[i] \in Endpoint
        BY <2>3
      <4> DEFINE u == [de[i] EXCEPT !.id = id, !.last_seen = 0]
      <4>3. /\ u \in Endpoint /\ u.tag = de[i].tag /\ u.trig_called = de[i].trig_called
            /\ u.last_seen = 0
        BY <2>2, <4>2
      <4> HIDE DEF u, W
      <4>4. W[i] = u
        BY <4>1 DEF u
      <4> QED
        BY <4>3, <4>4
    <3>2. CASE i \notin known
      <4>1. W[i] = de[i]
        BY <2>1, <3>2
      <4> QED
        BY <2>3, <4>1
    <3> QED
      BY <3>1, <3>2
  <2>6. DOMAIN de = 1..Len(de) /\ Len(de) \in Nat
    BY DEF de
  <2>7. \A b \in Nat : AgesWithin(de, b) => AgesWithin(W, b)
    BY <2>4, <2>5 DEF AgesWithin
  <2>8. W \in [1..Len(de) -> Endpoint]
    BY <2>1, <2>4, <2>5, <2>6
  <2>9. W \in Seq(Endpoint)
    BY <2>6, <2>8, IsASeq
  <2>10. \E i \in DOMAIN W : W[i].tag = tag
    BY <1>3, <2>4, <2>5
  <2> HIDE DEF W, de
  <2>11. (OneEach(de) => OneEach(W)) /\ View(W) = View(de)
    BY <2>4, <2>5, SameTags
  <2> QED
    BY <2>7, <2>9, <2>10, <2>11 DEF de, W
<1> QED
  BY <1>2, <1>3

\* The reading task marks the entry of its tag.
LEMMA ReportedIs ==
  ASSUME NEW s \in Seq(Endpoint), OneEach(s), NEW tag,
         \E i \in DOMAIN s : s[i].tag = tag
  PROVE  /\ Reported(s, tag) \in Seq(Endpoint)
         /\ OneEach(Reported(s, tag))
         /\ View(Reported(s, tag)) = View(s) \cup {tag}
         /\ \A b \in Nat : AgesWithin(s, b) => AgesWithin(Reported(s, tag), b)
<1> DEFINE R == Reported(s, tag)
<1>1. R = [i \in DOMAIN s |-> IF s[i].tag = tag THEN [s[i] EXCEPT !.trig_called = TRUE]
                                              ELSE s[i]]
  BY DEF Reported
<1>2. \A i \in DOMAIN s : s[i] \in Endpoint
  BY ElementOfSeq
<1>3. ASSUME NEW e \in Endpoint
      PROVE  LET u == [e EXCEPT !.trig_called = TRUE]
             IN  /\ u \in Endpoint /\ u.tag = e.tag /\ u.last_seen = e.last_seen
                 /\ u.trig_called = TRUE
  BY DEF Endpoint
<1>4. DOMAIN R = DOMAIN s
  BY <1>1
<1>5. \A i \in DOMAIN s :
        /\ R[i] \in Endpoint /\ R[i].tag = s[i].tag /\ R[i].last_seen = s[i].last_seen
        /\ s[i].tag = tag => R[i].trig_called = TRUE
        /\ s[i].tag # tag => R[i].trig_called = s[i].trig_called
  <2> SUFFICES ASSUME NEW i \in DOMAIN s
               PROVE  /\ R[i] \in Endpoint /\ R[i].tag = s[i].tag /\ R[i].last_seen = s[i].last_seen
                      /\ s[i].tag = tag => R[i].trig_called = TRUE
                      /\ s[i].tag # tag => R[i].trig_called = s[i].trig_called
    BY Zenon
  <2> DEFINE e == s[i]
  <2>1. R[i] = IF e.tag = tag THEN [e EXCEPT !.trig_called = TRUE] ELSE e
    BY <1>1
  <2>2. e \in Endpoint
    BY <1>2
  <2> HIDE DEF e, R
  <2>3. LET u == [e EXCEPT !.trig_called = TRUE]
        IN  /\ u \in Endpoint /\ u.tag = e.tag /\ u.last_seen = e.last_seen
            /\ u.trig_called = TRUE
    BY <1>3, <2>2
  <2>4. /\ R[i] \in Endpoint /\ R[i].tag = e.tag /\ R[i].last_seen = e.last_seen
        /\ e.tag = tag => R[i].trig_called = TRUE
        /\ e.tag # tag => R[i].trig_called = e.trig_called
    BY <2>1, <2>2, <2>3
  <2> QED
    BY <2>4 DEF e
<1>6. DOMAIN s = 1..Len(s) /\ Len(s) \in Nat
  OBVIOUS
<1>7. R \in [1..Len(s) -> Endpoint]
  BY <1>1, <1>4, <1>5, <1>6
<1>8. R \in Seq(Endpoint)
  BY <1>6, <1>7, IsASeq
<1> HIDE DEF R
<1>9. OneEach(R)
  BY <1>4, <1>5 DEF OneEach
<1>10. \A t : t \in View(R) <=> t \in View(s) \cup {tag}
  <2> SUFFICES ASSUME NEW t PROVE t \in View(R) <=> t \in View(s) \cup {tag}
    OBVIOUS
  <2>1. CASE t = tag
    BY <1>4, <1>5, <2>1, ViewMember
  <2>2. CASE t # tag
    <3>1. t \in View(R) <=> t \in View(s)
      <4>1. ASSUME t \in View(R) PROVE t \in View(s)
        <5>1. PICK i \in DOMAIN R : R[i].trig_called /\ R[i].tag = t
          BY <4>1, ViewMember
        <5>2. i \in DOMAIN s /\ s[i].tag = t /\ s[i].trig_called
          BY <1>4, <1>5, <2>2, <5>1
        <5> QED
          BY <5>2, ViewMember
      <4>2. ASSUME t \in View(s) PROVE t \in View(R)
        <5>1. PICK i \in DOMAIN s : s[i].trig_called /\ s[i].tag = t
          BY <4>2, ViewMember
        <5>2. i \in DOMAIN R /\ R[i].tag = t /\ R[i].trig_called
          BY <1>4, <1>5, <2>2, <5>1
        <5> QED
          BY <5>2, ViewMember
      <4> QED
        BY <4>1, <4>2
    <3> QED
      BY <2>2, <3>1
  <2> QED
    BY <2>1, <2>2
<1>11. \A b \in Nat : AgesWithin(s, b) => AgesWithin(R, b)
  BY <1>4, <1>5 DEF AgesWithin
<1> QED
  BY <1>8, <1>9, <1>10, <1>11 DEF R

LEMMA OlderIs ==
  ASSUME NEW cap \in Nat, NEW age \in 0..cap
  PROVE  Older(age, cap) \in 0..cap /\ Older(age, cap) <= age + 1
BY DEF Older

\* Time makes every entry older, and changes nothing else.
LEMMA AgedIs ==
  ASSUME NEW s \in Seq(Endpoint), OneEach(s)
  PROVE  LET r == [i \in DOMAIN s |-> [s[i] EXCEPT !.last_seen = Older(@, AgeCap)]]
         IN  /\ r \in Seq(Endpoint) /\ Len(r) = Len(s) /\ DOMAIN r = DOMAIN s
             /\ OneEach(r) /\ View(r) = View(s)
             /\ \A i \in DOMAIN s : r[i].last_seen <= s[i].last_seen + 1
<1> DEFINE r == [i \in DOMAIN s |-> [s[i] EXCEPT !.last_seen = Older(@, AgeCap)]]
<1>1. ASSUME NEW e \in Endpoint
      PROVE  LET u == [e EXCEPT !.last_seen = Older(@, AgeCap)]
             IN  /\ u \in Endpoint /\ u.tag = e.tag /\ u.trig_called = e.trig_called
                 /\ u.last_seen <= e.last_seen + 1
  <2>1. e.last_seen \in 0..AgeCap
    BY DEF Endpoint
  <2>2. /\ Older(e.last_seen, AgeCap) \in 0..AgeCap
        /\ Older(e.last_seen, AgeCap) <= e.last_seen + 1
    BY <2>1, OlderIs, AgeCapType
  <2> QED
    BY <2>2 DEF Endpoint
<1>2. ASSUME NEW i \in DOMAIN s
      PROVE  /\ r[i] \in Endpoint
             /\ r[i].tag = s[i].tag /\ r[i].trig_called = s[i].trig_called
             /\ r[i].last_seen <= s[i].last_seen + 1
  <2> DEFINE u == [s[i] EXCEPT !.last_seen = Older(@, AgeCap)]
  <2>1. s[i] \in Endpoint
    BY ElementOfSeq
  <2>2. /\ u \in Endpoint /\ u.tag = s[i].tag /\ u.trig_called = s[i].trig_called
        /\ u.last_seen <= s[i].last_seen + 1
    BY <1>1, <2>1
  <2>3. r[i] = u
    OBVIOUS
  <2> HIDE DEF u, r
  <2> QED
    BY <2>2, <2>3
<1>3. DOMAIN r = DOMAIN s /\ DOMAIN s = 1..Len(s) /\ Len(s) \in Nat
  OBVIOUS
<1>4. r \in [1..Len(s) -> Endpoint]
  BY <1>2, <1>3
<1>5. r \in Seq(Endpoint) /\ Len(r) = Len(s)
  BY <1>3, <1>4, IsASeq
<1> HIDE DEF r
<1>6. OneEach(r) /\ View(r) = View(s)
  BY <1>2, <1>3, SameTags
<1> QED
  BY <1>2, <1>3, <1>5, <1>6 DEF r

-----------------------------------------------------------------------------
(* The inductive invariant, by the parts of the system *)

HostTypeOK ==
  /\ nci_state \in HostState
  /\ nci_state_error \in {"NONE", "RFST_DISCOVERY"}
  /\ error_count \in 0..(NFCC_MAX_ERROR_COUNT + 1)
  /\ state_age \in 0..(EpTimeout + 1)

LoopTypeOK ==
  /\ pc \in {"loop", "idle", "await", "purge"}
  /\ selecting_endpoint \in BOOLEAN
  /\ next_task \in {"EP_READ", "EP_CLEAN"}
  /\ lag \in 0..MaxLag

\* The chip gives no more discovery IDs than tags fit on the reader.
ChipOK ==
  /\ nfcc \in NfccState
  /\ offered \in Seq(Tags) /\ Len(offered) <= MaxInField
  /\ target \in 0..Len(offered) /\ (nfcc = "selecting" <=> target # 0)
  /\ ntf \in Seq(Message)
  /\ field \subseteq Tags /\ IsFiniteSet(field) /\ Cardinality(field) <= MaxInField

\* A purge of a cache with two entries for a tag would take back a tag that is
\* still cached: OneEntryPerTag is what UserViewMatchesCache rests on.
CacheOK ==
  /\ discovered_endpoint \in Seq(Endpoint)
  /\ kept \in 0..Len(discovered_endpoint)
  /\ pc # "purge" => kept = 0
  /\ OneEach(discovered_endpoint)
  /\ on = View(discovered_endpoint)

Inv == HostTypeOK /\ LoopTypeOK /\ ChipOK /\ CacheOK

LEMMA InvImplies ==
  ASSUME Inv
  PROVE  TypeOK /\ OneEntryPerTag /\ UserViewMatchesCache
<1>1. \A i \in DOMAIN discovered_endpoint : discovered_endpoint[i].tag \in Tags
  <2>1. \A i \in DOMAIN discovered_endpoint : discovered_endpoint[i] \in Endpoint
    BY ElementOfSeq DEF Inv, CacheOK
  <2> QED
    BY <2>1 DEF Endpoint
<1>2. on \subseteq Tags
  BY <1>1 DEF Inv, CacheOK, View
<1>3. TypeOK
  BY <1>2 DEF Inv, HostTypeOK, LoopTypeOK, ChipOK, CacheOK, TypeOK
<1>4. OneEntryPerTag
  BY DEF Inv, CacheOK, OneEach, OneEntryPerTag
<1>5. UserViewMatchesCache
  BY DEF Inv, CacheOK, View, UserViewMatchesCache
<1> QED
  BY <1>3, <1>4, <1>5

\* The initialisation's states by their places
LEMMA HostStates ==
  /\ DOMAIN BootStates = 1..5 /\ Len(BootStates) = 5
  /\ \A i \in 1..5 : BootStates[i] \in HostState
  /\ EpStates \cup {"NFCC_RESET", "RFST_IDLE", "RFST_DISCOVERY", "RFST_W4_HOST_SELECT",
                   "FAILED"} \subseteq HostState
<1>1. DOMAIN BootStates = 1..5 /\ Len(BootStates) = 5 /\ BootStates[1] = "NFCC_RESET"
  BY DEF BootStates
<1>2. \A i \in 1..5 : BootStates[i] \in Range(BootStates)
  BY <1>1 DEF Range
<1> QED
  BY <1>1, <1>2 DEF HostState

LEMMA InitInv == Init => Inv
<1> SUFFICES ASSUME Init PROVE Inv
  OBVIOUS
<1>0. HostTypeOK
  BY HostStates, TagConstantsAssumption DEF Init, HostTypeOK
<1>1. LoopTypeOK
  <2>1. lag \in 0..MaxLag
    BY TagConstantsAssumption DEF Init
  <2> QED
    BY <2>1, Zenon DEF Init, LoopTypeOK
<1>2. ChipOK
  <2>1. <<>> \in Seq(Tags) /\ <<>> \in Seq(Message) /\ Len(<<>>) = 0
    BY EmptySeq
  <2>2. IsFiniteSet({}) /\ Cardinality({}) = 0
    BY FS_EmptySet
  <2> QED
    BY <2>1, <2>2, TagConstantsAssumption DEF Init, ChipOK, NfccState
<1>3. CacheOK
  <2>1. <<>> \in Seq(Endpoint) /\ Len(<<>>) = 0 /\ DOMAIN <<>> = {}
    BY EmptySeq
  <2>2. OneEach(<<>>) /\ View(<<>>) = {}
    BY <2>1 DEF OneEach, View
  <2> QED
    BY <2>1, <2>2 DEF Init, CacheOK
<1> QED
  BY <1>0, <1>1, <1>2, <1>3 DEF Inv

-----------------------------------------------------------------------------
(* The host's side *)

LEMMA HostStep ==
  ASSUME HostTypeOK, [Next]_vars
  PROVE  HostTypeOK'
<1>1. ASSUME NEW s \in HostState, SetState(s) PROVE HostTypeOK'
  BY <1>1, TagConstantsAssumption DEF SetState, HostTypeOK
<1>2. ASSUME UNCHANGED host PROVE HostTypeOK'
  BY <1>2 DEF HostTypeOK
<1>3. {"NFCC_RESET", "RFST_IDLE", "RFST_DISCOVERY", "RFST_W4_HOST_SELECT",
       "EP_SELECTING", "EP_DEACTIVATING", "FAILED"} \subseteq HostState
  BY HostStates DEF EpStates
<1>4. CASE FastRecovery \/ BringUp \/ Idle
  <2>1. ASSUME NEW first \in 1..5, NEW failing \in 1..5, BootFailed(first, failing)
        PROVE  HostTypeOK'
    <3> DEFINE count == IF failing = first THEN error_count ELSE 0
    <3>1. count \in 0..(NFCC_MAX_ERROR_COUNT + 1)
      BY TagConstantsAssumption DEF HostTypeOK
    <3> HIDE DEF count
    <3>2. CASE count > NFCC_MAX_ERROR_COUNT
      <4>1. SetState("FAILED") \/ SetState("NFCC_RESET")
        BY <2>1, <3>2 DEF BootFailed, count
      <4> QED
        BY <1>1, <1>3, <4>1
    <3>3. CASE ~(count > NFCC_MAX_ERROR_COUNT)
      <4>1. /\ nci_state' = BootStates[failing] /\ nci_state_error' = "NONE"
            /\ error_count' = count + 1 /\ state_age' = 0
        BY <2>1, <3>3 DEF BootFailed, count
      <4>2. count + 1 \in 0..(NFCC_MAX_ERROR_COUNT + 1)
        BY <3>1, <3>3, TagConstantsAssumption
      <4> QED
        BY <4>1, <4>2, HostStates, TagConstantsAssumption DEF HostTypeOK
    <3> QED
      BY <3>2, <3>3
  <2>2. CASE BringUp
    <3>1. SetState("RFST_IDLE") \/ \E first, failing \in 1..5 : BootFailed(first, failing)
      BY <2>2, HostStates DEF BringUp
    <3> QED
      BY <1>1, <1>3, <2>1, <3>1
  <2> QED
    BY <1>1, <1>2, <1>3, <1>4, <2>2 DEF FastRecovery, Idle
<1>5. CASE StartDiscovery
  <2>1. ASSUME DiscoveryFailed PROVE HostTypeOK'
    <3>1. CASE error_count > NFCC_MAX_ERROR_COUNT
      BY <1>1, <1>3, <2>1, <3>1 DEF DiscoveryFailed
    <3>2. CASE ~(error_count > NFCC_MAX_ERROR_COUNT)
      <4>1. error_count + 1 \in 0..(NFCC_MAX_ERROR_COUNT + 1)
        BY <3>2, TagConstantsAssumption DEF HostTypeOK
      <4> QED
        BY <2>1, <3>2, <4>1 DEF DiscoveryFailed, HostTypeOK
    <3> QED
      BY <3>1, <3>2
  <2> QED
    BY <1>1, <1>3, <1>5, <2>1 DEF StartDiscovery
<1>6. CASE SelectEndpoint
  BY <1>1, <1>2, <1>3, <1>6 DEF SelectEndpoint
<1>7. CASE ProcessMessage
  BY <1>1, <1>2, <1>3, <1>7
  DEF ProcessMessage, NoMessage, ReadFails, RfDiscover, IntfActivated, RfDeactivated,
      ActivationFailed
<1>8. CASE PurgeOldTags \/ Nfcc \/ SetMode \/ TagComes \/ TagLeaves
  BY <1>2, <1>8
  DEF PurgeOldTags, Nfcc, NfccActivates, NfccOffers, NfccSelects, SetMode, TagComes, TagLeaves
<1>9. CASE Tick
  BY <1>9, TagConstantsAssumption DEF Tick, Older, HostTypeOK
<1>10. CASE UNCHANGED vars
  BY <1>2, <1>10 DEF vars
<1> QED
  BY <1>4, <1>5, <1>6, <1>7, <1>8, <1>9, <1>10 DEF Next, Driver

LEMMA LoopStep ==
  ASSUME LoopTypeOK, [Next]_vars
  PROVE  LoopTypeOK'
<1>0. 0 \in 0..MaxLag
  BY TagConstantsAssumption
<1>1. CASE FastRecovery \/ BringUp \/ Idle \/ StartDiscovery
  BY <1>0, <1>1
  DEF FastRecovery, BringUp, Idle, StartDiscovery, EnterLoop, LoopTypeOK
<1>2. CASE SelectEndpoint
  <2>1. selecting_endpoint' \in BOOLEAN
    BY <1>2, Zenon DEF SelectEndpoint, SelectedIndex, LoopTypeOK
  <2> QED
    BY <1>0, <1>2, <2>1 DEF SelectEndpoint, EnterLoop, LoopTypeOK
<1>3. CASE ProcessMessage
  <2>1. EndOfWait /\ UNCHANGED selecting_endpoint /\ next_task' \in {next_task, "EP_READ"}
    BY <1>3
    DEF ProcessMessage, NoMessage, ReadFails, RfDiscover, IntfActivated, RfDeactivated,
        ActivationFailed, Receive
  <2> QED
    BY <1>0, <2>1 DEF EndOfWait, LoopTypeOK
<1>4. CASE PurgeOldTags
  BY <1>4 DEF PurgeOldTags, LoopTypeOK
<1>5. CASE SetMode
  BY <1>5, TagConstantsAssumption DEF SetMode, LoopTypeOK
<1>6. CASE Nfcc \/ TagComes \/ TagLeaves
  BY <1>6
  DEF Nfcc, NfccActivates, NfccOffers, NfccSelects, TagComes, TagLeaves, LoopTypeOK
<1>7. CASE Tick
  <2>1. lag' \in 0..MaxLag
    BY <1>7, OlderIs, TagConstantsAssumption DEF Tick, LoopTypeOK
  <2> QED
    BY <1>7, <2>1 DEF Tick, LoopTypeOK
<1>8. CASE UNCHANGED vars
  BY <1>8 DEF vars, LoopTypeOK
<1> QED
  BY <1>1, <1>2, <1>3, <1>4, <1>5, <1>6, <1>7, <1>8 DEF Next, Driver

-----------------------------------------------------------------------------
(* The chip's side *)

LEMMA TailType ==
  ASSUME NEW S, NEW s \in Seq(S), s # <<>>
  PROVE  Tail(s) \in Seq(S) /\ Head(s) \in S
BY HeadTailProperties

LEMMA StopStep ==
  ASSUME ChipOK, NEW queue \in Seq(Message), Stop(queue), UNCHANGED field
  PROVE  ChipOK'
<1>1. CASE StopDone(queue)
  <2>1. [kind |-> "deactivate"] \in Message
    BY DEF Message
  <2>2. Append(queue, [kind |-> "deactivate"]) \in Seq(Message)
    BY <2>1, AppendProperties
  <2>3. ntf' \in Seq(Message) /\ nfcc' \in NfccState
    BY <1>1, <2>2 DEF StopDone, NfccState
  <2>4. <<>> \in Seq(Tags) /\ Len(<<>>) = 0
    BY EmptySeq
  <2> QED
    BY <1>1, <2>3, <2>4, TagConstantsAssumption DEF StopDone, ChipOK
<1>2. CASE ntf' = queue /\ UNCHANGED <<nfcc, offered, target>>
  BY <1>2 DEF ChipOK
<1> QED
  BY <1>1, <1>2 DEF Stop, StopFailed

LEMMA ChipStep ==
  ASSUME ChipOK, CacheOK, [Next]_vars
  PROVE  ChipOK'
<1>a. ASSUME UNCHANGED <<chip, field>> PROVE ChipOK'
  BY <1>a DEF ChipOK
<1>b. ntf \in Seq(Message)
  BY DEF ChipOK
<1>1. CASE BringUp
  <2>1. <<>> \in Seq(Tags) /\ <<>> \in Seq(Message) /\ Len(<<>>) = 0
    BY EmptySeq
  <2> QED
    BY <1>1, <2>1, TagConstantsAssumption DEF BringUp, ChipOK, NfccState
<1>2. CASE Idle
  BY <1>2, <1>a, <1>b, StopStep DEF Idle
<1>3. CASE StartDiscovery
  BY <1>3 DEF StartDiscovery, ChipOK, NfccState
<1>4. CASE SelectEndpoint
  <2>1. CASE Stop(ntf)
    BY <1>4, <1>b, <2>1, StopStep DEF SelectEndpoint
  <2>2. CASE UNCHANGED chip
    BY <1>4, <1>a, <2>2 DEF SelectEndpoint
  <2>3. CASE \E id \in DOMAIN offered : /\ nfcc' = "selecting" /\ target' = id
                                      /\ UNCHANGED <<offered, ntf>>
    <3>1. target' \in 1..Len(offered)
      BY <2>3 DEF ChipOK
    <3> QED
      BY <1>4, <2>3, <3>1 DEF SelectEndpoint, ChipOK, NfccState
  <2> QED
    BY <1>4, <2>1, <2>2, <2>3 DEF SelectEndpoint
<1>5. CASE ProcessMessage
  <2>1. UNCHANGED field
    BY <1>5
    DEF ProcessMessage, NoMessage, ReadFails, RfDiscover, IntfActivated, RfDeactivated,
        ActivationFailed, Receive, EndOfWait
  <2>2. ntf = <<>> \/ Tail(ntf) \in Seq(Message)
    BY <1>b, TailType
  <2>3. CASE UNCHANGED chip
    BY <1>a, <2>1, <2>3
  <2>4. CASE ntf # <<>> /\ ntf' \in {ntf, Tail(ntf)} /\ UNCHANGED <<nfcc, offered, target>>
    BY <2>1, <2>2, <2>4 DEF ChipOK
  <2>5. CASE ntf # <<>> /\ Stop(Tail(ntf))
    BY <2>1, <2>2, <2>5, StopStep
  <2> QED
    BY <1>5, <2>3, <2>4, <2>5
    DEF ProcessMessage, NoMessage, ReadFails, RfDiscover, IntfActivated, RfDeactivated,
        ActivationFailed, Receive, Stop
<1>6. CASE NfccActivates
  <2>1. PICK t \in field :
          /\ field = {t}
          /\ ntf' = Append(ntf, [kind |-> "activated", tag |-> t, id |-> 1])
    BY <1>6 DEF NfccActivates
  <2>2. t \in Tags /\ 1 \in 1..MaxInField
    <3>1. Cardinality(field) = 1
      BY <2>1, FS_Singleton
    <3> QED
      BY <3>1, TagConstantsAssumption DEF ChipOK
  <2>3. [kind |-> "activated", tag |-> t, id |-> 1] \in Message
    BY <2>2 DEF Message
  <2>4. ntf' \in Seq(Message)
    BY <1>b, <2>1, <2>3, AppendProperties
  <2> QED
    BY <1>6, <2>4 DEF NfccActivates, ChipOK, NfccState
<1>7. CASE NfccOffers
  <2> DEFINE Offer(s) == [i \in DOMAIN s |-> [kind |-> "discover", tag |-> s[i], id |-> i,
                                             more |-> i < Len(s)]]
  <2>1. PICK s \in SetToSeqs(field) : offered' = s /\ ntf' = ntf \o Offer(s)
    BY <1>7 DEF NfccOffers
  <2>2. Cardinality(field) \in Nat /\ Cardinality(field) <= MaxInField
    BY FS_CardinalityType DEF ChipOK
  <2>3. s \in [1..Cardinality(field) -> field]
    BY DEF SetToSeqs
  <2>4. s \in [1..Cardinality(field) -> Tags]
    BY <2>3 DEF ChipOK
  <2>5. s \in Seq(Tags) /\ Len(s) = Cardinality(field) /\ DOMAIN s = 1..Cardinality(field)
    BY <2>2, <2>4, IsASeq
  <2>6. ASSUME NEW i \in 1..Cardinality(field)
        PROVE  [kind |-> "discover", tag |-> s[i], id |-> i, more |-> i < Len(s)] \in Message
    <3>1. s[i] \in Tags /\ i \in 1..MaxInField
      BY <2>2, <2>4, TagConstantsAssumption
    <3>2. (i < Len(s)) \in BOOLEAN
      OBVIOUS
    <3> QED
      BY <3>1, <3>2, Zenon DEF Message
  <2>7. Offer(s) \in [1..Cardinality(field) -> Message]
    BY <2>5, <2>6
  <2>8. Offer(s) \in Seq(Message)
    BY <2>2, <2>7, IsASeq
  <2>9. ntf' \in Seq(Message)
    BY <1>b, <2>1, <2>8, ConcatProperties
  <2>10. offered' \in Seq(Tags) /\ Len(offered') <= MaxInField
    BY <2>1, <2>2, <2>5
  <2> QED
    BY <1>7, <2>9, <2>10 DEF NfccOffers, ChipOK, NfccState
<1>8. CASE NfccSelects
  <2>1. [kind |-> "activated", tag |-> offered[target], id |-> target] \in Message
    <3>1. target \in DOMAIN offered /\ target \in 1..MaxInField
      BY <1>8, TagConstantsAssumption DEF NfccSelects, ChipOK
    <3>2. offered[target] \in Tags
      BY <3>1, ElementOfSeq DEF ChipOK
    <3> QED
      BY <3>1, <3>2 DEF Message
  <2>2. [kind |-> "failed"] \in Message
    BY DEF Message
  <2>3. ntf' \in Seq(Message)
    <3>1. \E message \in Message : ntf' = Append(ntf, message)
      BY <1>8, <2>1, <2>2 DEF NfccSelects
    <3> QED
      BY <1>b, <3>1, AppendProperties
  <2>4. nfcc' \in {"active", "w4"} /\ target' = 0
    BY <1>8 DEF NfccSelects
  <2> QED
    BY <1>8, <2>3, <2>4 DEF NfccSelects, ChipOK, NfccState
<1>9. CASE TagComes
  <2>1. PICK t \in Tags \ field : field' = field \cup {t}
    BY <1>9 DEF TagComes
  <2>2. /\ IsFiniteSet(field') /\ Cardinality(field') = Cardinality(field) + 1
        /\ Cardinality(field) \in Nat
    BY <2>1, FS_AddElement, FS_CardinalityType DEF ChipOK
  <2>3. Cardinality(field') <= MaxInField
    BY <1>9, <2>2, TagConstantsAssumption DEF TagComes
  <2> QED
    BY <1>9, <2>1, <2>2, <2>3 DEF TagComes, ChipOK
<1>10. CASE TagLeaves
  <2>1. PICK t \in field : field' = field \ {t}
    BY <1>10 DEF TagLeaves
  <2>2. /\ IsFiniteSet(field') /\ Cardinality(field') = Cardinality(field) - 1
        /\ Cardinality(field) \in Nat
    BY <2>1, FS_RemoveElement, FS_CardinalityType DEF ChipOK
  <2>3. Cardinality(field') <= MaxInField
    BY <2>2, TagConstantsAssumption DEF ChipOK
  <2> QED
    BY <1>10, <2>1, <2>2, <2>3 DEF TagLeaves, ChipOK
<1>11. CASE FastRecovery \/ PurgeOldTags \/ SetMode \/ Tick \/ UNCHANGED vars
  BY <1>11, <1>a DEF FastRecovery, PurgeOldTags, SetMode, Tick, vars
<1> QED
  BY <1>1, <1>2, <1>3, <1>4, <1>5, <1>6, <1>7, <1>8, <1>9, <1>10, <1>11
  DEF Next, Driver, Nfcc

-----------------------------------------------------------------------------
(* The cache and the automations' view of it *)

\* erase_tag_() takes back the automations' view of the tag it erases.
LEMMA EraseStep ==
  ASSUME CacheOK, NEW index \in Nat, EraseTag(index)
  PROVE  /\ discovered_endpoint' \in Seq(Endpoint)
         /\ OneEach(discovered_endpoint')
         /\ on' = View(discovered_endpoint')
         /\ Len(discovered_endpoint') =
              IF index \in DOMAIN discovered_endpoint THEN Len(discovered_endpoint) - 1
                                                      ELSE Len(discovered_endpoint)
<1>1. CASE index \in DOMAIN discovered_endpoint
  <2>1. /\ discovered_endpoint' = RemoveAt(discovered_endpoint, index)
        /\ on' = on \ {discovered_endpoint[index].tag}
    BY <1>1 DEF EraseTag
  <2>2. /\ discovered_endpoint \in Seq(Endpoint) /\ OneEach(discovered_endpoint)
        /\ on = View(discovered_endpoint)
    BY DEF CacheOK
  <2>3. index \in 1..Len(discovered_endpoint)
    BY <1>1, <2>2
  <2> QED
    BY <1>1, <2>1, <2>2, <2>3, RemoveOne, RemoveAtIs
<1>2. CASE index \notin DOMAIN discovered_endpoint
  BY <1>2 DEF EraseTag, CacheOK
<1> QED
  BY <1>1, <1>2

LEMMA CacheStep ==
  ASSUME CacheOK, ChipOK, [Next]_vars
  PROVE  CacheOK'
<1>a. ASSUME UNCHANGED <<discovered_endpoint, on, kept>>, pc # "purge" \/ UNCHANGED pc
      PROVE  CacheOK'
  BY <1>a DEF CacheOK
<1>b. discovered_endpoint \in Seq(Endpoint) /\ OneEach(discovered_endpoint)
  BY DEF CacheOK
<1>1. CASE FastRecovery \/ BringUp \/ Idle \/ StartDiscovery \/ SelectEndpoint
  <2>1. pc # "purge" /\ UNCHANGED <<discovered_endpoint, on, kept>>
    BY <1>1 DEF FastRecovery, BringUp, Idle, StartDiscovery, SelectEndpoint, EnterLoop
  <2> QED
    BY <1>a, <2>1
<1>2. CASE ProcessMessage
  <2>1. kept = 0 /\ kept' = 0 /\ pc # "purge"
    BY <1>2
    DEF ProcessMessage, NoMessage, ReadFails, RfDiscover, IntfActivated, RfDeactivated,
        ActivationFailed, Receive, EndOfWait, Waiting, CacheOK
  <2>2. CASE UNCHANGED <<discovered_endpoint, on>>
    BY <1>a, <2>1, <2>2
  <2>3. ASSUME NEW m \in Message, m.kind \in {"discover", "activated"}
        PROVE  m.tag \in Tags /\ m.id \in 1..MaxInField
    BY <2>3 DEF Message
  <2>4. ntf # <<>> => Head(ntf) \in Message
    BY TailType DEF ChipOK
  <2>5. ASSUME /\ discovered_endpoint' \in Seq(Endpoint) /\ OneEach(discovered_endpoint')
               /\ on' = View(discovered_endpoint')
        PROVE  CacheOK'
    BY <2>1, <2>5 DEF CacheOK
  <2>6. CASE RfDiscover
    <3>1. discovered_endpoint' = WithTag(Head(ntf).tag, Head(ntf).id) /\ UNCHANGED on
      BY <2>6 DEF RfDiscover
    <3>2. Head(ntf).tag \in Tags /\ Head(ntf).id \in 1..MaxInField
      BY <2>3, <2>4, <2>6 DEF RfDiscover, Receive
    <3>3. on = View(discovered_endpoint)
      BY DEF CacheOK
    <3> QED
      BY <1>b, <2>5, <3>1, <3>2, <3>3, WithTagIs
  <2>7. CASE IntfActivated
    <3> DEFINE tag == Head(ntf).tag
               W == WithTag(tag, Head(ntf).id)
    <3>1. tag \in Tags /\ Head(ntf).id \in 1..MaxInField
      BY <2>3, <2>4, <2>7 DEF IntfActivated, Receive
    <3>2. /\ W \in Seq(Endpoint) /\ OneEach(W) /\ View(W) = on
          /\ \E i \in DOMAIN W : W[i].tag = tag
      BY <1>b, <3>1, WithTagIs DEF CacheOK
    <3>3. CASE discovered_endpoint' = W /\ UNCHANGED on
      BY <2>5, <3>2, <3>3
    <3>4. CASE discovered_endpoint' = Reported(W, tag) /\ on' = on \cup {tag}
      <4> HIDE DEF W, tag
      <4> QED
        BY <2>5, <3>2, <3>4, ReportedIs
    <3> QED
      BY <2>7, <3>3, <3>4 DEF IntfActivated
  <2>8. CASE ActivationFailed
    <3>1. \/ UNCHANGED <<discovered_endpoint, on>>
          \/ \E index \in {1, 2} : EraseTag(index)
      BY <2>8 DEF ActivationFailed
    <3> QED
      BY <2>2, <2>5, <3>1, EraseStep
  <2> QED
    BY <1>2, <2>2, <2>6, <2>7, <2>8 DEF ProcessMessage, NoMessage, ReadFails, RfDeactivated
<1>3. CASE PurgeOldTags
  <2>1. pc = "purge" /\ kept \in 0..Len(discovered_endpoint) /\ Len(discovered_endpoint) \in Nat
    BY <1>3, <1>b DEF PurgeOldTags, CacheOK
  <2>2. CASE Unchecked = 0
    BY <1>3, <2>1, <2>2 DEF PurgeOldTags, CacheOK
  <2>3. CASE Unchecked # 0
    <3>1. UNCHANGED pc /\ Unchecked \in DOMAIN discovered_endpoint
      BY <1>3, <1>b, <2>1, <2>3 DEF PurgeOldTags, Unchecked
    <3>2. CASE Fresh(discovered_endpoint[Unchecked])
      BY <1>3, <2>1, <2>3, <3>1, <3>2 DEF PurgeOldTags, CacheOK, Unchecked
    <3>3. CASE ~Fresh(discovered_endpoint[Unchecked])
      <4>1. EraseTag(Unchecked) /\ UNCHANGED kept
        BY <1>3, <2>3, <3>3 DEF PurgeOldTags
      <4>2. Unchecked \in Nat /\ kept <= Len(discovered_endpoint) - 1
        BY <2>1, <2>3 DEF Unchecked
      <4>3. /\ discovered_endpoint' \in Seq(Endpoint) /\ OneEach(discovered_endpoint')
            /\ on' = View(discovered_endpoint')
            /\ Len(discovered_endpoint') = Len(discovered_endpoint) - 1
        BY <3>1, <4>1, <4>2, EraseStep
      <4>4. kept' \in 0..Len(discovered_endpoint')
        BY <2>1, <4>1, <4>2, <4>3
      <4> QED
        BY <2>1, <3>1, <4>3, <4>4 DEF CacheOK
    <3> QED
      BY <3>2, <3>3
  <2> QED
    BY <2>2, <2>3
<1>4. CASE Nfcc \/ SetMode \/ TagComes \/ TagLeaves \/ UNCHANGED vars
  <2>1. UNCHANGED <<discovered_endpoint, on, kept, pc>>
    BY <1>4
    DEF Nfcc, NfccActivates, NfccOffers, NfccSelects, SetMode, TagComes, TagLeaves, vars
  <2> QED
    BY <1>a, <2>1
<1>5. CASE Tick
  <2> DEFINE de == discovered_endpoint
             Aged == [i \in DOMAIN de |-> [de[i] EXCEPT !.last_seen = Older(@, AgeCap)]]
  <2>1. Aged \in Seq(Endpoint) /\ Len(Aged) = Len(de) /\ OneEach(Aged) /\ View(Aged) = View(de)
    BY <1>b, AgedIs
  <2>2. discovered_endpoint' = Aged /\ UNCHANGED <<pc, on, kept>>
    BY <1>5 DEF Tick
  <2> HIDE DEF Aged
  <2> QED
    BY <2>1, <2>2 DEF CacheOK
<1> QED
  BY <1>1, <1>2, <1>3, <1>4, <1>5 DEF Next, Driver

-----------------------------------------------------------------------------
(* How old an entry gets *)

\* Where the bound on the entries' ages stands: the purge takes it back to
\* tag_ttl_, a pass without one (fast recovery) leaves it a gap higher.  There is
\* none once no pass follows: with FAILED the initialisation takes the purge along.
AgeBound ==
  IF pc # "loop" THEN TagTtl + 2 * MaxLag + lag
  ELSE IF nci_state \in Range(BootStates) THEN TagTtl + MaxLag + lag
  ELSE TagTtl + lag

\* The entries the purge has passed were young when it passed them.
AgeInv ==
  /\ ~GivenUp => AgesWithin(discovered_endpoint, AgeBound)
  /\ pc = "purge" =>
       \A i \in DOMAIN discovered_endpoint :
         i > Unchecked => discovered_endpoint[i].last_seen <= TagTtl + lag

LEMMA AgeType ==
  ASSUME CacheOK
  PROVE  \A i \in DOMAIN discovered_endpoint : discovered_endpoint[i].last_seen \in Nat
<1>1. \A i \in DOMAIN discovered_endpoint : discovered_endpoint[i] \in Endpoint
  BY ElementOfSeq DEF CacheOK
<1>2. \A e \in Endpoint : e.last_seen \in Nat
  BY AgeCapType DEF Endpoint
<1> QED
  BY <1>1, <1>2

LEMMA AgesRelax ==
  ASSUME CacheOK, NEW a \in Nat, NEW b \in Nat, a <= b, AgesWithin(discovered_endpoint, a)
  PROVE  AgesWithin(discovered_endpoint, b)
BY AgeType DEF AgesWithin

\* An erasure leaves entries, in their order, and no others.
LEMMA EraseAges ==
  ASSUME CacheOK, NEW index \in Nat, EraseTag(index)
  PROVE  /\ \A b \in Nat : AgesWithin(discovered_endpoint, b) => AgesWithin(discovered_endpoint', b)
         /\ index \in DOMAIN discovered_endpoint =>
              \A j \in DOMAIN discovered_endpoint' :
                j >= index => /\ j + 1 \in DOMAIN discovered_endpoint
                              /\ discovered_endpoint'[j] = discovered_endpoint[j + 1]
<1> DEFINE de == discovered_endpoint
<1>1. CASE index \in DOMAIN de
  <2>1. index \in 1..Len(de) /\ Len(de) \in Nat /\ DOMAIN de = 1..Len(de)
    BY <1>1 DEF CacheOK
  <2>2. /\ de' \in Seq(Endpoint) /\ Len(de') = Len(de) - 1
        /\ \A j \in 1..(Len(de) - 1) : de'[j] = de[IF j < index THEN j ELSE j + 1]
    <3>1. de \in Seq(Endpoint)
      BY DEF CacheOK
    <3>2. de' = RemoveAt(de, index)
      BY <1>1 DEF EraseTag
    <3> HIDE DEF de
    <3>3. /\ RemoveAt(de, index) \in Seq(Endpoint) /\ Len(RemoveAt(de, index)) = Len(de) - 1
          /\ \A j \in 1..(Len(de) - 1) :
               RemoveAt(de, index)[j] = de[IF j < index THEN j ELSE j + 1]
      BY <2>1, <3>1, RemoveAtIs
    <3> QED
      BY <3>2, <3>3
  <2>3. DOMAIN de' = 1..(Len(de) - 1)
    BY <2>2
  <2> HIDE DEF de
  <2>4. \A j \in DOMAIN de' : \E k \in DOMAIN de : de'[j] = de[k]
    BY <2>1, <2>2, <2>3
  <2>5. \A b \in Nat : AgesWithin(de, b) => AgesWithin(de', b)
    BY <2>4 DEF AgesWithin
  <2>6. \A j \in DOMAIN de' : j >= index => j + 1 \in DOMAIN de /\ de'[j] = de[j + 1]
    BY <2>1, <2>2, <2>3
  <2> QED
    BY <2>5, <2>6 DEF de
<1>2. CASE index \notin DOMAIN de
  BY <1>2 DEF EraseTag
<1> QED
  BY <1>1, <1>2

LEMMA AgeStep ==
  ASSUME Inv, AgeInv, [Next]_vars
  PROVE  AgeInv'
<1> DEFINE de == discovered_endpoint
<1>a. /\ TagTtl \in Nat /\ MaxLag \in Nat /\ lag \in Nat /\ lag <= MaxLag
      /\ LoopTypeOK /\ ChipOK /\ CacheOK /\ LoopTypeOK' /\ CacheOK'
  BY LoopStep, CacheStep, TagConstantsAssumption DEF Inv, LoopTypeOK
<1>b. AgeBound \in Nat
  BY <1>a DEF AgeBound
<1>c. \A i \in DOMAIN de : de[i].last_seen \in Nat
  BY <1>a, AgeType
<1>d. pc # "purge" => kept = 0
  BY <1>a DEF CacheOK
<1>e. lag' \in Nat /\ lag' <= MaxLag /\ Len(de) \in Nat
  BY <1>a, TagConstantsAssumption DEF LoopTypeOK, CacheOK
\* A step that leaves the cache, the place in the pass and the clock alone
<1>f. ASSUME UNCHANGED <<pc, nci_state, lag, discovered_endpoint, kept>> PROVE AgeInv'
  BY <1>f DEF AgeInv, AgeBound, AgesWithin, Unchecked, GivenUp
\* A step from outside a purge to within a pass
<1>g. ASSUME ~GivenUp, pc # "purge", UNCHANGED kept, pc' # "loop",
             lag' = lag \/ (lag' = 0 /\ pc = "loop"),
             \A b \in Nat : AgesWithin(de, b) => AgesWithin(de', b)
      PROVE  AgeInv'
  <2>1. AgeBound <= TagTtl + 2 * MaxLag + lag'
    BY <1>a, <1>g DEF AgeBound
  <2>2. TagTtl + 2 * MaxLag + lag' \in Nat
    <3>1. \A x, y, z \in Nat : x + 2 * y + z \in Nat
      OBVIOUS
    <3> QED
      BY <1>e, <3>1, TagConstantsAssumption
  <2>3. AgesWithin(de, TagTtl + 2 * MaxLag + lag')
    BY <1>a, <1>b, <1>g, <2>1, <2>2, AgesRelax DEF AgeInv
  <2>4. AgesWithin(de', TagTtl + 2 * MaxLag + lag')
    BY <1>g, <2>2, <2>3
  <2>5. AgeBound' = TagTtl + 2 * MaxLag + lag'
    BY <1>g DEF AgeBound
  <2>6. de' \in Seq(Endpoint) /\ Unchecked' = Len(de')
    BY <1>a, <1>d, <1>g DEF CacheOK, Unchecked
  <2>7. \A i \in DOMAIN de' : ~(i > Unchecked')
    BY <2>6
  <2> QED
    BY <2>4, <2>5, <2>7 DEF AgeInv
<1>1. CASE FastRecovery
  <2>1. /\ pc = "loop" /\ pc' = "loop" /\ lag' = 0 /\ nci_state' = "NFCC_RESET"
        /\ nci_state \in EpStates /\ ~GivenUp /\ UNCHANGED discovered_endpoint
    BY <1>1 DEF FastRecovery, EnterLoop, EpTimedOut, SetState
  <2>2. nci_state \notin Range(BootStates)
    BY <2>1 DEF EpStates, BootStates, Range
  <2>3. AgeBound = TagTtl + lag
    BY <2>1, <2>2 DEF AgeBound
  <2>4. "NFCC_RESET" \in Range(BootStates)
    BY DEF BootStates, Range
  <2>5. AgeBound' = TagTtl + MaxLag
    BY <1>a, <2>1, <2>4 DEF AgeBound
  <2>6. AgesWithin(de, TagTtl + MaxLag)
    BY <1>a, <1>b, <2>1, <2>3, AgesRelax DEF AgeInv
  <2> QED
    BY <2>1, <2>5, <2>6 DEF AgeInv, AgesWithin
<1>2. CASE BringUp \/ Idle \/ StartDiscovery \/ SelectEndpoint
  <2>1. /\ ~GivenUp /\ pc # "purge" /\ pc' # "loop" /\ UNCHANGED <<discovered_endpoint, kept>>
        /\ lag' = lag \/ (lag' = 0 /\ pc = "loop")
    BY <1>2 DEF BringUp, Idle, StartDiscovery, SelectEndpoint, EnterLoop, GivenUp
  <2> QED
    BY <1>g, <2>1 DEF AgesWithin
<1>3. CASE ProcessMessage
  <2>0. EndOfWait /\ UNCHANGED kept
    BY <1>3
    DEF ProcessMessage, NoMessage, ReadFails, RfDiscover, IntfActivated, RfDeactivated,
        ActivationFailed, Receive
  <2>1. /\ ~GivenUp /\ pc # "purge" /\ pc' = "purge" /\ (lag' = lag \/ (lag' = 0 /\ pc = "loop"))
        /\ UNCHANGED kept
    BY <2>0 DEF EndOfWait, Waiting, GivenUp, EpStates
  <2>2. CASE UNCHANGED discovered_endpoint
    BY <1>g, <2>1, <2>2 DEF AgesWithin
  <2>3. ASSUME NEW m \in Message, m.kind \in {"discover", "activated"}
        PROVE  m.tag \in Tags /\ m.id \in 1..MaxInField
    BY <2>3 DEF Message
  <2>4. ntf # <<>> => Head(ntf) \in Message
    BY <1>a, TailType DEF ChipOK
  <2>5. CASE RfDiscover \/ IntfActivated
    <3> DEFINE tag == Head(ntf).tag
               W == WithTag(tag, Head(ntf).id)
    <3>1. de' = W \/ de' = Reported(W, tag)
      BY <2>5 DEF RfDiscover, IntfActivated
    <3>2. tag \in Tags /\ Head(ntf).id \in 1..MaxInField
      BY <2>3, <2>4, <2>5 DEF RfDiscover, IntfActivated, Receive
    <3>3. /\ W \in Seq(Endpoint) /\ OneEach(W)
          /\ \E i \in DOMAIN W : W[i].tag = tag
          /\ \A b \in Nat : AgesWithin(de, b) => AgesWithin(W, b)
      BY <1>a, <3>2, WithTagIs DEF CacheOK
    <3> HIDE DEF W, tag
    <3>4. \A b \in Nat : AgesWithin(W, b) => AgesWithin(Reported(W, tag), b)
      BY <3>3, ReportedIs
    <3>5. \A b \in Nat : AgesWithin(de, b) => AgesWithin(de', b)
      BY <3>1, <3>3, <3>4
    <3> QED
      BY <1>g, <2>1, <3>5
  <2>6. CASE ActivationFailed
    <3>1. UNCHANGED discovered_endpoint \/ \E index \in {1, 2} : EraseTag(index)
      BY <2>6 DEF ActivationFailed
    <3>2. \A b \in Nat : AgesWithin(de, b) => AgesWithin(de', b)
      BY <1>a, <3>1, EraseAges
    <3> QED
      BY <1>g, <2>1, <3>2
  <2> QED
    BY <1>3, <2>2, <2>5, <2>6 DEF ProcessMessage, NoMessage, ReadFails, RfDeactivated
<1>4. CASE PurgeOldTags
  <2>1. pc = "purge" /\ ~GivenUp /\ UNCHANGED <<nci_state, lag>> /\ kept \in 0..Len(de)
    BY <1>4, <1>a DEF PurgeOldTags, CacheOK, GivenUp
  <2>2. \A i \in DOMAIN de : i > Unchecked => de[i].last_seen <= TagTtl + lag
    BY <2>1 DEF AgeInv
  <2>3. CASE Unchecked = 0
    <3>1. pc' = "loop" /\ UNCHANGED discovered_endpoint
      BY <1>4, <2>3 DEF PurgeOldTags
    <3>2. \A i \in DOMAIN de : i > 0
      BY <1>a DEF CacheOK
    <3>3. AgesWithin(de, TagTtl + lag)
      BY <2>2, <2>3, <3>2 DEF AgesWithin
    <3>4. AgeBound' \in Nat /\ TagTtl + lag \in Nat /\ TagTtl + lag <= AgeBound'
      BY <1>a, <2>1 DEF AgeBound
    <3>5. AgesWithin(de, AgeBound')
      BY <1>a, <3>3, <3>4, AgesRelax
    <3> QED
      BY <3>1, <3>5 DEF AgeInv, AgesWithin
  <2>4. CASE Unchecked # 0
    <3>1. UNCHANGED <<pc, lag, nci_state>> /\ AgeBound' = AgeBound /\ Unchecked \in 1..Len(de)
      BY <1>4, <1>e, <2>1, <2>4 DEF PurgeOldTags, AgeBound, Unchecked
    <3>2. Unchecked \in DOMAIN de
      BY <1>a, <3>1 DEF CacheOK
    <3>3. CASE Fresh(de[Unchecked])
      <4>1. UNCHANGED discovered_endpoint /\ Unchecked' = Unchecked - 1
        BY <1>4, <1>e, <2>1, <2>4, <3>3 DEF PurgeOldTags, Unchecked
      <4>2. de[Unchecked].last_seen <= TagTtl + lag
        BY <1>a, <1>c, <3>2, <3>3 DEF Fresh
      <4>3. DOMAIN de \subseteq Nat
        BY <1>a DEF CacheOK
      <4>4. \A i \in DOMAIN de : i > Unchecked' => i = Unchecked \/ i > Unchecked
        BY <3>1, <4>1, <4>3
      <4> QED
        BY <2>1, <2>2, <3>1, <4>1, <4>2, <4>4 DEF AgeInv, AgesWithin
    <3>4. CASE ~Fresh(de[Unchecked])
      <4>1. EraseTag(Unchecked) /\ UNCHANGED kept
        BY <1>4, <2>4, <3>4 DEF PurgeOldTags
      <4>2. Unchecked \in Nat
        BY <3>1
      <4>3. AgesWithin(de', AgeBound)
        BY <1>a, <1>b, <2>1, <4>1, <4>2, EraseAges DEF AgeInv
      <4>4. Len(de') = Len(de) - 1 /\ de' \in Seq(Endpoint)
        BY <1>a, <3>2, <4>1, <4>2, EraseStep
      <4>5. Unchecked' = Unchecked - 1
        BY <1>e, <2>1, <4>1, <4>4 DEF Unchecked
      <4>6. ASSUME NEW j \in DOMAIN de', j > Unchecked'
            PROVE  de'[j].last_seen <= TagTtl + lag
        <5>1. j \in Nat /\ j >= Unchecked
          BY <3>1, <4>4, <4>5, <4>6
        <5>2. j + 1 \in DOMAIN de /\ de'[j] = de[j + 1]
          BY <1>a, <3>2, <4>1, <4>2, <5>1, EraseAges
        <5>3. j + 1 > Unchecked
          BY <4>2, <5>1
        <5> QED
          BY <2>2, <5>2, <5>3
      <4> QED
        BY <2>1, <3>1, <4>3, <4>6 DEF AgeInv
    <3> QED
      BY <3>3, <3>4
  <2> QED
    BY <2>3, <2>4
<1>5. CASE Nfcc \/ SetMode \/ TagComes \/ TagLeaves \/ UNCHANGED vars
  <2>1. UNCHANGED <<pc, nci_state, lag, discovered_endpoint, kept>>
    BY <1>5
    DEF Nfcc, NfccActivates, NfccOffers, NfccSelects, SetMode, TagComes, TagLeaves, vars
  <2> QED
    BY <1>f, <2>1
<1>6. CASE Tick
  <2> DEFINE Aged == [i \in DOMAIN de |-> [de[i] EXCEPT !.last_seen = Older(@, AgeCap)]]
  <2>1. /\ Aged \in Seq(Endpoint) /\ Len(Aged) = Len(de) /\ DOMAIN Aged = DOMAIN de
        /\ \A i \in DOMAIN de : Aged[i].last_seen <= de[i].last_seen + 1
    BY <1>a, AgedIs DEF CacheOK
  <2>2. /\ de' = Aged /\ UNCHANGED <<pc, nci_state, kept>>
        /\ ~GivenUp => lag' = lag + 1
    BY <1>6, <1>a DEF Tick, Older
  <2> HIDE DEF Aged
  <2>3. CASE GivenUp
    BY <2>2, <2>3 DEF AgeInv, GivenUp
  <2>4. CASE ~GivenUp
    <3>1. AgeBound' = AgeBound + 1 /\ Unchecked' = Unchecked
      BY <1>a, <2>1, <2>2, <2>4 DEF AgeBound, Unchecked
    <3>2. \A i \in DOMAIN Aged : Aged[i].last_seen \in Nat
      <4>1. de' \in Seq(Endpoint)
        BY <1>a DEF CacheOK
      <4>2. \A i \in DOMAIN Aged : Aged[i] \in Endpoint
        BY <2>2, <4>1, ElementOfSeq
      <4> QED
        BY <4>2, AgeCapType DEF Endpoint
    <3>3. AgesWithin(Aged, AgeBound + 1)
      BY <1>b, <1>c, <2>1, <2>4, <3>2 DEF AgeInv, AgesWithin
    <3>4. pc = "purge" => \A i \in DOMAIN Aged : i > Unchecked => Aged[i].last_seen <= TagTtl + (lag + 1)
      BY <1>a, <1>c, <2>1, <3>2 DEF AgeInv
    <3> QED
      BY <2>2, <2>4, <3>1, <3>3, <3>4 DEF AgeInv
  <2> QED
    BY <2>3, <2>4
<1> QED
  BY <1>1, <1>2, <1>3, <1>4, <1>5, <1>6 DEF Next, Driver

-----------------------------------------------------------------------------
THEOREM InvCorrect == Spec => []Inv
<1>1. Inv /\ [Next]_vars => Inv'
  BY HostStep, LoopStep, ChipStep, CacheStep DEF Inv
<1> QED
  BY <1>1, InitInv, PTL DEF Spec

\* Every variable keeps its type: the cache, the chip's queue and its discovery
\* IDs, for any reader and any set of tags.
THEOREM TypeCorrect == Spec => []TypeOK
<1>1. Inv => TypeOK
  BY InvImplies
<1> QED
  BY <1>1, InvCorrect, PTL

\* Whatever mix of RF_DISCOVER and RF_INTF_ACTIVATED a tag is seen through, and
\* however discovery IDs are used again, its UID has one entry.
THEOREM OneEntryPerTagCorrect == Spec => []OneEntryPerTag
<1>1. Inv => OneEntryPerTag
  BY InvImplies
<1> QED
  BY <1>1, InvCorrect, PTL

\* The tags the automations were told of and not told to forget are those the
\* cache marks as reported, also between two entries of a purge.
THEOREM UserViewMatchesCacheCorrect == Spec => []UserViewMatchesCache
<1>1. Inv => UserViewMatchesCache
  BY InvImplies
<1> QED
  BY <1>1, InvCorrect, PTL

\* As long as the driver has not given up, whatever fails, no entry outlives
\* tag_ttl_ by more than three scheduling gaps: the gap up to the pass, the pass
\* up to its purge, and one for a pass without a purge.
THEOREM RemovalLatencyCorrect == Spec => []RemovalLatency
<1>1. Init => AgeInv
  <2> SUFFICES ASSUME Init PROVE AgeInv
    OBVIOUS
  <2>1. DOMAIN discovered_endpoint = {} /\ pc # "purge"
    BY EmptySeq DEF Init
  <2> QED
    BY <2>1 DEF AgeInv, AgesWithin
<1>2. Inv /\ AgeInv /\ [Next]_vars => AgeInv'
  BY AgeStep
<1>3. Inv /\ AgeInv => RemovalLatency
  <2> SUFFICES ASSUME Inv, AgeInv, ~GivenUp
               PROVE  AgesWithin(discovered_endpoint, TagTtl + 3 * MaxLag)
    BY DEF AgesWithin, RemovalLatency
  <2>1. TagTtl \in Nat /\ MaxLag \in Nat /\ lag \in 0..MaxLag
    BY TagConstantsAssumption DEF Inv, LoopTypeOK
  <2>2. AgeBound \in Nat /\ AgeBound <= TagTtl + 3 * MaxLag
    BY <2>1 DEF AgeBound
  <2> QED
    BY <2>1, <2>2, AgesRelax DEF Inv, AgeInv
<1> QED
  BY <1>1, <1>2, <1>3, InvCorrect, PTL DEF Spec
=============================================================================
