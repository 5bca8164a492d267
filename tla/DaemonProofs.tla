---------------------------- MODULE DaemonProofs ----------------------------
(***************************************************************************)
(* Proofs about Daemon, for every file, every number of addresses, sockets *)
(* and records, and every After and Expire.                                *)
(*                                                                         *)
(* The inductive invariant has one part for each of the three things the   *)
(* program keeps.  Of the configuration it says that the first entry of a  *)
(* name is the first pair given for it, and, since _hdlr_config() refuses  *)
(* only what the look-up finds, that the port is not the last entry once   *)
(* something new was given behind it; of the throttle, that an address is  *)
(* listed at most once, with those of its offenses that followed each      *)
(* other closely; of the records, that those that were not freed name      *)
(* sockets nothing ever connects or frees.  The look-ups are first         *)
(* elements of sequences, and lms_throttle_remove() is SequencesExt's      *)
(* RemoveAt: the lemmas FirstFinds and Removed say what these are.         *)
(***************************************************************************)
EXTENDS Daemon, SequenceTheorems, WellFoundedInduction, TLAPS

\* What the file gives is stored, the first value of each name first.
Stored ==
  /\ \A i \in 1 .. Len(given) : \E j \in 1 .. Len(conf) : conf[j].key = given[i].key
  /\ \A j \in 1 .. Len(conf) :
       (\A k \in 1 .. j - 1 : conf[k].key # conf[j].key) =>
         \E i \in 1 .. Len(given) :
           given[i] = conf[j] /\ \A k \in 1 .. i - 1 : given[k].key # conf[j].key

\* The file gives the port, and a name of its own behind it.
PortGiven ==
  \E i, j \in 1 .. Len(given) :
    /\ i < j /\ given[i].key = Key(Listen, Port)
    /\ \A k \in 1 .. j - 1 : given[k].key # given[j].key

\* The port is not the last entry.
PortKept ==
  PortGiven => \E i \in 1 .. Len(conf) - 1 : conf[i].key = Key(Listen, Port)

\* The types of the configuration, the sets with "" under names.
SectionsOrNone == Sections \cup {""}
NamesOrNone == Names \cup {""}
Entries == [key : SectionsOrNone \X Names, data : Values]
ConfTypes ==
  /\ conf \in Seq(Entries) /\ given \in Seq(Entries)
  /\ section \in SectionsOrNone /\ prevName \in NamesOrNone
  /\ lines \in 0 .. MaxLines /\ error \in 0 .. lines

ConfInv == ConfTypes /\ Stored /\ PortKept

-----------------------------------------------------------------------------
(* The look-up *)

\* The place of the first entry of a name in a list, or 0.
First(q, k) ==
  LET I == {i \in 1 .. Len(q) : q[i].key = k} IN IF I # {} THEN Min(I) ELSE 0

\* A set of numbers that is not empty has a least element, which Min is.
LEMMA FirstIn ==
  ASSUME NEW I \in SUBSET Nat, I # {}
  PROVE  Min(I) \in I /\ \A i \in I : Min(I) <= i
  <1> DEFINE Less == {p \in Nat \X Nat : p[1] < p[2]}
  <1>1. IsWellFoundedOn(Less, Nat)
    BY NatLessThanWellFounded DEF OpToRel
  <1> HIDE DEF Less
  <1>2. PICK s \in I : \A t \in I : <<t, s>> \notin Less
    BY <1>1, WFMin
  <1>3. \A s1, t \in Nat : t < s1 => <<t, s1>> \in Less
    BY DEF Less
  <1>4. \A t \in I : s <= t
    <2> TAKE t \in I
    <2>1. s \in Nat /\ t \in Nat /\ ~(t < s)
      BY <1>2, <1>3
    <2> QED BY <2>1
  <1> QED BY <1>4 DEF Min

\* First is what its name says.
LEMMA FirstFinds ==
  ASSUME NEW T, NEW q \in Seq(T), NEW k
  PROVE  \/ First(q, k) = 0 /\ \A i \in 1 .. Len(q) : q[i].key # k
         \/ /\ First(q, k) \in 1 .. Len(q) /\ q[First(q, k)].key = k
            /\ \A i \in 1 .. First(q, k) - 1 : q[i].key # k
  <1> DEFINE I == {i \in 1 .. Len(q) : q[i].key = k}
  <1>1. First(q, k) = IF I # {} THEN Min(I) ELSE 0
    BY DEF First
  <1>2. I \in SUBSET Nat
    OBVIOUS
  <1>3. CASE I = {}
    BY <1>1, <1>3
  <1>4. CASE I # {}
    <2>1. First(q, k) \in I /\ \A i \in I : First(q, k) <= i
      BY <1>1, <1>2, <1>4, FirstIn
    <2>2. First(q, k) \in 1 .. Len(q) /\ q[First(q, k)].key = k
      BY <2>1
    <2>3. ASSUME NEW i \in 1 .. First(q, k) - 1 PROVE q[i].key # k
      <3>1. i \in 1 .. Len(q) /\ ~(First(q, k) <= i)
        BY <2>2, LenProperties
      <3> QED BY <2>1, <3>1
    <2> QED BY <2>2, <2>3
  <1> QED BY <1>3, <1>4

\* cxmconf() finds the first entry of the name, but never the last of all.
LEMMA CxMConfFinds ==
  ASSUME NEW T, conf \in Seq(T), NEW s, NEW n
  PROVE  \/ /\ CxMConf(s, n) = 0
            /\ \A i \in 1 .. Len(conf) - 1 : conf[i].key # Key(s, n)
         \/ /\ CxMConf(s, n) \in 1 .. Len(conf) - 1
            /\ conf[CxMConf(s, n)].key = Key(s, n)
            /\ \A i \in 1 .. CxMConf(s, n) - 1 : conf[i].key # Key(s, n)
  <1>1. CASE conf = <<>>
    BY <1>1, EmptySeq DEF CxMConf
  <1>2. CASE conf # <<>>
    <2> DEFINE q == SubSeq(conf, 1, Len(conf) - 1)
    <2>1. Len(conf) \in Nat /\ Len(conf) >= 1
      BY <1>2, EmptySeq
    <2>2. \A i \in 1 .. Len(conf) - 1 : conf[i] \in T
      BY <2>1, ElementOfSeq
    <2>3. /\ q \in Seq(T) /\ Len(q) = Len(conf) - 1
          /\ \A i \in 1 .. Len(conf) - 1 : q[i] = conf[i]
      <3>1. 1 \in Int /\ Len(conf) - 1 \in Int
        BY <2>1
      <3>2. /\ q \in Seq(T)
            /\ Len(q) = IF 1 <= Len(conf) - 1 THEN Len(conf) - 1 - 1 + 1 ELSE 0
            /\ \A i \in 1 .. Len(conf) - 1 - 1 + 1 : q[i] = conf[1 + i - 1]
        BY <2>2, <3>1, SubSeqProperties
      <3>3. \A i \in 1 .. Len(conf) - 1 : i \in 1 .. Len(conf) - 1 - 1 + 1 /\ 1 + i - 1 = i
        BY <2>1
      <3> HIDE DEF q
      <3>4. Len(q) = Len(conf) - 1
        <4> DEFINE l == Len(conf)
        <4>1. l \in Nat /\ l >= 1 /\ Len(q) = IF 1 <= l - 1 THEN l - 1 - 1 + 1 ELSE 0
          BY <2>1, <3>2
        <4> HIDE DEF l
        <4>2. Len(q) = l - 1
          BY <4>1
        <4> QED BY <4>2 DEF l
      <3>5. ASSUME NEW i \in 1 .. Len(conf) - 1 PROVE q[i] = conf[i]
        BY <3>2, <3>3
      <3> QED BY <3>2, <3>4, <3>5
    <2>4. CxMConf(s, n) = First(q, Key(s, n))
      BY <1>2 DEF CxMConf, SelectInSeq, Ours, First
    <2> HIDE DEF q
    <2> QED BY <2>1, <2>3, <2>4, FirstFinds
  <1> QED BY <1>1, <1>2

-----------------------------------------------------------------------------
(* The configuration *)

\* Every entry's name was given.
LEMMA StoredGiven ==
  ASSUME ConfInv, NEW c \in 1 .. Len(conf),
         \A k \in 1 .. c - 1 : conf[k].key # conf[c].key
  PROVE  \E i \in 1 .. Len(given) : given[i].key = conf[c].key
  BY DEF ConfInv, Stored

\* A pair that the look-up finds is refused: only the history changes.
LEMMA Refused ==
  ASSUME ConfInv, NEW e \in Entries, NEW c,
         c \in 1 .. Len(conf) - 1, conf[c].key = e.key,
         \A k \in 1 .. c - 1 : conf[k].key # e.key,
         given' = Append(given, e), conf' = conf
  PROVE  Stored' /\ PortKept'
  <1>1. /\ Len(given) \in Nat /\ Len(given') = Len(given) + 1
        /\ \A i \in 1 .. Len(given) : given'[i] = given[i]
        /\ given'[Len(given) + 1] = e
    BY AppendProperties, LenProperties DEF ConfInv, ConfTypes
  <1>2. Len(conf) \in Nat
    BY LenProperties DEF ConfInv, ConfTypes
  <1>3. c \in 1 .. Len(conf)
    BY <1>2
  <1>4. PICK g \in 1 .. Len(given) : given[g].key = e.key
    BY <1>3, StoredGiven
  <1>5. Stored'
    <2>1. ASSUME NEW i \in 1 .. Len(given')
          PROVE  \E j \in 1 .. Len(conf') : conf'[j].key = given'[i].key
      <3>1. CASE i = Len(given) + 1
        BY <1>1, <1>2, <1>3, <3>1
      <3>2. CASE i # Len(given) + 1
        <4>1. i \in 1 .. Len(given) /\ given'[i] = given[i]
          BY <1>1, <3>2
        <4> QED BY <4>1 DEF ConfInv, Stored
      <3> QED BY <3>1, <3>2
    <2>2. ASSUME NEW j \in 1 .. Len(conf'),
                 \A k \in 1 .. j - 1 : conf'[k].key # conf'[j].key
          PROVE  \E i \in 1 .. Len(given') :
                   /\ given'[i] = conf'[j]
                   /\ \A k \in 1 .. i - 1 : given'[k].key # conf'[j].key
      <3>1. PICK i \in 1 .. Len(given) :
              /\ given[i] = conf[j]
              /\ \A k \in 1 .. i - 1 : given[k].key # conf[j].key
        BY <2>2 DEF ConfInv, Stored
      <3>2. /\ i \in 1 .. Len(given')
            /\ \A k \in 1 .. i - 1 : k \in 1 .. Len(given)
        BY <1>1
      <3> QED BY <1>1, <3>1, <3>2
    <2> QED BY <2>1, <2>2 DEF Stored
  <1>6. PortKept'
    <2>1. SUFFICES ASSUME PortGiven'
                   PROVE  \E i \in 1 .. Len(conf) - 1 : conf[i].key = Key(Listen, Port)
      BY DEF PortKept
    <2>2. PICK i, j \in 1 .. Len(given') :
            /\ i < j /\ given'[i].key = Key(Listen, Port)
            /\ \A k \in 1 .. j - 1 : given'[k].key # given'[j].key
      BY <2>1 DEF PortGiven
    <2>3. j # Len(given) + 1
      BY <1>1, <1>4, <2>2
    <2>4. /\ i \in 1 .. Len(given) /\ j \in 1 .. Len(given)
          /\ \A k \in 1 .. j - 1 : k \in 1 .. Len(given)
      BY <1>1, <2>2, <2>3
    <2>5. PortGiven
      BY <1>1, <2>2, <2>4 DEF PortGiven
    <2> QED BY <2>5 DEF ConfInv, PortKept
  <1> QED BY <1>5, <1>6

\* A pair that the look-up does not find goes to the end of the list, though
\* its name may be that of the last entry.
LEMMA Added ==
  ASSUME ConfInv, NEW e \in Entries,
         given' = Append(given, e), conf' = Append(conf, e)
  PROVE  Stored' /\ PortKept'
  <1>1. /\ Len(given) \in Nat /\ Len(given') = Len(given) + 1
        /\ \A i \in 1 .. Len(given) : given'[i] = given[i]
        /\ given'[Len(given) + 1] = e
    BY AppendProperties, LenProperties DEF ConfInv, ConfTypes
  <1>2. /\ Len(conf) \in Nat /\ Len(conf') = Len(conf) + 1
        /\ \A i \in 1 .. Len(conf) : conf'[i] = conf[i]
        /\ conf'[Len(conf) + 1] = e
    BY AppendProperties, LenProperties DEF ConfInv, ConfTypes
  <1>3. Stored'
    <2>1. ASSUME NEW i \in 1 .. Len(given')
          PROVE  \E j \in 1 .. Len(conf') : conf'[j].key = given'[i].key
      <3>1. CASE i = Len(given) + 1
        BY <1>1, <1>2, <3>1
      <3>2. CASE i # Len(given) + 1
        <4>1. i \in 1 .. Len(given) /\ given'[i] = given[i]
          BY <1>1, <3>2
        <4>2. PICK j \in 1 .. Len(conf) : conf[j].key = given[i].key
          BY <4>1 DEF ConfInv, Stored
        <4> QED BY <1>2, <4>1, <4>2
      <3> QED BY <3>1, <3>2
    <2>2. ASSUME NEW j \in 1 .. Len(conf'),
                 \A k \in 1 .. j - 1 : conf'[k].key # conf'[j].key
          PROVE  \E i \in 1 .. Len(given') :
                   /\ given'[i] = conf'[j]
                   /\ \A k \in 1 .. i - 1 : given'[k].key # conf'[j].key
      <3>1. CASE j = Len(conf) + 1
        <4>1. ASSUME NEW k \in 1 .. Len(given) PROVE given'[k].key # e.key
          <5>1. PICK l \in 1 .. Len(conf) : conf[l].key = given[k].key
            BY DEF ConfInv, Stored
          <5>2. l \in 1 .. j - 1 /\ conf'[l] = conf[l] /\ conf'[j] = e
            BY <1>2, <3>1
          <5> QED BY <1>1, <2>2, <5>1, <5>2
        <4> QED BY <1>1, <1>2, <3>1, <4>1
      <3>2. CASE j # Len(conf) + 1
        <4>1. /\ j \in 1 .. Len(conf) /\ conf'[j] = conf[j]
              /\ \A k \in 1 .. j - 1 : conf'[k] = conf[k]
          BY <1>2, <3>2
        <4>2. PICK i \in 1 .. Len(given) :
                /\ given[i] = conf[j]
                /\ \A k \in 1 .. i - 1 : given[k].key # conf[j].key
          BY <2>2, <4>1 DEF ConfInv, Stored
        <4>3. /\ i \in 1 .. Len(given')
              /\ \A k \in 1 .. i - 1 : k \in 1 .. Len(given)
          BY <1>1
        <4> QED BY <1>1, <4>1, <4>2, <4>3
      <3> QED BY <3>1, <3>2
    <2> QED BY <2>1, <2>2 DEF Stored
  <1>4. PortKept'
    <2>1. SUFFICES ASSUME PortGiven'
                   PROVE  \E i \in 1 .. Len(conf') - 1 : conf'[i].key = Key(Listen, Port)
      BY DEF PortKept
    <2>2. PICK i, j \in 1 .. Len(given') :
            /\ i < j /\ given'[i].key = Key(Listen, Port)
            /\ \A k \in 1 .. j - 1 : given'[k].key # given'[j].key
      BY <2>1 DEF PortGiven
    <2>3. i \in 1 .. Len(given) /\ given[i].key = Key(Listen, Port)
      BY <1>1, <2>2
    <2>4. PICK l \in 1 .. Len(conf) : conf[l].key = Key(Listen, Port)
      BY <2>3 DEF ConfInv, Stored
    <2> QED BY <1>2, <2>4
  <1> QED BY <1>3, <1>4

\* A pair that the look-up does not find goes to the end; one that it finds
\* is a mistake.
LEMMA HandleKeeps ==
  ASSUME ConfInv, NEW n \in Names, NEW v \in Values, Handle(n, v),
         section' = section, prevName' \in NamesOrNone,
         lines' = lines + 1, lines < MaxLines
  PROVE  ConfInv'
  <1> DEFINE e == [key |-> Key(section, n), data |-> v]
  <1>1. /\ conf \in Seq(Entries) /\ given \in Seq(Entries)
        /\ section \in SectionsOrNone /\ lines \in Nat /\ error \in 0 .. lines
    BY DEF ConfInv, ConfTypes
  <1>2. e \in Entries /\ e.key = Key(section, n)
    BY <1>1 DEF Key, Entries
  <1>3. /\ lines' \in 0 .. MaxLines /\ (Mistake => error' \in 0 .. lines')
        /\ (error' = error => error' \in 0 .. lines')
    BY <1>1, LinesBound DEF Mistake
  <1>4. \/ given' = Append(given, e) /\ conf' = conf /\ Mistake
           /\ CxMConf(section, n) # 0
        \/ given' = Append(given, e) /\ conf' = Append(conf, e) /\ error' = error
        \/ Mistake /\ conf' = conf /\ given' = given
    BY DEF Handle, Store
  <1> HIDE DEF e
  <1>5. CASE given' = Append(given, e) /\ conf' = conf /\ Mistake
             /\ CxMConf(section, n) # 0
    <2>1. given' \in Seq(Entries)
      BY <1>1, <1>2, <1>5, AppendProperties
    <2>2. PICK c : /\ c \in 1 .. Len(conf) - 1 /\ conf[c].key = e.key
                   /\ \A k \in 1 .. c - 1 : conf[k].key # e.key
      BY <1>1, <1>2, <1>5, CxMConfFinds
    <2>3. Stored' /\ PortKept'
      BY <1>2, <1>5, <2>2, Refused
    <2> QED BY <1>1, <1>3, <1>5, <2>1, <2>3 DEF ConfInv, ConfTypes
  <1>6. CASE given' = Append(given, e) /\ conf' = Append(conf, e) /\ error' = error
    <2>1. given' \in Seq(Entries) /\ conf' \in Seq(Entries)
      BY <1>1, <1>2, <1>6, AppendProperties
    <2>2. Stored' /\ PortKept'
      BY <1>2, <1>6, Added
    <2> QED BY <1>1, <1>3, <1>6, <2>1, <2>2 DEF ConfInv, ConfTypes
  <1>7. CASE Mistake /\ conf' = conf /\ given' = given
    <2>1. conf' = conf /\ given' = given
      BY <1>7
    <2>2. Stored' /\ PortKept'
      BY <2>1 DEF ConfInv, Stored, PortKept, PortGiven
    <2> QED BY <1>1, <1>3, <1>7, <2>2 DEF ConfInv, ConfTypes
  <1> QED BY <1>4, <1>5, <1>6, <1>7

\* A line of the file preserves the invariant of the configuration.
LEMMA ParseLineKeeps ==
  ASSUME ConfInv, ParseLine
  PROVE  ConfInv'
  <1>1. \/ /\ section' \in Sections /\ prevName' = ""
           /\ UNCHANGED <<conf, error, given>>
        \/ /\ \E n \in Names, v \in Values : Handle(n, v) /\ prevName' = n
           /\ UNCHANGED section
        \/ /\ prevName # "" /\ \E v \in Values : Handle(prevName, v)
           /\ UNCHANGED <<section, prevName>>
        \/ Mistake /\ UNCHANGED <<conf, section, prevName, given>>
    BY DEF ParseLine
  <1>2. /\ section \in SectionsOrNone /\ prevName \in NamesOrNone
        /\ lines \in Nat /\ lines < MaxLines /\ lines' = lines + 1
        /\ error \in 0 .. lines
    <2>1. lines < MaxLines /\ lines' = lines + 1
      BY DEF ParseLine
    <2> QED BY <2>1 DEF ConfInv, ConfTypes
  <1>3. /\ lines' \in 0 .. MaxLines /\ (Mistake => error' \in 0 .. lines')
        /\ (error' = error => error' \in 0 .. lines')
    BY <1>2, LinesBound DEF Mistake
  <1>4. (section' \in Sections => section' \in SectionsOrNone)
        /\ (prevName' = "" => prevName' \in NamesOrNone)
        /\ (prevName # "" => prevName \in Names)
        /\ (prevName' \in Names => prevName' \in NamesOrNone)
    BY <1>2 DEF SectionsOrNone, NamesOrNone
  <1>5. ASSUME conf' = conf, given' = given, section' \in SectionsOrNone,
               prevName' \in NamesOrNone, error' = error \/ Mistake
        PROVE  ConfInv'
    <2>1. Stored' /\ PortKept'
      BY <1>5 DEF ConfInv, Stored, PortKept, PortGiven
    <2> QED BY <1>3, <1>5, <2>1 DEF ConfInv, ConfTypes
  <1>6. CASE \E n \in Names, v \in Values :
               Handle(n, v) /\ prevName' = n /\ UNCHANGED section
    BY <1>2, <1>4, <1>6, HandleKeeps
  <1>7. CASE prevName # "" /\ \E v \in Values :
               Handle(prevName, v) /\ UNCHANGED <<section, prevName>>
    <2>1. prevName \in Names /\ prevName' \in NamesOrNone /\ section' = section
      BY <1>2, <1>4, <1>7
    <2>2. \E v \in Values : Handle(prevName, v)
      BY <1>7
    <2> QED BY <1>2, <2>1, <2>2, HandleKeeps
  <1>8. CASE section' \in Sections /\ prevName' = "" /\ UNCHANGED <<conf, error, given>>
    <2>1. /\ section' \in SectionsOrNone /\ prevName' \in NamesOrNone
          /\ conf' = conf /\ given' = given /\ error' = error
      BY <1>4, <1>8
    <2> QED BY <1>5, <2>1
  <1>9. CASE Mistake /\ UNCHANGED <<conf, section, prevName, given>>
    BY <1>2, <1>5, <1>9
  <1> QED BY <1>1, <1>6, <1>7, <1>8, <1>9, Zenon

\* What else happens leaves it alone.
LEMMA ConfStutter ==
  ASSUME ConfInv, UNCHANGED confVars
  PROVE  ConfInv'
  <1>1. /\ conf' = conf /\ given' = given /\ section' = section
        /\ prevName' = prevName /\ lines' = lines /\ error' = error
    BY DEF confVars
  <1>2. ConfTypes'
    BY <1>1 DEF ConfInv, ConfTypes
  <1>3. Stored' /\ PortKept'
    BY <1>1 DEF ConfInv, Stored, PortKept, PortGiven
  <1> QED BY <1>2, <1>3 DEF ConfInv

\* The types are those of Config.
LEMMA ConfTypeCorrect ==
  ASSUME ConfInv
  PROVE  ConfTypeOK
  BY DEF ConfInv, ConfTypes, ConfTypeOK, Entries, SectionsOrNone, NamesOrNone

\* The first value is found.
LEMMA ConfFirst ==
  ASSUME ConfInv
  PROVE  FirstValueFound
  <1>1. conf \in Seq(Entries) /\ given \in Seq(Entries)
    BY DEF ConfInv, ConfTypes
  <1> SUFFICES ASSUME NEW s, NEW n, CxMConf(s, n) # 0
               PROVE  conf[CxMConf(s, n)] =
                        given[SelectInSeq(given, LAMBDA e : Ours(e, s, n))]
    BY DEF FirstValueFound
  <1> DEFINE c == CxMConf(s, n)
             g == First(given, Key(s, n))
  <1>2. SelectInSeq(given, LAMBDA e : Ours(e, s, n)) = g
    BY DEF SelectInSeq, Ours, First
  <1>3. /\ c \in 1 .. Len(conf) - 1 /\ conf[c].key = Key(s, n)
        /\ \A i \in 1 .. c - 1 : conf[i].key # Key(s, n)
    BY <1>1, CxMConfFinds
  <1>4. \/ g = 0 /\ \A i \in 1 .. Len(given) : given[i].key # Key(s, n)
        \/ /\ g \in 1 .. Len(given) /\ given[g].key = Key(s, n)
           /\ \A i \in 1 .. g - 1 : given[i].key # Key(s, n)
    BY <1>1, FirstFinds
  <1>5. Len(conf) \in Nat /\ Len(given) \in Nat
    BY <1>1, LenProperties
  <1> HIDE DEF c, g
  <1>6. c \in 1 .. Len(conf)
    BY <1>3, <1>5
  <1>7. PICK i \in 1 .. Len(given) :
          given[i] = conf[c] /\ \A k \in 1 .. i - 1 : given[k].key # conf[c].key
    BY <1>3, <1>6 DEF ConfInv, Stored
  <1>8. g \in 1 .. Len(given) /\ given[g].key = Key(s, n)
        /\ \A k \in 1 .. g - 1 : given[k].key # Key(s, n)
    BY <1>3, <1>4, <1>7
  <1>9. ~(i < g) /\ ~(g < i)
    BY <1>3, <1>5, <1>7, <1>8
  <1>10. i = g
    BY <1>5, <1>8, <1>9
  <1> QED BY <1>2, <1>7, <1>10 DEF c

\* A port with a name of its own behind it is found.
LEMMA PortLooked ==
  ASSUME ConfInv, PortGiven
  PROVE  CxMConf(Listen, Port) # 0
  <1>1. conf \in Seq(Entries)
    BY DEF ConfInv, ConfTypes
  <1>2. \E i \in 1 .. Len(conf) - 1 : conf[i].key = Key(Listen, Port)
    BY DEF ConfInv, PortKept
  <1>3. Len(conf) \in Nat
    BY <1>1, LenProperties
  <1> QED BY <1>1, <1>2, <1>3, CxMConfFinds

-----------------------------------------------------------------------------
(* The throttle *)

\* An entry counts the last offenses of its address; those before were over for
\* more than Expire seconds when the next one came.
Fits(e, b) ==
  /\ e.offenses <= Len(b) /\ e.last_bad = b[Len(b)]
  /\ e.offenses < Len(b) =>
       b[Len(b) - e.offenses + 1] - b[Len(b) - e.offenses] > Expire

FitsAt(i) == Fits(throttles[i], bad[throttles[i].addr])

\* An entry of an address that has been forgotten; the expiry will come to it.
Forgotten(e) == bad[e.addr] = <<>> /\ Quiet(e)

HasEntry(a) == \E i \in 1 .. Len(throttles) : throttles[i].addr = a

\* Each address has one entry, that counts its offenses, unless they are over
\* or the expiry is on its way to the entry.
ThrottleInv ==
  /\ ThrottleTypeOK
  /\ \A i, j \in 1 .. Len(throttles) :
       throttles[i].addr = throttles[j].addr => i = j
  /\ \A i \in 1 .. Len(throttles) :
       FitsAt(i) \/ (i <= walk /\ Forgotten(throttles[i]))
  /\ \A a \in Addrs : bad[a] = <<>> \/ Overdue(a) \/ HasEntry(a)

Offenders == [addr : Addrs, last_bad : 0 .. MaxTime, offenses : 1 .. MaxOffenses]

\* What lms_throttle_remove() leaves: the entries behind the removed one move
\* up.
LEMMA Removed ==
  ASSUME NEW T, NEW q \in Seq(T), NEW w \in 1 .. Len(q)
  PROVE  /\ RemoveAt(q, w) \in Seq(T) /\ Len(RemoveAt(q, w)) = Len(q) - 1
         /\ \A i \in 1 .. Len(q) - 1 :
              RemoveAt(q, w)[i] = IF i < w THEN q[i] ELSE q[i + 1]
  <1> DEFINE l == Len(q)
             r == SubSeq(q, 1, w - 1)
             t == SubSeq(q, w + 1, l)
  <1>1. l \in Nat /\ w \in Nat /\ 1 <= w /\ w <= l
    BY LenProperties
  <1>2. \A i \in 1 .. l : q[i] \in T
    BY ElementOfSeq
  <1>3. RemoveAt(q, w) = r \o t
    BY DEF RemoveAt
  <1>4. r \in Seq(T) /\ Len(r) = w - 1 /\ \A i \in 1 .. w - 1 : r[i] = q[i]
    <2>1. 1 \in Int /\ w - 1 \in Int /\ \A i \in 1 .. w - 1 : q[i] \in T
      BY <1>1, <1>2
    <2>2. /\ r \in Seq(T) /\ Len(r) = IF 1 <= w - 1 THEN w - 1 - 1 + 1 ELSE 0
          /\ \A i \in 1 .. w - 1 - 1 + 1 : r[i] = q[1 + i - 1]
      BY <2>1, SubSeqProperties
    <2> HIDE DEF r
    <2>3. Len(r) = w - 1
      BY <1>1, <2>2
    <2>4. ASSUME NEW i \in 1 .. w - 1 PROVE r[i] = q[i]
      <3>1. i \in 1 .. w - 1 - 1 + 1 /\ 1 + i - 1 = i
        BY <1>1
      <3> QED BY <2>2, <3>1
    <2> QED BY <2>2, <2>3, <2>4
  <1>5. /\ t \in Seq(T) /\ Len(t) = l - w
        /\ \A i \in 1 .. l - w : t[i] = q[w + i]
    <2> HIDE DEF l
    <2>1. w + 1 \in Int /\ l \in Int /\ \A i \in w + 1 .. l : q[i] \in T
      BY <1>1, <1>2
    <2>2. /\ t \in Seq(T) /\ Len(t) = IF w + 1 <= l THEN l - (w + 1) + 1 ELSE 0
          /\ \A i \in 1 .. l - (w + 1) + 1 : t[i] = q[(w + 1) + i - 1]
      BY <2>1, SubSeqProperties
    <2> HIDE DEF t
    <2>3. Len(t) = l - w
      BY <1>1, <2>2
    <2>4. ASSUME NEW i \in 1 .. l - w PROVE t[i] = q[w + i]
      <3>1. i \in 1 .. l - (w + 1) + 1 /\ (w + 1) + i - 1 = w + i
        BY <1>1
      <3> QED BY <2>2, <3>1
    <2> QED BY <2>2, <2>3, <2>4
  <1> HIDE DEF r, t, l
  <1>6. /\ r \o t \in Seq(T) /\ Len(r \o t) = Len(r) + Len(t)
        /\ \A i \in 1 .. Len(r) + Len(t) :
             (r \o t)[i] = IF i <= Len(r) THEN r[i] ELSE t[i - Len(r)]
    BY <1>4, <1>5, ConcatProperties
  <1> DEFINE c == r \o t
  <1>7. /\ c \in Seq(T) /\ Len(c) = Len(r) + Len(t)
        /\ \A i \in 1 .. Len(r) + Len(t) :
             c[i] = IF i <= Len(r) THEN r[i] ELSE t[i - Len(r)]
    BY <1>6
  <1> HIDE DEF c
  <1>8. Len(c) = l - 1
    BY <1>1, <1>4, <1>5, <1>7
  <1>9. ASSUME NEW i \in 1 .. l - 1
        PROVE  c[i] = IF i < w THEN q[i] ELSE q[i + 1]
    <2>1. i \in 1 .. Len(r) + Len(t)
      BY <1>1, <1>4, <1>5
    <2>2. CASE i < w
      <3>1. i <= Len(r) /\ i \in 1 .. w - 1
        BY <1>1, <1>4, <2>2
      <3> QED BY <1>4, <1>7, <2>1, <2>2, <3>1
    <2>3. CASE ~(i < w)
      <3>1. /\ ~(i <= Len(r)) /\ i - Len(r) \in 1 .. l - w
            /\ w + (i - Len(r)) = i + 1
        BY <1>1, <1>4, <2>3
      <3> QED BY <1>5, <1>7, <2>1, <2>3, <3>1
    <2> QED BY <2>2, <2>3
  <1> QED BY <1>3, <1>7, <1>8, <1>9 DEF c, l

\* The types, with the elements of the list.
LEMMA ThrottleTyped ==
  ASSUME ThrottleInv
  PROVE  /\ throttles \in Seq(Offenders) /\ Len(throttles) \in Nat
         /\ DOMAIN throttles = 1 .. Len(throttles)
         /\ \A i \in 1 .. Len(throttles) :
              /\ throttles[i] \in Offenders /\ throttles[i].addr \in Addrs
              /\ throttles[i].last_bad \in 0 .. MaxTime
              /\ throttles[i].offenses \in 1 .. MaxOffenses
         /\ walk \in 0 .. Len(throttles) /\ now \in 0 .. MaxTime
         /\ bad \in [Addrs -> Seq(0 .. MaxTime)] /\ wild \in BOOLEAN
  <1>1. /\ throttles \in Seq(Offenders)
        /\ walk \in 0 .. Len(throttles) /\ now \in 0 .. MaxTime
        /\ bad \in [Addrs -> Seq(0 .. MaxTime)] /\ wild \in BOOLEAN
    BY DEF ThrottleInv, ThrottleTypeOK, Offenders
  <1>2. \A i \in 1 .. Len(throttles) : throttles[i] \in Offenders
    BY <1>1, ElementOfSeq
  <1>3. Len(throttles) \in Nat /\ DOMAIN throttles = 1 .. Len(throttles)
    BY <1>1, LenProperties
  <1>4. \A e \in Offenders : /\ e.addr \in Addrs /\ e.last_bad \in 0 .. MaxTime
                             /\ e.offenses \in 1 .. MaxOffenses
    BY DEF Offenders
  <1> QED BY <1>1, <1>2, <1>3, <1>4

\* The offenses of an address, one by one.
LEMMA BadTyped ==
  ASSUME ThrottleInv, NEW a \in Addrs
  PROVE  /\ bad[a] \in Seq(0 .. MaxTime) /\ Len(bad[a]) \in 0 .. MaxOffenses
         /\ \A i \in 1 .. Len(bad[a]) : bad[a][i] \in 0 .. MaxTime
         /\ bad[a] = <<>> <=> Len(bad[a]) = 0
  <1>1. bad[a] \in Seq(0 .. MaxTime) /\ Len(bad[a]) <= MaxOffenses
    BY DEF ThrottleInv, ThrottleTypeOK
  <1>2. Len(bad[a]) \in Nat /\ (bad[a] = <<>> <=> Len(bad[a]) = 0)
    BY <1>1, LenProperties, EmptySeq
  <1>3. \A i \in 1 .. Len(bad[a]) : bad[a][i] \in 0 .. MaxTime
    BY <1>1, ElementOfSeq
  <1> QED BY <1>1, <1>2, <1>3, ThrottleBounds

\* Between two expiries lms_throttle_check() gives the last offenses of the
\* address, as far as each followed the other within Expire seconds.
LEMMA OffensesFit ==
  ASSUME ThrottleInv, walk = 0, NEW a \in Addrs
  PROVE  /\ a \in Listed <=> HasEntry(a)
         /\ Offenses(a) \in 0 .. Len(bad[a])
         /\ Offenses(a) = 0 => bad[a] = <<>> \/ Overdue(a)
         /\ 0 < Offenses(a) /\ Offenses(a) < Len(bad[a]) =>
              bad[a][Len(bad[a]) - Offenses(a) + 1]
                - bad[a][Len(bad[a]) - Offenses(a)] > Expire
  <1>1. /\ DOMAIN throttles = 1 .. Len(throttles)
        /\ \A i \in 1 .. Len(throttles) : throttles[i].offenses \in 1 .. MaxOffenses
    BY ThrottleTyped
  <1>2. a \in Listed <=> HasEntry(a)
    BY <1>1 DEF Listed, HasEntry
  <1>3. Len(bad[a]) \in Nat
    BY BadTyped
  <1>4. CASE a \in Listed
    <2>1. PICK i \in 1 .. Len(throttles) : throttles[i].addr = a
      BY <1>2, <1>4 DEF HasEntry
    <2>2. \A e : e \in ToSet(throttles) <=>
                   \E j \in 1 .. Len(throttles) : e = throttles[j]
      BY <1>1 DEF ToSet
    <2>3. throttles[i] \in ToSet(throttles)
      BY <2>2
    <2>4. Entry(a) \in ToSet(throttles) /\ Entry(a).addr = a
      BY <2>1, <2>3 DEF Entry
    <2>5. PICK j \in 1 .. Len(throttles) : Entry(a) = throttles[j]
      BY <2>2, <2>4
    <2>6. ~(j <= walk)
      OBVIOUS
    <2>7. Fits(Entry(a), bad[a])
      BY <2>4, <2>5, <2>6 DEF ThrottleInv, FitsAt
    <2>8. Offenses(a) = Entry(a).offenses
      BY <1>4 DEF Offenses
    <2>9. Offenses(a) \in 1 .. MaxOffenses
      BY <1>1, <2>5, <2>8
    <2>10. /\ Offenses(a) <= Len(bad[a])
           /\ Offenses(a) < Len(bad[a]) =>
                bad[a][Len(bad[a]) - Offenses(a) + 1]
                  - bad[a][Len(bad[a]) - Offenses(a)] > Expire
      BY <2>4, <2>7, <2>8 DEF Fits
    <2> QED BY <1>2, <1>3, <2>9, <2>10, ThrottleBounds
  <1>5. CASE a \notin Listed
    <2>1. bad[a] = <<>> \/ Overdue(a)
      BY <1>2, <1>5 DEF ThrottleInv
    <2>2. Offenses(a) = 0
      BY <1>5 DEF Offenses
    <2> QED BY <1>2, <1>3, <2>1, <2>2
  <1> QED BY <1>4, <1>5

\* An offense: the entry of the address is updated, or it gets one.
LEMMA SetBadKeeps ==
  ASSUME ThrottleInv, walk = 0, NEW a \in Addrs, SetBad(a)
  PROVE  ThrottleInv'
  <1> DEFINE l == Len(throttles)
             n == Len(bad[a])
  <1>1. /\ throttles \in Seq(Offenders) /\ l \in Nat
        /\ DOMAIN throttles = 1 .. l
        /\ \A i \in 1 .. l :
             /\ throttles[i] \in Offenders /\ throttles[i].addr \in Addrs
             /\ throttles[i].last_bad \in 0 .. MaxTime
             /\ throttles[i].offenses \in 1 .. MaxOffenses
        /\ now \in 0 .. MaxTime
        /\ bad \in [Addrs -> Seq(0 .. MaxTime)] /\ wild \in BOOLEAN
    BY ThrottleTyped
  <1>2. /\ n < MaxOffenses /\ n \in Nat
        /\ bad[a] \in Seq(0 .. MaxTime)
        /\ \A i \in 1 .. n : bad[a][i] \in 0 .. MaxTime
        /\ bad[a] = <<>> <=> n = 0
        /\ bad' = [bad EXCEPT ![a] = Append(bad[a], now)]
        /\ walk' = 0 /\ now' = now /\ wild' = wild
    BY <1>1, BadTyped DEF SetBad
  <1>3. /\ bad' \in [Addrs -> Seq(0 .. MaxTime)]
        /\ Len(bad'[a]) = n + 1 /\ bad'[a][n + 1] = now
        /\ \A i \in 1 .. n : bad'[a][i] = bad[a][i]
        /\ \A b \in Addrs \ {a} : bad'[b] = bad[b]
    <2>1. Append(bad[a], now) \in Seq(0 .. MaxTime)
      BY <1>1, <1>2, AppendProperties
    <2>2. /\ Len(Append(bad[a], now)) = n + 1 /\ Append(bad[a], now)[n + 1] = now
          /\ \A i \in 1 .. n : Append(bad[a], now)[i] = bad[a][i]
      BY <1>1, <1>2, AppendProperties
    <2> HIDE DEF n
    <2>3. bad'[a] = Append(bad[a], now)
      BY <1>1, <1>2
    <2>4. bad' \in [Addrs -> Seq(0 .. MaxTime)]
      BY <1>1, <1>2, <2>1
    <2>5. \A b \in Addrs \ {a} : bad'[b] = bad[b]
      BY <1>1, <1>2
    <2> QED BY <2>2, <2>3, <2>4, <2>5
  <1>4. \A b \in Addrs : Len(bad'[b]) <= MaxOffenses
    BY <1>2, <1>3, BadTyped, ThrottleBounds
  <1>5. \A i \in 1 .. l :
          throttles[i].addr # a => Fits(throttles[i], bad'[throttles[i].addr])
    <2> TAKE i \in 1 .. l
    <2> HAVE throttles[i].addr # a
    <2>1. ~(i <= walk)
      OBVIOUS
    <2>2. FitsAt(i)
      BY <2>1 DEF ThrottleInv
    <2>3. bad'[throttles[i].addr] = bad[throttles[i].addr]
      BY <1>1, <1>3
    <2> QED BY <2>2, <2>3 DEF FitsAt
  <1>6. \A b \in Addrs \ {a} : bad'[b] = <<>> \/ Overdue(b)' \/ HasEntry(b)
    BY <1>2, <1>3 DEF ThrottleInv, Overdue
  <1>7. CASE a \in Listed
    <2> DEFINE e(i) == [Offense(a) EXCEPT !.offenses = throttles[i].offenses + 1]
               d(i) == IF throttles[i].addr = a THEN e(i) ELSE throttles[i]
    <2>1. throttles' = [i \in 1 .. l |-> d(i)]
      BY <1>1, <1>7 DEF SetBad
    <2>2. ASSUME NEW i \in 1 .. l
          PROVE  /\ d(i) \in Offenders /\ d(i).addr = throttles[i].addr
                 /\ Fits(d(i), bad'[d(i).addr])
      <3>1. CASE throttles[i].addr = a
        <4>1. Fits(throttles[i], bad[a])
          <5>1. ~(i <= walk)
            OBVIOUS
          <5> QED BY <3>1, <5>1 DEF ThrottleInv, FitsAt
        <4> DEFINE f == throttles[i].offenses
        <4>2. /\ f \in Nat /\ f >= 1 /\ f <= n
              /\ f < n => bad[a][n - f + 1] - bad[a][n - f] > Expire
          BY <1>1, <3>1, <4>1 DEF Fits
        <4>3. e(i) = [addr |-> a, last_bad |-> now, offenses |-> f + 1]
          BY DEF Offense
        <4>4. d(i) = e(i)
          BY <3>1
        <4> HIDE DEF e, d, f, n
        <4>5. f + 1 \in 1 .. MaxOffenses
          BY <1>2, <4>2, ThrottleBounds
        <4>6. e(i) \in Offenders /\ e(i).addr = a /\ e(i).last_bad = now
              /\ e(i).offenses = f + 1
          BY <1>1, <4>3, <4>5 DEF Offenders
        <4>7. f + 1 < n + 1 => bad'[a][n - f + 1] - bad'[a][n - f] > Expire
          <5> HAVE f + 1 < n + 1
          <5>1. n - f + 1 \in 1 .. n /\ n - f \in 1 .. n
            BY <1>2, <4>2
          <5>2. bad[a][n - f + 1] - bad[a][n - f] > Expire
            BY <1>2, <4>2
          <5> QED BY <1>3, <5>1, <5>2
        <4>8. f + 1 <= n + 1
          BY <1>2, <4>2
        <4>9. Fits(e(i), bad'[a])
          <5>1. e(i).last_bad = bad'[a][Len(bad'[a])]
            BY <1>3, <4>6
          <5>2. e(i).offenses < Len(bad'[a]) =>
                  bad'[a][Len(bad'[a]) - e(i).offenses + 1]
                    - bad'[a][Len(bad'[a]) - e(i).offenses] > Expire
            <6>1. Len(bad'[a]) = n + 1 /\ e(i).offenses = f + 1
              BY <1>3, <4>6
            <6>2. /\ Len(bad'[a]) - e(i).offenses = n - f
                  /\ Len(bad'[a]) - e(i).offenses + 1 = n - f + 1
              BY <1>2, <4>2, <6>1
            <6>3. e(i).offenses < Len(bad'[a]) => f + 1 < n + 1
              BY <6>1
            <6> QED BY <4>7, <6>2, <6>3
          <5>3. e(i).offenses <= Len(bad'[a])
            BY <1>3, <4>6, <4>8
          <5> QED BY <5>1, <5>2, <5>3 DEF Fits
        <4> QED BY <3>1, <4>4, <4>6, <4>9
      <3>2. CASE throttles[i].addr # a
        BY <1>1, <1>5, <3>2
      <3> QED BY <3>1, <3>2
    <2> HIDE DEF d
    <2>3. /\ throttles' \in Seq(Offenders) /\ Len(throttles') = l
          /\ \A i \in 1 .. l : throttles'[i] = d(i)
      BY <1>1, <2>1, <2>2
    <2>4. ThrottleTypeOK'
      BY <1>1, <1>2, <1>3, <1>4, <2>3 DEF ThrottleTypeOK, Offenders
    <2>5. \A i, j \in 1 .. l : throttles'[i].addr = throttles'[j].addr => i = j
      BY <2>2, <2>3 DEF ThrottleInv
    <2>6. \A i \in 1 .. l : FitsAt(i)'
      BY <2>2, <2>3 DEF FitsAt
    <2>7. \A b \in Addrs : HasEntry(b) => HasEntry(b)'
      BY <2>2, <2>3 DEF HasEntry
    <2>8. HasEntry(a)
      BY <1>7, OffensesFit
    <2>9. \A b \in Addrs : bad'[b] = <<>> \/ Overdue(b)' \/ HasEntry(b)'
      BY <1>6, <2>7, <2>8
    <2>10. \A i \in 1 .. Len(throttles') : FitsAt(i)'
      BY <2>3, <2>6
    <2>11. \A i, j \in 1 .. Len(throttles') :
             throttles'[i].addr = throttles'[j].addr => i = j
      BY <2>3, <2>5
    <2> QED BY <2>4, <2>9, <2>10, <2>11 DEF ThrottleInv
  <1>8. CASE a \notin Listed
    <2>1. throttles' = Append(throttles, Offense(a))
      BY <1>8 DEF SetBad
    <2>2. \A i \in 1 .. l : throttles[i].addr # a
      BY <1>8, OffensesFit DEF HasEntry
    <2>3. Offense(a) = [addr |-> a, last_bad |-> now, offenses |-> 1]
      BY DEF Offense
    <2>4. /\ Offense(a) \in Offenders /\ Offense(a).addr = a
          /\ Offense(a).offenses = 1 /\ Offense(a).last_bad = now
      BY <1>1, <1>2, <2>3, ThrottleBounds DEF Offenders
    <2>5. /\ throttles' \in Seq(Offenders) /\ Len(throttles') = l + 1
          /\ \A i \in 1 .. l : throttles'[i] = throttles[i]
          /\ throttles'[l + 1] = Offense(a)
      BY <1>1, <2>1, <2>4, AppendProperties
    <2>6. 1 < n + 1 => bad'[a][n + 1] - bad'[a][n] > Expire
      <3> HAVE 1 < n + 1
      <3>1. n \in 1 .. n /\ bad[a] # <<>>
        BY <1>2
      <3>2. Overdue(a)
        BY <2>2, <3>1 DEF ThrottleInv, HasEntry
      <3>3. bad[a][n] < now - Expire /\ bad[a][n] \in 0 .. MaxTime
        BY <1>2, <3>1, <3>2 DEF Overdue
      <3>4. bad'[a][n + 1] = now /\ bad'[a][n] = bad[a][n]
        BY <1>3, <3>1
      <3> DEFINE t == bad[a][n]
      <3>5. t \in Int /\ t < now - Expire /\ now \in Int /\ Expire \in Int
        BY <1>1, <3>3, ThrottleAssumption, ThrottleBounds
      <3> HIDE DEF t
      <3>6. now - t > Expire
        BY <3>5
      <3> QED BY <3>4, <3>6 DEF t
    <2> HIDE DEF l
    <2>7. Fits(Offense(a), bad'[a])
      <3>1. n + 1 - 1 = n /\ n + 1 - 1 + 1 = n + 1 /\ 1 <= n + 1
        BY <1>2
      <3> QED BY <1>3, <2>4, <2>6, <3>1 DEF Fits
    <2>8. ThrottleTypeOK'
      <3>1. walk' \in 0 .. Len(throttles')
        BY <1>1, <1>2, <2>5
      <3> QED BY <1>1, <1>2, <1>3, <1>4, <2>5, <3>1 DEF ThrottleTypeOK, Offenders
    <2>9. \A i \in 1 .. Len(throttles') : i \in 1 .. l \/ i = l + 1
      BY <1>1, <2>5
    <2>10. /\ \A i \in 1 .. l : i \in 1 .. Len(throttles')
           /\ l + 1 \in 1 .. Len(throttles')
      BY <1>1, <2>5
    <2>11. \A i, j \in 1 .. Len(throttles') :
             throttles'[i].addr = throttles'[j].addr => i = j
      BY <2>2, <2>4, <2>5, <2>9 DEF ThrottleInv, l
    <2>12. ASSUME NEW i \in 1 .. Len(throttles')
           PROVE  Fits(throttles'[i], bad'[throttles'[i].addr])
      <3>1. CASE i = l + 1
        BY <2>4, <2>5, <2>7, <3>1
      <3>2. CASE i \in 1 .. l
        BY <1>5, <2>2, <2>5, <3>2 DEF l
      <3> QED BY <2>9, <3>1, <3>2
    <2>13. ASSUME NEW b \in Addrs
           PROVE  bad'[b] = <<>> \/ Overdue(b)' \/ HasEntry(b)'
      <3>1. CASE b = a
        BY <2>4, <2>5, <2>10, <3>1 DEF HasEntry
      <3>2. CASE b # a /\ HasEntry(b)
        BY <2>5, <2>10, <3>2 DEF HasEntry, l
      <3> QED BY <1>6, <3>1, <3>2
    <2>14. \A i \in 1 .. Len(throttles') : FitsAt(i)'
      BY <2>12 DEF FitsAt, Fits
    <2> QED BY <2>8, <2>11, <2>13, <2>14 DEF ThrottleInv
  <1> QED BY <1>7, <1>8

\* A turn of the expiry: an entry that is removed is forgotten or overdue.
LEMMA ExpireStepKeeps ==
  ASSUME ThrottleInv, ExpireStep
  PROVE  ThrottleInv'
  <1> DEFINE l == Len(throttles)
  <1>1. /\ throttles \in Seq(Offenders) /\ l \in Nat
        /\ \A i \in 1 .. l : throttles[i].addr \in Addrs
        /\ walk \in 0 .. l /\ now \in 0 .. MaxTime
        /\ bad \in [Addrs -> Seq(0 .. MaxTime)] /\ wild \in BOOLEAN
    BY ThrottleTyped
  <1>2. walk > 0 /\ walk' = walk - 1 /\ now' = now /\ bad' = bad
    BY DEF ExpireStep
  <1>3. walk \in 1 .. l
    BY <1>1, <1>2
  <1>4. CASE ~Quiet(throttles[walk]) /\ UNCHANGED <<throttles, wild>>
    <2>1. walk' \in 0 .. Len(throttles)
      BY <1>1, <1>2
    <2>2. ThrottleTypeOK'
      BY <1>1, <1>2, <1>4, <2>1 DEF ThrottleTypeOK, Offenders, ThrottleInv
    <2>3. ASSUME NEW i \in 1 .. l
          PROVE  FitsAt(i)' \/ (i <= walk' /\ Forgotten(throttles[i])')
      <3>1. CASE FitsAt(i)
        BY <1>2, <1>4, <3>1 DEF FitsAt, Fits
      <3>2. CASE (i <= walk /\ Forgotten(throttles[i]))
        <4>1. i # walk
          BY <1>4, <3>2 DEF Forgotten
        <4>2. i <= walk'
          BY <1>1, <1>2, <3>2, <4>1
        <4> QED BY <1>2, <1>4, <3>2, <4>2 DEF Forgotten, Quiet
      <3> QED BY <3>1, <3>2 DEF ThrottleInv
    <2>4. \A a \in Addrs : bad'[a] = <<>> \/ Overdue(a)' \/ HasEntry(a)'
      BY <1>2, <1>4 DEF ThrottleInv, Overdue, HasEntry
    <2> QED BY <1>4, <2>2, <2>3, <2>4 DEF ThrottleInv
  <1>5. CASE /\ Quiet(throttles[walk]) /\ throttles' = RemoveAt(throttles, walk)
             /\ wild' \in BOOLEAN
    <2> DEFINE a == throttles[walk].addr
               k(i) == IF i < walk THEN i ELSE i + 1
    <2>1. /\ throttles' \in Seq(Offenders) /\ Len(throttles') = l - 1
          /\ \A i \in 1 .. l - 1 :
               throttles'[i] = IF i < walk THEN throttles[i] ELSE throttles[i + 1]
      BY <1>1, <1>3, <1>5, Removed
    <2>2. \A i \in 1 .. l - 1 : throttles'[i] = throttles[k(i)]
      BY <2>1
    <2>3. a \in Addrs
      BY <1>1, <1>3
    <2>4. bad[a] = <<>> \/ Overdue(a)
      <3>1. CASE FitsAt(walk)
        <4>1. throttles[walk].last_bad = bad[a][Len(bad[a])]
          BY <3>1 DEF FitsAt, Fits
        <4> QED BY <1>5, <4>1 DEF Quiet, Overdue
      <3>2. CASE Forgotten(throttles[walk])
        BY <3>2 DEF Forgotten
      <3> QED BY <1>3, <3>1, <3>2 DEF ThrottleInv
    <2> HIDE DEF l
    <2>5. ThrottleTypeOK'
      <3>1. walk' \in 0 .. Len(throttles')
        BY <1>1, <1>2, <1>3, <2>1
      <3> QED BY <1>1, <1>2, <1>5, <2>1, <3>1 DEF ThrottleTypeOK, Offenders, ThrottleInv
    <2>6. /\ \A i \in 1 .. l - 1 : k(i) \in 1 .. l /\ k(i) # walk
          /\ \A i, j \in 1 .. l - 1 : k(i) = k(j) => i = j
          /\ \A j \in 1 .. l : j # walk => \E i \in 1 .. l - 1 : k(i) = j
          /\ \A i \in 1 .. l - 1 : k(i) <= walk => i <= walk'
      <3>1. \A i \in 1 .. l - 1 : k(i) \in 1 .. l /\ k(i) # walk
        BY <1>1, <1>3
      <3>2. \A i, j \in 1 .. l - 1 : k(i) = k(j) => i = j
        BY <1>1, <1>3
      <3>3. ASSUME NEW j \in 1 .. l, j # walk
            PROVE  \E i \in 1 .. l - 1 : k(i) = j
        <4>1. CASE j < walk
          <5>1. j \in 1 .. l - 1 /\ k(j) = j
            BY <1>1, <1>3, <4>1
          <5> QED BY <5>1
        <4>2. CASE ~(j < walk)
          <5>1. j - 1 \in 1 .. l - 1 /\ k(j - 1) = j
            BY <1>1, <1>3, <3>3, <4>2
          <5> QED BY <5>1
        <4> QED BY <4>1, <4>2
      <3>4. \A i \in 1 .. l - 1 : k(i) <= walk => i <= walk'
        BY <1>1, <1>2, <1>3
      <3> QED BY <3>1, <3>2, <3>3, <3>4
    <2> HIDE DEF k
    <2>7. \A i, j \in 1 .. l - 1 : throttles'[i].addr = throttles'[j].addr => i = j
      <3>1. \A i, j \in 1 .. l : throttles[i].addr = throttles[j].addr => i = j
        BY DEF ThrottleInv, l
      <3> QED BY <2>2, <2>6, <3>1
    <2>8. ASSUME NEW i \in 1 .. l - 1
          PROVE  FitsAt(i)' \/ (i <= walk' /\ Forgotten(throttles[i])')
      <3>1. k(i) \in 1 .. l /\ throttles'[i] = throttles[k(i)]
        BY <2>2, <2>6
      <3>2. CASE FitsAt(k(i))
        BY <1>2, <3>1, <3>2 DEF FitsAt, Fits
      <3>3. CASE k(i) <= walk /\ Forgotten(throttles[k(i)])
        BY <1>2, <2>6, <3>1, <3>3 DEF Forgotten, Quiet
      <3> QED BY <3>1, <3>2, <3>3 DEF ThrottleInv, l
    <2>9. ASSUME NEW b \in Addrs, HasEntry(b), b # a
          PROVE  \E i \in 1 .. l - 1 : throttles'[i].addr = b
      <3>1. PICK j \in 1 .. l : throttles[j].addr = b
        BY <2>9 DEF HasEntry, l
      <3>2. j # walk
        BY <2>9, <3>1
      <3>3. PICK i \in 1 .. l - 1 : k(i) = j
        BY <2>6, <3>2
      <3> QED BY <2>2, <3>1, <3>3
    <2>10. ASSUME NEW b \in Addrs
           PROVE  bad'[b] = <<>> \/ Overdue(b)' \/ HasEntry(b)'
      <3>1. CASE bad[b] = <<>> \/ Overdue(b)
        BY <1>2, <3>1 DEF Overdue
      <3>2. CASE HasEntry(b) /\ b # a
        BY <2>1, <2>9, <3>2 DEF HasEntry
      <3> QED BY <2>4, <3>1, <3>2 DEF ThrottleInv
    <2> QED BY <2>1, <2>5, <2>7, <2>8, <2>10 DEF ThrottleInv
  <1> QED BY <1>4, <1>5 DEF ExpireStep, RemoveThrottle

\* The start of the expiry: the entry of an address that is forgotten is quiet,
\* and the walk will come to it.
LEMMA StartKeeps ==
  ASSUME ThrottleInv, walk = 0, StartExpire
  PROVE  ThrottleInv'
  <1>1. /\ throttles \in Seq(Offenders) /\ Len(throttles) \in Nat
        /\ now \in 0 .. MaxTime
        /\ bad \in [Addrs -> Seq(0 .. MaxTime)] /\ wild \in BOOLEAN
        /\ \A i \in 1 .. Len(throttles) : throttles[i].addr \in Addrs
    BY ThrottleTyped
  <1>2. /\ throttles' = throttles /\ wild' = wild /\ now' = now
        /\ walk' = Len(throttles)
        /\ bad' = [a \in Addrs |-> IF Overdue(a) THEN <<>> ELSE bad[a]]
    BY DEF StartExpire
  <1>3. ASSUME NEW a \in Addrs
        PROVE  /\ bad'[a] \in Seq(0 .. MaxTime) /\ Len(bad'[a]) <= MaxOffenses
               /\ Overdue(a) => bad'[a] = <<>>
               /\ ~Overdue(a) => bad'[a] = bad[a]
    <2>1. bad'[a] = IF Overdue(a) THEN <<>> ELSE bad[a]
      BY <1>2
    <2>2. <<>> \in Seq(0 .. MaxTime) /\ Len(<<>>) = 0
      BY EmptySeq
    <2>3. bad[a] \in Seq(0 .. MaxTime) /\ Len(bad[a]) <= MaxOffenses
      BY BadTyped, ThrottleBounds
    <2>4. CASE Overdue(a)
      BY <2>1, <2>2, <2>4, ThrottleBounds
    <2>5. CASE ~Overdue(a)
      BY <2>1, <2>3, <2>5
    <2> QED BY <2>4, <2>5
  <1>4. bad' \in [Addrs -> Seq(0 .. MaxTime)]
    BY <1>2, <1>3
  <1>5. walk' \in 0 .. Len(throttles)
    BY <1>1, <1>2
  <1>6. ThrottleTypeOK'
    BY <1>1, <1>2, <1>3, <1>4, <1>5 DEF ThrottleTypeOK, Offenders
  <1>7. ASSUME NEW i \in 1 .. Len(throttles)
        PROVE  FitsAt(i)' \/ (i <= walk' /\ Forgotten(throttles[i])')
    <2> DEFINE a == throttles[i].addr
    <2>1. a \in Addrs /\ i <= walk' /\ ~(i <= walk)
      BY <1>1, <1>2
    <2>2. FitsAt(i)
      BY <2>1 DEF ThrottleInv
    <2>3. CASE Overdue(a)
      <3>1. Quiet(throttles[i])
        BY <2>2, <2>3 DEF FitsAt, Fits, Overdue, Quiet
      <3>2. bad'[a] = <<>>
        BY <1>3, <2>1, <2>3
      <3> QED BY <1>2, <2>1, <3>1, <3>2 DEF Forgotten, Quiet
    <2>4. CASE ~Overdue(a)
      <3>1. bad'[a] = bad[a]
        BY <1>3, <2>1, <2>4
      <3> QED BY <1>2, <2>2, <3>1 DEF FitsAt, Fits
    <2> QED BY <2>3, <2>4
  <1>8. \A a \in Addrs : bad'[a] = <<>> \/ Overdue(a)' \/ HasEntry(a)'
    BY <1>2, <1>3 DEF ThrottleInv, Overdue, HasEntry
  <1> QED BY <1>2, <1>6, <1>7, <1>8 DEF ThrottleInv

\* The clock: what is overdue or quiet stays so.
LEMMA ThrottleElse ==
  ASSUME ThrottleInv, Tick \/ UNCHANGED throttleVars
  PROVE  ThrottleInv' /\ walk' = walk
  <1>1. /\ throttles \in Seq(Offenders) /\ Len(throttles) \in Nat
        /\ walk \in 0 .. Len(throttles) /\ now \in 0 .. MaxTime
        /\ bad \in [Addrs -> Seq(0 .. MaxTime)] /\ wild \in BOOLEAN
        /\ \A i \in 1 .. Len(throttles) : throttles[i].last_bad \in 0 .. MaxTime
    BY ThrottleTyped
  <1>2. /\ throttles' = throttles /\ bad' = bad /\ wild' = wild /\ walk' = walk
        /\ now' \in 0 .. MaxTime /\ now' \in {now, now + 1}
    <2>1. CASE Tick
      BY <1>1, <2>1, ThrottleBounds DEF Tick
    <2>2. CASE UNCHANGED throttleVars
      BY <1>1, <2>2 DEF throttleVars
    <2> QED BY <2>1, <2>2
  <1>3. ThrottleTypeOK'
    BY <1>1, <1>2 DEF ThrottleTypeOK, Offenders, ThrottleInv
  <1>4. \A i \in 1 .. Len(throttles) :
          FitsAt(i)' \/ (i <= walk' /\ Forgotten(throttles[i])')
    <2>1. \A i \in 1 .. Len(throttles) : Quiet(throttles[i]) => Quiet(throttles[i])'
      BY <1>1, <1>2, ThrottleAssumption, ThrottleBounds DEF Quiet
    <2> QED BY <1>2, <2>1 DEF ThrottleInv, FitsAt, Forgotten
  <1>5. ASSUME NEW a \in Addrs, Overdue(a) PROVE Overdue(a)'
    <2>1. bad[a] # <<>> /\ bad[a][Len(bad[a])] \in 0 .. MaxTime
      <3>1. bad[a] # <<>>
        BY <1>5 DEF Overdue
      <3>2. Len(bad[a]) \in 1 .. Len(bad[a])
        BY <3>1, BadTyped, ThrottleBounds
      <3> QED BY <3>1, <3>2, BadTyped
    <2> QED BY <1>1, <1>2, <1>5, <2>1, ThrottleAssumption, ThrottleBounds DEF Overdue
  <1>6. \A a \in Addrs : bad'[a] = <<>> \/ Overdue(a)' \/ HasEntry(a)'
    BY <1>2, <1>5 DEF ThrottleInv, HasEntry
  <1> QED BY <1>2, <1>3, <1>4, <1>6 DEF ThrottleInv

\* What lms_throttle_check() gives between two expiries is After or more for a
\* persistent offender, and only for an address with as many offenses.
LEMMA CheckFits ==
  ASSUME ThrottleInv, walk = 0, NEW a \in Addrs
  PROVE  /\ Persistent(a) => Offenses(a) >= After
         /\ Offenses(a) >= After => Len(bad[a]) >= After
  <1> DEFINE n == Len(bad[a])
             f == Offenses(a)
  <1>1. /\ n \in Nat /\ now \in 0 .. MaxTime
        /\ \A i \in 1 .. n : bad[a][i] \in 0 .. MaxTime
    BY BadTyped, ThrottleTyped, ThrottleBounds
  <1>2. /\ f \in 0 .. n
        /\ f = 0 => bad[a] = <<>> \/ Overdue(a)
        /\ 0 < f /\ f < n => bad[a][n - f + 1] - bad[a][n - f] > Expire
    BY OffensesFit
  <1>3. bad[a] = <<>> <=> n = 0
    BY BadTyped
  <1>4. Overdue(a) => n > 0 /\ bad[a][n] < now - Expire
    BY <1>1, <1>3 DEF Overdue
  <1>5. Persistent(a) => /\ n >= After /\ now - bad[a][n] <= Expire
                         /\ \A i \in n - After + 1 .. n - 1 :
                              bad[a][i + 1] - bad[a][i] <= Expire
    BY DEF Persistent
  <1> HIDE DEF n, f
  <1>6. After \in Nat /\ After >= 1 /\ Expire \in Nat
    BY ThrottleAssumption
  <1>7. ASSUME Persistent(a), ~(f >= After) PROVE FALSE
    <2>1. CASE f = 0
      <3>1. n >= 1 /\ n \in 1 .. n
        BY <1>1, <1>5, <1>6, <1>7
      <3>2. bad[a][n] \in 0 .. MaxTime /\ bad[a][n] < now - Expire
        BY <1>1, <1>2, <1>3, <1>4, <2>1, <3>1
      <3> QED BY <1>1, <1>5, <1>6, <1>7, <3>2, ThrottleBounds
    <2>2. CASE f > 0
      <3>1. n - f \in n - After + 1 .. n - 1 /\ f < n /\ n - f \in 1 .. n
            /\ n - f + 1 \in 1 .. n
        BY <1>1, <1>2, <1>5, <1>6, <1>7, <2>2
      <3>2. /\ bad[a][n - f + 1] - bad[a][n - f] <= Expire
            /\ bad[a][n - f + 1] - bad[a][n - f] > Expire
        BY <1>2, <1>5, <1>7, <2>2, <3>1
      <3>3. bad[a][n - f + 1] \in 0 .. MaxTime /\ bad[a][n - f] \in 0 .. MaxTime
        BY <1>1, <3>1
      <3> QED BY <1>6, <3>2, <3>3, ThrottleBounds
    <2> QED BY <1>2, <2>1, <2>2
  <1>8. f >= After => n >= After
    BY <1>1, <1>2, <1>6
  <1> QED BY <1>7, <1>8 DEF n, f

-----------------------------------------------------------------------------
(* The program *)

\* The socket of a record is one that was never connected: _cx_sockaccept()
\* stores the second socket, and no call frees that one.  This is why the
\* record outlives its connection without ever naming memory that was freed.
Records ==
  /\ pc \in {"conf", "net", "top", "sweep", "events"}
  /\ host \in {"none", "any", "loopback"}
  /\ sock \in [Socks -> {"free", "spare", "open"}] /\ peer \in [Socks -> Addrs]
  /\ slow \subseteq Socks
  /\ appdata \in [Socks -> Nat] /\ records \in Seq(Socks)
  /\ Len(records) <= MaxRecords
  /\ freed \subseteq 1 .. Len(records) /\ lastrun \in 0 .. now
  /\ fault \in {"none", "nullPort", "freedRecord"}
  /\ \A m \in Socks :
       appdata[m] # 0 =>
         /\ sock[m] = "open" /\ appdata[m] \in 1 .. Len(records)
         /\ appdata[m] \notin freed
  /\ \A m, o \in Socks : appdata[m] # 0 /\ appdata[m] = appdata[o] => m = o
  /\ \A i \in 1 .. Len(records) : i \notin freed => sock[records[i]] = "spare"

\* The null pointer is that of a port that the look-up does not find.
NullPort == fault = "nullPort" => CxMConf(Listen, Port) = 0

\* The expiry has gone through the list before the loop goes on.
Resting == pc # "sweep" => walk = 0

IInv == ThrottleInv /\ ConfInv /\ Records /\ NullPort /\ Resting

\* The invariant holds at the start.
LEMMA InvInit == Init => IInv
  <1> SUFFICES ASSUME Init PROVE IInv
    OBVIOUS
  <1>0. /\ throttles = <<>> /\ walk = 0 /\ now = 0
        /\ bad = [a \in Addrs |-> <<>>] /\ wild = FALSE
    BY DEF Init, ThrottleInit
  <1>1. throttles = <<>> /\ Len(throttles) = 0 /\ throttles \in Seq(Offenders)
    BY <1>0, EmptySeq
  <1>2. ThrottleTypeOK
    <2>1. /\ now \in 0 .. MaxTime /\ bad \in [Addrs -> Seq(0 .. MaxTime)]
          /\ \A a \in Addrs : Len(bad[a]) <= MaxOffenses
      <3>1. <<>> \in Seq(0 .. MaxTime) /\ Len(<<>>) = 0
        BY EmptySeq
      <3> QED BY <1>0, <3>1, ThrottleBounds
    <2>2. walk \in 0 .. Len(throttles)
      BY <1>0, <1>1
    <2>3. wild \in BOOLEAN
      BY <1>0, Zenon
    <2> QED BY <1>1, <2>1, <2>2, <2>3 DEF ThrottleTypeOK, Offenders
  <1>3. ThrottleInv
    BY <1>0, <1>1, <1>2 DEF ThrottleInv
  <1>4. conf = <<>> /\ given = <<>> /\ lines = 0 /\ error = 0
    BY DEF Init, ConfInit
  <1>5. section \in SectionsOrNone /\ prevName \in NamesOrNone
    BY DEF Init, ConfInit, SectionsOrNone, NamesOrNone
  <1>6. Len(conf) = 0 /\ Len(given) = 0 /\ conf \in Seq(Entries) /\ given \in Seq(Entries)
    BY <1>4, EmptySeq
  <1>7. ConfTypes
    BY <1>4, <1>5, <1>6, LinesBound DEF ConfTypes
  <1>8. Stored /\ PortKept
    BY <1>6 DEF Stored, PortKept, PortGiven
  <1>9. records = <<>> /\ Len(records) = 0 /\ records \in Seq(Socks)
    BY EmptySeq DEF Init
  <1>10. Records
    BY <1>9, RecordsBound DEF Init, ThrottleInit, Records
  <1>11. NullPort
    BY DEF Init, NullPort
  <1>12. Resting
    BY <1>0 DEF Resting
  <1> QED BY <1>3, <1>7, <1>8, <1>10, <1>11, <1>12 DEF IInv, ConfInv

\* A step that changes no record and no socket keeps the records sound.
LEMMA RecordsElse ==
  ASSUME Records, ThrottleInv,
         UNCHANGED <<sock, appdata, records, freed>>,
         pc' \in {"conf", "net", "top", "sweep", "events"},
         host' \in {"none", "any", "loopback"},
         peer' \in [Socks -> Addrs], slow' \subseteq Socks,
         lastrun' \in 0 .. now',
         fault' \in {"none", "nullPort", "freedRecord"}
  PROVE  Records'
  BY DEF Records

\* lms_conn_accept() and _cx_sockaccept(), with the outcomes of the two calls
\* of malloc().
LEMMA AcceptKeeps ==
  ASSUME IInv, NEW m \in Socks, NEW a \in Addrs, Accept(m, a)
  PROVE  IInv' /\ (Persistent(a) => m \in slow')
         /\ (m \in slow' => Len(bad[a]) >= After) /\ peer'[m] = a
         /\ \A o \in Socks \ {m} : ~(sock[o] = "free" /\ sock'[o] = "open")
  <1> DEFINE l == Len(records)
  <1>1. /\ sock \in [Socks -> {"free", "spare", "open"}]
        /\ peer \in [Socks -> Addrs] /\ slow \subseteq Socks
        /\ appdata \in [Socks -> Nat] /\ records \in Seq(Socks)
        /\ l <= MaxRecords /\ freed \subseteq 1 .. l
        /\ pc \in {"conf", "net", "top", "sweep", "events"}
        /\ host \in {"none", "any", "loopback"} /\ lastrun \in 0 .. now
        /\ fault \in {"none", "nullPort", "freedRecord"}
    BY DEF IInv, Records
  <1>2. /\ \A o \in Socks :
             appdata[o] # 0 =>
               sock[o] = "open" /\ appdata[o] \in 1 .. l /\ appdata[o] \notin freed
        /\ \A o, p \in Socks : appdata[o] # 0 /\ appdata[o] = appdata[p] => o = p
        /\ \A i \in 1 .. l : i \notin freed => sock[records[i]] = "spare"
    BY DEF IInv, Records
  <1>3. l \in Nat /\ \A i \in 1 .. l : records[i] \in Socks
    BY <1>1, LenProperties, ElementOfSeq
  <1>4. /\ sock[m] = "free" /\ l < MaxRecords
        /\ peer' = [peer EXCEPT ![m] = a]
        /\ slow' = IF Offenses(a) >= After THEN slow \cup {m} ELSE slow \ {m}
        /\ UNCHANGED <<throttleVars, confVars, pc, host, lastrun>>
    BY DEF Accept
  <1>5. peer' \in [Socks -> Addrs] /\ peer'[m] = a /\ slow' \subseteq Socks
        /\ (Persistent(a) => m \in slow')
        /\ (m \in slow' => Len(bad[a]) >= After)
    <2>1. walk = 0
      BY DEF IInv, Resting, Accept
    <2>2. /\ Persistent(a) => Offenses(a) >= After
          /\ Offenses(a) >= After => Len(bad[a]) >= After
      BY <2>1, CheckFits DEF IInv
    <2>3. m \in slow' <=> Offenses(a) >= After
      BY <1>4
    <2> QED BY <1>1, <1>4, <2>2, <2>3
  <1>6. /\ ThrottleInv' /\ ConfInv' /\ Resting' /\ now' = now
        /\ CxMConf(Listen, Port)' = CxMConf(Listen, Port)
    <2>1. ThrottleInv'
      BY <1>4, ThrottleElse DEF IInv
    <2>2. ConfInv'
      BY <1>4, ConfStutter DEF IInv
    <2>3. conf' = conf
      BY <1>4 DEF confVars
    <2>4. now' = now
      BY <1>4 DEF throttleVars
    <2>5. CxMConf(Listen, Port)' = CxMConf(Listen, Port)
      BY <2>3 DEF CxMConf, SelectInSeq, Ours
    <2>6. Resting'
      BY <1>4 DEF IInv, Resting, throttleVars
    <2> QED BY <2>1, <2>2, <2>4, <2>5, <2>6
  <1>7. CASE /\ freed # {} /\ fault' = "freedRecord"
             /\ UNCHANGED <<sock, appdata, records, freed>>
    <2>1. Records'
      BY <1>1, <1>4, <1>5, <1>6, <1>7, RecordsElse DEF IInv
    <2>2. NullPort'
      BY <1>7 DEF NullPort
    <2> QED BY <1>5, <1>6, <1>7, <2>1, <2>2 DEF IInv
  <1>8. ASSUME NEW spare \in Socks \ {m}, freed = {}, freed' = freed, fault' = fault,
               sock[spare] = "free", Record(m, spare),
               appdata' = [appdata EXCEPT ![m] = Len(records')]
        PROVE  Records' /\ NullPort'
               /\ \A o \in Socks \ {m} : ~(sock[o] = "free" /\ sock'[o] = "open")
    <2>1. /\ records' \in Seq(Socks) /\ Len(records') = l + 1
          /\ \A i \in 1 .. l : records'[i] = records[i]
          /\ records'[l + 1] = spare
      BY <1>1, <1>8, AppendProperties DEF Record
    <2>2. /\ sock' \in [Socks -> {"free", "spare", "open"}]
          /\ sock'[m] = "open" /\ sock'[spare] = "spare"
          /\ \A o \in Socks \ {m, spare} : sock'[o] = sock[o]
      BY <1>1, <1>8 DEF Record
    <2>3. /\ appdata' \in [Socks -> Nat] /\ appdata'[m] = l + 1
          /\ \A o \in Socks \ {m} : appdata'[o] = appdata[o]
      BY <1>1, <1>3, <1>8, <2>1
    <2> HIDE DEF l
    <2>4. \A i \in 1 .. Len(records') : i \in 1 .. l \/ i = l + 1
      BY <1>3, <2>1
    <2>5. /\ l + 1 \in 1 .. Len(records') /\ l + 1 # 0 /\ l + 1 \notin 1 .. l
          /\ \A i \in 1 .. l : i \in 1 .. Len(records')
      BY <1>3, <2>1
    <2>6. ASSUME NEW o \in Socks, appdata'[o] # 0
          PROVE  /\ sock'[o] = "open" /\ appdata'[o] \in 1 .. Len(records')
                 /\ appdata'[o] \notin freed'
      <3>1. CASE o = m
        BY <1>8, <2>2, <2>3, <2>5, <3>1
      <3>2. CASE o # m
        <4>1. appdata[o] # 0 /\ sock[o] = "open" /\ appdata[o] \in 1 .. l
          BY <1>2, <2>3, <2>6, <3>2
        <4>2. o # spare
          BY <1>8, <4>1
        <4> QED BY <1>8, <2>2, <2>3, <2>5, <3>2, <4>1, <4>2
      <3> QED BY <3>1, <3>2
    <2>7. ASSUME NEW o \in Socks, NEW p \in Socks,
                 appdata'[o] # 0 /\ appdata'[o] = appdata'[p]
          PROVE  o = p
      <3>1. \A q \in Socks \ {m} : appdata'[q] # l + 1
        BY <1>2, <2>3, <2>5
      <3> QED BY <1>2, <2>3, <2>7, <3>1
    <2>8. ASSUME NEW i \in 1 .. Len(records')
          PROVE  sock'[records'[i]] = "spare"
      <3>1. CASE i = l + 1
        BY <2>1, <2>2, <3>1
      <3>2. CASE i \in 1 .. l
        <4>1. records[i] \in Socks /\ sock[records[i]] = "spare"
          BY <1>2, <1>3, <1>8, <3>2
        <4>2. records[i] # m /\ records[i] # spare
          BY <1>4, <1>8, <4>1
        <4> QED BY <2>1, <2>2, <3>2, <4>1, <4>2
      <3> QED BY <2>4, <3>1, <3>2
    <2>9. Len(records') <= MaxRecords /\ freed' \subseteq 1 .. Len(records')
      BY <1>3, <1>4, <1>8, <2>1, RecordsBound DEF l
    <2>10. pc' = pc /\ host' = host /\ lastrun' \in 0 .. now'
      BY <1>1, <1>4, <1>6
    <2>11. Records'
      BY <1>1, <1>5, <1>8, <2>1, <2>2, <2>3, <2>6, <2>7, <2>8, <2>9, <2>10
      DEF Records
    <2>12. NullPort'
      BY <1>6, <1>8 DEF IInv, NullPort
    <2> QED BY <2>2, <2>11, <2>12
  <1>9. ASSUME sock' = [sock EXCEPT ![m] = "open"],
               appdata' = [appdata EXCEPT ![m] = 0], fault' = fault,
               \/ UNCHANGED <<records, freed>>
               \/ /\ freed = {}
                  /\ records' = Append(records, m) /\ freed' = {Len(records')}
        PROVE  Records' /\ NullPort'
               /\ \A o \in Socks \ {m} : ~(sock[o] = "free" /\ sock'[o] = "open")
    <2>1. /\ sock' \in [Socks -> {"free", "spare", "open"}]
          /\ sock'[m] = "open"
          /\ \A o \in Socks \ {m} : sock'[o] = sock[o]
      BY <1>1, <1>9
    <2>2. /\ appdata' \in [Socks -> Nat] /\ appdata'[m] = 0
          /\ \A o \in Socks \ {m} : appdata'[o] = appdata[o]
      BY <1>1, <1>9
    <2>3. /\ records' \in Seq(Socks) /\ Len(records') \in Nat
          /\ Len(records') <= MaxRecords
          /\ freed' \subseteq 1 .. Len(records')
          /\ \A i \in 1 .. l : i \in 1 .. Len(records')
          /\ \A i \in 1 .. l : i \notin freed' <=> i \notin freed
          /\ \A i \in 1 .. Len(records') :
               i \notin freed' => i \in 1 .. l /\ i \notin freed /\ records'[i] = records[i]
      <3>1. CASE UNCHANGED <<records, freed>>
        BY <1>1, <1>3, <3>1
      <3>2. CASE /\ freed = {}
                 /\ records' = Append(records, m) /\ freed' = {Len(records')}
        <4>1. /\ records' \in Seq(Socks) /\ Len(records') = l + 1
              /\ \A i \in 1 .. l : records'[i] = records[i]
          BY <1>1, <3>2, AppendProperties
        <4> HIDE DEF l
        <4>2. /\ \A i \in 1 .. l : i \in 1 .. Len(records') /\ i # Len(records')
              /\ \A i \in 1 .. Len(records') : i # Len(records') => i \in 1 .. l
              /\ Len(records') \in 1 .. Len(records')
          BY <1>3, <4>1
        <4>3. Len(records') \in Nat /\ Len(records') <= MaxRecords
          BY <1>3, <1>4, <4>1, RecordsBound DEF l
        <4> QED BY <3>2, <4>1, <4>2, <4>3
      <3> QED BY <1>9, <3>1, <3>2
    <2> HIDE DEF l
    <2>4. ASSUME NEW o \in Socks, appdata'[o] # 0
          PROVE  /\ sock'[o] = "open" /\ appdata'[o] \in 1 .. Len(records')
                 /\ appdata'[o] \notin freed'
      <3>1. o # m /\ appdata'[o] = appdata[o] /\ sock'[o] = sock[o]
        BY <2>1, <2>2, <2>4
      <3> QED BY <1>2, <2>3, <2>4, <3>1
    <2>5. \A o, p \in Socks : appdata'[o] # 0 /\ appdata'[o] = appdata'[p] => o = p
      BY <1>2, <2>2
    <2>6. ASSUME NEW i \in 1 .. Len(records'), i \notin freed'
          PROVE  sock'[records'[i]] = "spare"
      <3>1. /\ i \in 1 .. l /\ i \notin freed /\ records'[i] = records[i]
        BY <2>3, <2>6
      <3>2. records[i] \in Socks /\ sock[records[i]] = "spare"
        BY <1>2, <1>3, <3>1
      <3> QED BY <1>4, <2>1, <3>1, <3>2
    <2>7. pc' = pc /\ host' = host /\ lastrun' \in 0 .. now'
      BY <1>1, <1>4, <1>6
    <2>8. Records'
      BY <1>1, <1>5, <1>9, <2>1, <2>2, <2>3, <2>4, <2>5, <2>6, <2>7 DEF Records
    <2>9. NullPort'
      BY <1>6, <1>9 DEF IInv, NullPort
    <2> QED BY <2>1, <2>8, <2>9
  <1>10. \/ /\ freed # {} /\ fault' = "freedRecord"
            /\ UNCHANGED <<sock, appdata, records, freed>>
         \/ /\ freed = {} /\ UNCHANGED <<fault, freed>>
            /\ \E spare \in Socks \ {m} : sock[spare] = "free" /\ Record(m, spare)
            /\ appdata' = [appdata EXCEPT ![m] = Len(records')]
         \/ /\ sock' = [sock EXCEPT ![m] = "open"]
            /\ appdata' = [appdata EXCEPT ![m] = 0]
            /\ \/ UNCHANGED <<records, freed>>
               \/ /\ freed = {}
                  /\ records' = Append(records, m) /\ freed' = {Len(records')}
            /\ UNCHANGED fault
    BY DEF Accept
  <1>11. IInv' /\ \A o \in Socks \ {m} : ~(sock[o] = "free" /\ sock'[o] = "open")
    <2>1. CASE /\ freed # {} /\ fault' = "freedRecord"
               /\ UNCHANGED <<sock, appdata, records, freed>>
      BY <1>7, <2>1
    <2>2. CASE Records' /\ NullPort'
               /\ \A o \in Socks \ {m} : ~(sock[o] = "free" /\ sock'[o] = "open")
      BY <1>6, <2>2 DEF IInv
    <2> QED BY <1>8, <1>9, <1>10, <2>1, <2>2
  <1> QED BY <1>5, <1>11

\* Each action preserves the invariant.
LEMMA InvNext == IInv /\ [Next]_vars => IInv'
  <1> SUFFICES ASSUME IInv, [Next]_vars PROVE IInv'
    OBVIOUS
  <1> USE DEF IInv
  <1>1. /\ pc \in {"conf", "net", "top", "sweep", "events"}
        /\ host \in {"none", "any", "loopback"}
        /\ peer \in [Socks -> Addrs] /\ slow \subseteq Socks
        /\ lastrun \in 0 .. now /\ now \in 0 .. MaxTime
        /\ fault \in {"none", "nullPort", "freedRecord"}
    BY ThrottleTyped DEF Records
  <1>2. ASSUME ThrottleInv', UNCHANGED <<confVars, daemon>>, now' \in {now, now + 1},
               pc # "sweep" => walk' = walk
        PROVE  IInv'
    <2>1. ConfInv'
      BY <1>2, ConfStutter
    <2>2. Records'
      BY <1>1, <1>2, RecordsElse DEF daemon
    <2>3. NullPort'
      BY <1>2 DEF NullPort, CxMConf, SelectInSeq, Ours, confVars, daemon
    <2>4. Resting'
      BY <1>2 DEF Resting, daemon
    <2> QED BY <1>2, <2>1, <2>2, <2>3, <2>4
  <1>3. ASSUME ThrottleInv', now' = now, UNCHANGED confVars, fault' = fault,
               UNCHANGED <<host, sock, peer, slow, appdata, records, freed>>,
               pc' \in {"conf", "net", "top", "sweep", "events"},
               lastrun' \in {lastrun, now}, Resting'
        PROVE  IInv'
    <2>1. ConfInv'
      BY <1>3, ConfStutter
    <2>2. Records'
      <3>1. lastrun' \in 0 .. now'
        BY <1>1, <1>3
      <3> QED BY <1>1, <1>3, <3>1, RecordsElse
    <2>3. NullPort'
      BY <1>3 DEF NullPort, CxMConf, SelectInSeq, Ours, confVars
    <2> QED BY <1>3, <2>1, <2>2, <2>3
  <1>4. CASE ReadConf
    <2>1. ConfInv'
      BY <1>4, ParseLineKeeps DEF ReadConf
    <2>2. ThrottleInv' /\ Resting' /\ UNCHANGED daemon /\ now' = now
      BY <1>4, ThrottleElse DEF ReadConf, throttleVars, daemon, Resting
    <2>3. Records'
      BY <1>1, <2>2, RecordsElse DEF daemon
    <2>4. NullPort'
      BY <1>4, <2>2 DEF ReadConf, Runs, NullPort, daemon
    <2> QED BY <2>1, <2>2, <2>3, <2>4
  <1>5. CASE ConfRead
    <2>1. ThrottleInv' /\ Resting' /\ now' = now
      BY <1>5, ThrottleElse DEF ConfRead, throttleVars, Resting
    <2> QED BY <1>3, <1>5, <2>1 DEF ConfRead
  <1>6. CASE InitNetwork
    <2>1. /\ ThrottleInv' /\ ConfInv' /\ Resting' /\ now' = now
          /\ conf' = conf
      BY <1>6, ThrottleElse, ConfStutter
         DEF InitNetwork, throttleVars, confVars, Resting
    <2>2. /\ UNCHANGED <<sock, peer, slow, appdata, records, freed, lastrun>>
          /\ pc' \in {"conf", "net", "top", "sweep", "events"}
          /\ host' \in {"none", "any", "loopback"}
          /\ fault' \in {"none", "nullPort", "freedRecord"}
          /\ fault' = "nullPort" => CxMConf(Listen, Port) = 0
      BY <1>1, <1>6 DEF InitNetwork, Runs
    <2>3. Records'
      BY <1>1, <2>1, <2>2, RecordsElse
    <2>4. NullPort'
      BY <2>1, <2>2 DEF NullPort, CxMConf, SelectInSeq, Ours
    <2> QED BY <2>1, <2>3, <2>4
  <1>7. CASE Sweep
    <2>1. ThrottleInv' /\ Resting' /\ now' = now
      <3>1. walk = 0
        BY <1>7 DEF Sweep, Resting
      <3>2. CASE StartExpire /\ pc' = "sweep"
        BY <3>1, <3>2, StartKeeps DEF StartExpire, Resting
      <3>3. CASE UNCHANGED throttleVars
        BY <3>1, <3>3, ThrottleElse DEF throttleVars, Resting
      <3> QED BY <1>7, <3>2, <3>3 DEF Sweep
    <2> QED BY <1>3, <1>7, <2>1 DEF Sweep
  <1>8. CASE SweepStep
    <2>1. ThrottleInv' /\ now' = now
      BY <1>8, ExpireStepKeeps DEF SweepStep, ExpireStep
    <2>2. pc = "sweep" /\ UNCHANGED <<confVars, daemon>>
      BY <1>8 DEF SweepStep
    <2> QED BY <1>2, <2>1, <2>2
  <1>9. CASE Swept
    <2>1. ThrottleInv' /\ Resting' /\ now' = now
      BY <1>9, ThrottleElse DEF Swept, throttleVars, Resting
    <2> QED BY <1>3, <1>9, <2>1 DEF Swept
  <1>10. CASE EventsDone
    <2>1. ThrottleInv' /\ Resting' /\ now' = now
      BY <1>10, ThrottleElse DEF EventsDone, throttleVars, Resting
    <2> QED BY <1>3, <1>10, <2>1 DEF EventsDone
  <1>11. ASSUME NEW m \in Socks, Offend(m)
         PROVE  IInv'
    <2>1. peer[m] \in Addrs
      BY <1>1
    <2>2. ThrottleInv' /\ now' = now /\ walk' = walk
      BY <1>11, <2>1, SetBadKeeps DEF Offend, SetBad, Resting
    <2> QED BY <1>2, <1>11, <2>2 DEF Offend
  <1>12. ASSUME NEW m \in Socks, SockErr(m)
         PROVE  IInv'
    <2>1. /\ ThrottleInv' /\ ConfInv' /\ Resting' /\ now' = now
          /\ conf' = conf
      BY <1>12, ThrottleElse, ConfStutter
         DEF SockErr, throttleVars, confVars, Resting
    <2>2. /\ sock[m] = "open"
          /\ sock' = [sock EXCEPT ![m] = "free"]
          /\ appdata' = [appdata EXCEPT ![m] = 0]
          /\ slow' = slow \ {m}
          /\ UNCHANGED <<pc, host, peer, records, freed, lastrun, fault>>
      BY <1>12 DEF SockErr
    <2>3. Records'
      <3>1. /\ sock' \in [Socks -> {"free", "spare", "open"}]
            /\ appdata' \in [Socks -> Nat] /\ appdata'[m] = 0
            /\ \A o \in Socks \ {m} : appdata'[o] = appdata[o] /\ sock'[o] = sock[o]
        BY <2>2 DEF Records
      <3>2. \A o \in Socks :
              appdata'[o] # 0 =>
                /\ sock'[o] = "open" /\ appdata'[o] \in 1 .. Len(records)
                /\ appdata'[o] \notin freed
        BY <3>1 DEF Records
      <3>3. \A o, p \in Socks : appdata'[o] # 0 /\ appdata'[o] = appdata'[p] => o = p
        BY <3>1 DEF Records
      <3>4. ASSUME NEW i \in 1 .. Len(records), i \notin freed
            PROVE  sock'[records[i]] = "spare"
        <4>1. records[i] \in Socks
          BY ElementOfSeq DEF Records
        <4>2. sock[records[i]] = "spare"
          BY <3>4 DEF Records
        <4> QED BY <2>2, <3>1, <4>1, <4>2
      <3> QED BY <1>1, <2>1, <2>2, <3>1, <3>2, <3>3, <3>4 DEF Records
    <2>4. NullPort'
      BY <2>1, <2>2 DEF NullPort, CxMConf, SelectInSeq, Ours
    <2> QED BY <2>1, <2>3, <2>4
  <1>13. ASSUME NEW m \in Socks, NEW a \in Addrs, Accept(m, a)
         PROVE  IInv'
    BY <1>13, AcceptKeeps
  <1>14. CASE Time
    <2>1. ThrottleInv' /\ now' = now + 1 /\ walk' = walk
      BY <1>14, ThrottleElse DEF Time, Tick
    <2> QED BY <1>2, <1>14, <2>1 DEF Time
  <1>15. CASE UNCHANGED vars
    <2>1. ThrottleInv' /\ now' = now /\ walk' = walk
      BY <1>15, ThrottleElse DEF vars, throttleVars
    <2> QED BY <1>2, <1>15, <2>1 DEF vars
  <1> QED BY <1>4, <1>5, <1>6, <1>7, <1>8, <1>9, <1>10, <1>11, <1>12, <1>13,
             <1>14, <1>15
      DEF Next, Turn, Event

-----------------------------------------------------------------------------
(* Theorems *)

\* Every reachable state of the program, for every file, throttle and number
\* of sockets, satisfies the invariant.
THEOREM InvCorrect == Spec => []IInv
  BY InvInit, InvNext, PTL DEF Spec

\* The state of configuration, throttle and program has its types.
THEOREM TypeCorrect == Spec => []TypeOK
  <1>1. IInv => TypeOK
    <2> SUFFICES ASSUME IInv PROVE TypeOK
      OBVIOUS
    <2>1. ThrottleTypeOK /\ ConfTypeOK
      BY ConfTypeCorrect DEF IInv, ThrottleInv
    <2>2. DOMAIN records = 1 .. Len(records) /\ Len(records) \in Nat
      BY LenProperties DEF IInv, Records
    <2>3. ASSUME NEW m \in Socks PROVE appdata[m] \in 0 .. MaxRecords
      <3>1. /\ appdata[m] = 0 \/ appdata[m] \in 1 .. Len(records)
            /\ Len(records) <= MaxRecords
        BY DEF IInv, Records
      <3> QED BY <2>2, <3>1, RecordsBound
    <2>4. appdata \in [Socks -> 0 .. MaxRecords]
      BY <2>3 DEF IInv, Records
    <2> QED BY <2>1, <2>2, <2>4 DEF IInv, Records, TypeOK
  <1> QED BY <1>1, InvCorrect, PTL

\* A look-up of the configuration that finds a value finds the first that the
\* file gave: duplicates, which _hdlr_config() may store, never hide it.
THEOREM FirstValueCorrect == Spec => []FirstValueFound
  <1>1. IInv => FirstValueFound
    BY ConfFirst DEF IInv
  <1> QED BY <1>1, InvCorrect, PTL

\* Every connection with appdata has a record of its own that was not freed,
\* and no record names a socket that was.
THEOREM RecordsCorrect == Spec => []RecordsSound
  <1>1. IInv => RecordsSound
    <2> SUFFICES ASSUME IInv PROVE RecordsSound
      OBVIOUS
    <2>1. DOMAIN records = 1 .. Len(records)
      BY LenProperties DEF IInv, Records
    <2> QED BY <2>1 DEF IInv, Records, RecordsSound
  <1> QED BY <1>1, InvCorrect, PTL

\* A file that gives a port, and behind it a name for the first time, starts
\* the listener without the null pointer.
THEOREM PortCorrect == Spec => []PortFound
  <1>1. IInv => PortFound
    <2> SUFFICES ASSUME IInv PROVE PortFound
      OBVIOUS
    <2>1. DOMAIN given = 1 .. Len(given)
      BY LenProperties DEF IInv, ConfInv, ConfTypes
    <2>2. PortGiven => fault # "nullPort"
      BY PortLooked DEF IInv, NullPort
    <2> QED BY <2>1, <2>2 DEF PortFound, PortGiven
  <1> QED BY <1>1, InvCorrect, PTL

\* Only lms_conn_accept() connects a socket.
LEMMA OnlyAccept ==
  ASSUME IInv, Next, NEW m \in Socks, Accepted(m)
  PROVE  \E a \in Addrs : Accept(m, a)
  <1>1. ASSUME NEW o \in Socks, NEW a \in Addrs, Accept(o, a)
        PROVE  m = o
    BY <1>1, AcceptKeeps DEF Accepted
  <1>2. ASSUME NEW o \in Socks, SockErr(o)
        PROVE  FALSE
    <2>1. sock' = [sock EXCEPT ![o] = "free"]
      BY <1>2 DEF SockErr
    <2>2. sock \in [Socks -> {"free", "spare", "open"}]
      BY DEF IInv, Records
    <2> QED BY <2>1, <2>2 DEF Accepted
  <1>3. ASSUME sock' = sock
        PROVE  FALSE
    BY <1>3 DEF Accepted
  <1>4. \/ sock' = sock
        \/ \E o \in Socks : SockErr(o) \/ \E a \in Addrs : Accept(o, a)
    BY DEF Next, Turn, Event, ReadConf, ConfRead, InitNetwork, Sweep,
           SweepStep, Swept, EventsDone, Time, Offend, daemon
  <1> QED BY <1>1, <1>2, <1>3, <1>4

\* A connection from an address whose last After offenses followed each other
\* within Expire seconds, the last of them not longer ago, is slowed down.
THEOREM SlowedCorrect == Spec => OffendersSlowed
  <1>1. IInv /\ [Next]_vars =>
          [\A m \in Socks : Accepted(m) /\ Persistent(peer'[m]) => m \in slow']_vars
    <2> SUFFICES ASSUME IInv, Next, NEW m \in Socks, Accepted(m),
                        Persistent(peer'[m])
                 PROVE  m \in slow'
      OBVIOUS
    <2>1. PICK a \in Addrs : Accept(m, a)
      BY OnlyAccept
    <2> QED BY <2>1, AcceptKeeps
  <1> QED BY <1>1, InvCorrect, PTL DEF Spec, OffendersSlowed

\* A connection is slowed down only if its address offended After times since
\* an expiry last found it quiet.
THEOREM ForgottenCorrect == Spec => QuietForgotten
  <1>1. IInv /\ [Next]_vars =>
          [\A m \in Socks :
             Accepted(m) /\ m \in slow' => Len(bad[peer'[m]]) >= After]_vars
    <2> SUFFICES ASSUME IInv, Next, NEW m \in Socks, Accepted(m), m \in slow'
                 PROVE  Len(bad[peer'[m]]) >= After
      OBVIOUS
    <2>1. PICK a \in Addrs : Accept(m, a)
      BY OnlyAccept
    <2> QED BY <2>1, AcceptKeeps
  <1> QED BY <1>1, InvCorrect, PTL DEF Spec, QuietForgotten
=============================================================================
