---------------------------- MODULE Parts_proofs ----------------------------
(***************************************************************************)
(* Theorems about the components of MCParts side by side: each step is a   *)
(* step of one of them, and leaves the others' invariants alone; and about *)
(* the calculations, the spelling of keys among them.                      *)
(***************************************************************************)
EXTENDS MCParts, Control_proofs, Drag_proofs, Store_proofs, Screen_proofs

PartsInv ==
  /\ DragTypeOK /\ StoreInv /\ KeeperInv /\ StripInv /\ PostsInv
  /\ MenuInv /\ MenuRest /\ ProcessInv /\ GrabTypes /\ KeyInv

LEMMA PartsInvInit == PartsInit => PartsInv
  BY DragTypesInit, StoreInvInit, KeeperInvInit, StripInvInit, PostsInit, MenuInvInit,
     MenuRestInit, ProcessInvInit, GrabTypesInit, KeyInvInit DEF PartsInit, PartsInv

partsVars == <<part, input, dragVars, storeVars, keeperVars, stripVars, pinMenuVars,
               instanceVars, grabVars, shortcutVars>>

(* A step of all is a step, or no step, of each.                           *)
LEMMA EachSteps ==
    ASSUME [PartsNext]_partsVars
    PROVE  /\ [DragNext]_dragVars /\ [StoreNext]_storeVars /\ [KeeperNext]_keeperVars
           /\ [StripNext]_stripVars /\ [PinMenuNext]_pinMenuVars
           /\ [InstanceNext]_instanceVars /\ [GrabNext]_grabVars
           /\ [ShortcutNext]_shortcutVars
  BY DEF PartsNext, Only, partsVars

LEMMA PartsInvKept == PartsInv /\ [PartsNext]_partsVars => PartsInv'
  <1> SUFFICES ASSUME PartsInv, [PartsNext]_partsVars PROVE PartsInv'
    OBVIOUS
  <1>1. DragTypeOK' /\ GrabTypes' /\ KeyInv' /\ ProcessInv'
    BY EachSteps, DragTypesKept, GrabTypesKept, KeyInvKept, ProcessInvKept DEF PartsInv
  <1>2. StoreInv' /\ KeeperInv'
    BY EachSteps, StoreInvKept, KeeperInvKept DEF PartsInv
  <1>3. StripInv' /\ PostsInv'
    BY EachSteps, StripInvKept, PostsKept DEF PartsInv
  <1>4. MenuInv' /\ MenuRest'
    BY EachSteps, MenuInvKept, MenuRestKept DEF PartsInv
  <1> QED
    BY <1>1, <1>2, <1>3, <1>4 DEF PartsInv

(* Every variable of the components keeps its type, for any windows,       *)
(* settings, copies, strips, processes, groups and shortcuts.  A press     *)
(* drags only a window that is there (TargetWindowAt); no command is       *)
(* posted while another waits (MenuHostProc); the mutex is held and probed *)
(* by living processes only (StopRunningInstances terminates its holders). *)
THEOREM PartsTyping == PartsSpec => []PartsTypeOK
  <1>1. PartsInv => PartsTypeOK
    BY KeeperInvTypes, PostsTypes, MenuRestTypes, ProcessInvTypes, GrabTypesAre
    DEF PartsInv, StoreInv, KeyInv, PartsTypeOK
  <1> QED
    BY PartsInvInit, PartsInvKept, <1>1, PTL DEF PartsSpec, partsVars

-----------------------------------------------------------------------------
(* The spelling of keys.                                                   *)

NamedCodes == {8, 9, 13, 19, 27} \cup 32..40 \cup {45, 46}
OwnNames == {"LALT", "RALT", "LWIN", "RWIN", "LCTRL", "RCTRL", "LSHIFT", "RSHIFT"}
OwnCodes == {91, 92} \cup 160..165

(* The tables: no name twice, and none that is a modifier's or a key's in  *)
(* another of them.                                                        *)
LEMMA NamedRows ==
    /\ DOMAIN NamedKeys = 1..23
    /\ \A i, j \in 1..23 : NamedKeys[i][1] = NamedKeys[j][1] => i = j
    /\ \A i \in 1..23 : /\ NamedKeys[i][2] \in NamedCodes
                        /\ NamedKeys[i][1] \notin OwnNames
                        /\ ModifierFromToken(Word(NamedKeys[i][1])) = {}
  <1>1. DOMAIN NamedKeys = 1..23
    BY DEF NamedKeys
  <1>2. \A i, j \in 1..23 : NamedKeys[i][1] = NamedKeys[j][1] => i = j
    BY DEF NamedKeys
  <1>3. \A i \in 1..23 : NamedKeys[i][2] \in NamedCodes
    BY DEF NamedKeys, NamedCodes
  <1>4. \A i \in 1..23 : NamedKeys[i][1] \notin OwnNames
    BY DEF NamedKeys, OwnNames
  <1>5. \A i \in 1..23 : ModifierFromToken(Word(NamedKeys[i][1])) = {}
    BY DEF NamedKeys, ModifierFromToken, Word, Modifiers, ModifierAliases
  <1> QED
    BY <1>1, <1>2, <1>3, <1>4, <1>5

OwnTable == Presets \o ExtraNames

LEMMA OwnRows ==
    /\ DOMAIN OwnTable = 1..8
    /\ \A i, j \in 1..8 : OwnTable[i][1] = OwnTable[j][1] => i = j
    /\ \A i \in 1..8 : OwnTable[i][2] \in OwnCodes /\ OwnTable[i][1] \in OwnNames
  <1> USE DEF OwnTable, Presets, ExtraNames
  <1>1. DOMAIN OwnTable = 1..8
    OBVIOUS
  <1>2. \A i, j \in 1..8 : OwnTable[i][1] = OwnTable[j][1] => i = j
    OBVIOUS
  <1>3. \A i \in 1..8 : OwnTable[i][2] \in OwnCodes
    BY DEF OwnCodes
  <1>4. \A i \in 1..8 : OwnTable[i][1] \in OwnNames
    BY DEF OwnNames
  <1> QED
    BY <1>1, <1>2, <1>3, <1>4

(* The first name of a code in a table without doubles stands for it.      *)
LEMMA NameBack ==
    ASSUME NEW table, NEW n \in Nat, DOMAIN table = 1..n,
           \A i, j \in 1..n : table[i][1] = table[j][1] => i = j,
           NEW vk
    PROVE  \/ NameOf(table, vk) = <<>> /\ \A i \in 1..n : table[i][2] # vk
           \/ \E i \in 1..n : /\ NameOf(table, vk) = <<Word(table[i][1])>>
                              /\ Named(table, table[i][1]) = {vk}
  <1> DEFINE rows == {i \in 1..n : table[i][2] = vk}
             first == CHOOSE i \in rows : \A j \in rows : i <= j
  <1>1. NameOf(table, vk) = IF rows = {} THEN <<>> ELSE <<Word(table[first][1])>>
    BY DEF NameOf
  <1>2. CASE rows = {}
    BY <1>1, <1>2
  <1>3. CASE rows # {}
    <2>1. rows \in SUBSET Nat
      OBVIOUS
    <2>2. first \in rows
      <3> HIDE DEF rows
      <3> QED
        BY <1>3, <2>1, FirstPosition
    <2>3. first \in 1..n /\ table[first][2] = vk
      <3> HIDE DEF first
      <3> QED
        BY <2>2
    <2>4. NameOf(table, vk) = <<Word(table[first][1])>>
      BY <1>1, <1>3
    <2> HIDE DEF first, rows
    <2>5. Named(table, table[first][1]) = {vk}
      BY <2>3 DEF Named
    <2> QED
      BY <2>3, <2>4, <2>5
  <1> QED
    BY <1>2, <1>3

(* A key that can be read has a token, and the token is read as that key.  *)
LEMMA KeyBack ==
    ASSUME NEW words, NEW t \in Token(words), KeyFromToken(t) # NoVk
    PROVE  \E u : /\ KeyToken(KeyFromToken(t)) = <<u>>
                  /\ KeyFromToken(u) = KeyFromToken(t)
                  /\ ModifierFromToken(u) = {}
                  /\ u.is = "word" => u.name \notin OwnNames
                  /\ KeyFromToken(t) \in Nat \ OwnCodes
  <1> DEFINE vk == KeyFromToken(t)
  <1> USE DEF Letters, Digits, FirstF, NoVk, OwnCodes
  <1>1. CASE t.is = "char"
    <2>1. vk \in Letters \cup Digits
      BY <1>1 DEF KeyFromToken
    <2>2. KeyToken(vk) = <<Char(vk)>>
      BY <2>1 DEF KeyToken
    <2>3. KeyFromToken(Char(vk)) = vk /\ ModifierFromToken(Char(vk)) = {} /\ Char(vk).is = "char"
      BY <2>1 DEF KeyFromToken, Char, ModifierFromToken
    <2>4. vk \in Nat \ OwnCodes
      BY <2>1
    <2> HIDE DEF vk
    <2> QED
      BY <2>2, <2>3, <2>4 DEF vk
  <1>2. CASE t.is = "f"
    <2>1. t.n \in 1..24 /\ vk = FirstF + t.n - 1
      BY <1>2 DEF KeyFromToken
    <2>2. KeyToken(vk) = <<FKey(vk - FirstF + 1)>>
      <3> HIDE DEF vk
      <3> QED
        BY <2>1 DEF KeyToken
    <2>3. vk - FirstF + 1 = t.n
      BY <2>1
    <2>4. KeyFromToken(FKey(t.n)) = vk /\ ModifierFromToken(FKey(t.n)) = {} /\ FKey(t.n).is = "f"
      <3> HIDE DEF vk
      <3> QED
        BY <2>1 DEF KeyFromToken, FKey, ModifierFromToken
    <2>5. vk \in Nat \ OwnCodes
      BY <2>1
    <2> HIDE DEF vk
    <2> QED
      BY <2>2, <2>3, <2>4, <2>5 DEF vk
  <1>3. CASE t.is = "word"
    <2>1. Named(NamedKeys, t.name) # {} /\ vk = CHOOSE k \in Named(NamedKeys, t.name) : TRUE
      BY <1>3 DEF KeyFromToken
    <2>2. PICK j \in 1..23 : vk = NamedKeys[j][2]
      BY <2>1, NamedRows DEF Named
    <2>3. vk \in NamedCodes
      BY <2>2, NamedRows
    <2>4. KeyToken(vk) = NameOf(NamedKeys, vk)
      <3> HIDE DEF vk
      <3> QED
        BY <2>3 DEF KeyToken, NamedCodes
    <2>5. PICK i \in 1..23 : /\ NameOf(NamedKeys, vk) = <<Word(NamedKeys[i][1])>>
                             /\ Named(NamedKeys, NamedKeys[i][1]) = {vk}
      <3> HIDE DEF vk
      <3> QED
        BY <2>2, NamedRows, NameBack
    <2>6. KeyFromToken(Word(NamedKeys[i][1])) = vk
      <3> HIDE DEF vk
      <3> QED
        BY <2>5 DEF KeyFromToken, Word
    <2>7. vk \in Nat \ OwnCodes
      <3> HIDE DEF vk
      <3> QED
        BY <2>3 DEF NamedCodes
    <2>8. Word(NamedKeys[i][1]).name = NamedKeys[i][1]
      BY DEF Word
    <2> HIDE DEF vk
    <2> QED
      BY <2>4, <2>5, <2>6, <2>7, <2>8, NamedRows DEF vk
  <1> QED
    BY <1>1, <1>2, <1>3 DEF Token

(* The same of the keys of the gesture, which have names of their own.     *)
LEMMA DragKeyBack ==
    ASSUME NEW words, NEW t \in Token(words), LookupOne(t) # NoVk
    PROVE  \E u : /\ DragToken(LookupOne(t)) = <<u>>
                  /\ LookupOne(u) = LookupOne(t)
                  /\ LookupOne(t) \in Nat
  <1> DEFINE vk == LookupOne(t)
             mine == IF t.is = "word" THEN Named(OwnTable, t.name) ELSE {}
  <1>1. vk = IF mine = {} THEN KeyFromToken(t) ELSE CHOOSE k \in mine : TRUE
    BY DEF LookupOne, OwnTable
  <1>2. CASE mine # {}
    <2>1. PICK j \in 1..8 : vk = OwnTable[j][2]
      BY <1>1, <1>2, OwnRows DEF Named
    <2>2. PICK i \in 1..8 : /\ NameOf(OwnTable, vk) = <<Word(OwnTable[i][1])>>
                            /\ Named(OwnTable, OwnTable[i][1]) = {vk}
      <3> HIDE DEF vk
      <3> QED
        BY <2>1, OwnRows, NameBack
    <2> HIDE DEF vk
    <2>3. DragToken(vk) = <<Word(OwnTable[i][1])>>
      BY <2>2 DEF DragToken, OwnTable
    <2>4. LookupOne(Word(OwnTable[i][1])) = vk
      BY <2>2 DEF LookupOne, Word, OwnTable
    <2>5. vk \in Nat
      BY <2>1, OwnRows DEF OwnCodes
    <2> QED
      BY <2>3, <2>4, <2>5 DEF vk
  <1>3. CASE mine = {}
    <2>1. vk = KeyFromToken(t)
      BY <1>1, <1>3
    <2> HIDE DEF vk
    <2>2. KeyFromToken(t) # NoVk
      BY <2>1 DEF vk
    <2>3. PICK u : /\ KeyToken(vk) = <<u>> /\ KeyFromToken(u) = vk
                   /\ u.is = "word" => u.name \notin OwnNames
                   /\ vk \in Nat \ OwnCodes
      BY <2>1, <2>2, KeyBack
    <2>4. NameOf(OwnTable, vk) = <<>>
      BY <2>3, OwnRows DEF NameOf
    <2>5. DragToken(vk) = <<u>>
      BY <2>3, <2>4 DEF DragToken, OwnTable
    <2>6. u.is = "word" => Named(OwnTable, u.name) = {}
      BY <2>3, OwnRows DEF Named
    <2>7. LookupOne(u) = vk
      BY <2>3, <2>6 DEF LookupOne, OwnTable
    <2> QED
      BY <2>3, <2>5, <2>7 DEF vk
  <1> QED
    BY <1>2, <1>3

-----------------------------------------------------------------------------
(* Any finite set of keys can be put in the canonical order ...            *)
LEMMA OrderOfType == \A vk : OrderOf(vk) \in Nat
  <1> SUFFICES ASSUME NEW vk PROVE OrderOf(vk) \in Nat
    OBVIOUS
  <1> DEFINE at == {i \in DOMAIN Presets : Presets[i][2] = vk}
  <1>1. DOMAIN Presets = 1..6 /\ Len(Presets) = 6
    BY DEF Presets
  <1>2. OrderOf(vk) = IF at = {} THEN 7 ELSE CHOOSE i \in at : TRUE
    BY <1>1 DEF OrderOf
  <1>3. at \subseteq 1..6
    BY <1>1
  <1> HIDE DEF at
  <1>4. CASE at # {}
    <2> DEFINE found == CHOOSE i \in at : TRUE
    <2>1. found \in at
      BY <1>4
    <2>2. OrderOf(vk) = found
      BY <1>2, <1>4
    <2> HIDE DEF found
    <2> QED
      BY <1>3, <2>1, <2>2
  <1> QED
    BY <1>2, <1>4

LEMMA FirstKey ==
    ASSUME NEW keys \in SUBSET Nat, keys # {}
    PROVE  \E k \in keys : \A j \in keys \ {k} : Precedes(k, j)
  <1> DEFINE orders == {OrderOf(k) : k \in keys}
             o == CHOOSE i \in orders : \A j \in orders : i <= j
             best == {k \in keys : OrderOf(k) = o}
             k == CHOOSE i \in best : \A j \in best : i <= j
  <1>1. orders \in SUBSET Nat /\ orders # {}
    BY OrderOfType
  <1>2. o \in orders /\ \A j \in orders : o <= j
    <2> HIDE DEF orders
    <2> QED
      BY <1>1, LeastPosition
  <1>3. best \in SUBSET Nat /\ best # {}
    <2> HIDE DEF o
    <2> QED
      BY <1>2
  <1>4. k \in best /\ \A j \in best : k <= j
    <2> HIDE DEF best
    <2> QED
      BY <1>3, LeastPosition
  <1>5. ASSUME NEW j \in keys \ {k}
        PROVE  Precedes(k, j)
    <2>1. k \in keys /\ OrderOf(k) = o
      <3> HIDE DEF k, o
      <3> QED
        BY <1>4
    <2>2. o <= OrderOf(j) /\ o \in Nat /\ OrderOf(j) \in Nat
      <3>1. OrderOf(j) \in orders
        BY <1>5
      <3> HIDE DEF o, orders
      <3> QED
        BY <1>1, <1>2, <3>1
    <2>3. OrderOf(j) = o => k <= j
      <3>1. OrderOf(j) = o => j \in best
        BY <1>5
      <3> HIDE DEF best, k
      <3> QED
        BY <1>4, <3>1
    <2>4. k \in Nat /\ j \in Nat /\ j # k
      <3> HIDE DEF k
      <3> QED
        BY <1>5, <2>1
    <2> HIDE DEF k, o
    <2> QED
      BY <2>1, <2>2, <2>3, <2>4 DEF Precedes
  <1>6. k \in keys
    <2> HIDE DEF k
    <2> QED
      BY <1>4
  <1> HIDE DEF k
  <1> QED
    BY <1>5, <1>6

InOrder(sorted, n) == \A i, j \in 1..n : i < j => Precedes(sorted[i], sorted[j])

LEMMA CanBeSorted ==
    ASSUME NEW keys \in SUBSET Nat, IsFiniteSet(keys)
    PROVE  \E sorted \in [1..Cardinality(keys) -> keys] : InOrder(sorted, Cardinality(keys))
  <1> DEFINE Sortable(K, n) == \E sorted \in [1..n -> K] : InOrder(sorted, n)
             good == {n \in Nat : \A K \in SUBSET Nat :
                                    IsFiniteSet(K) /\ Cardinality(K) = n => Sortable(K, n)}
  <1>1. 0 \in good
    <2>1. ASSUME NEW K \in SUBSET Nat PROVE Sortable(K, 0)
      <3> DEFINE sorted == [i \in 1..0 |-> 0]
      <3>1. sorted \in [1..0 -> K] /\ InOrder(sorted, 0)
        BY DEF InOrder
      <3> QED
        BY <3>1
    <2> QED
      BY <2>1
  <1>2. ASSUME NEW n \in good PROVE n + 1 \in good
    <2>1. n \in Nat /\ \A K \in SUBSET Nat : IsFiniteSet(K) /\ Cardinality(K) = n => Sortable(K, n)
      BY <1>2
    <2>2. ASSUME NEW K \in SUBSET Nat, IsFiniteSet(K), Cardinality(K) = n + 1
          PROVE  Sortable(K, n + 1)
      <3>1. K # {}
        BY <2>1, <2>2, FS_EmptySet
      <3>2. PICK k \in K : \A j \in K \ {k} : Precedes(k, j)
        BY <3>1, FirstKey
      <3>3. IsFiniteSet(K \ {k}) /\ Cardinality(K \ {k}) = n
        BY <2>1, <2>2, <3>2, FS_RemoveElement
      <3>4. Sortable(K \ {k}, n)
        <4> HIDE DEF Sortable
        <4> QED
          BY <2>1, <3>3
      <3>5. PICK rest \in [1..n -> K \ {k}] : InOrder(rest, n)
        BY <3>4
      <3> DEFINE sorted == [i \in 1..(n + 1) |-> IF i = 1 THEN k ELSE rest[i - 1]]
      <3>6. \A i \in 2..(n + 1) : i - 1 \in 1..n /\ sorted[i] = rest[i - 1] /\ sorted[i] \in K \ {k}
        BY <2>1, <3>5
      <3>7. 1 \in 1..(n + 1) /\ sorted[1] = k
        BY <2>1
      <3>8. sorted \in [1..(n + 1) -> K]
        BY <2>1, <3>2, <3>5
      <3> HIDE DEF sorted
      <3>9. ASSUME NEW i \in 1..(n + 1), NEW j \in 1..(n + 1), i < j
            PROVE  Precedes(sorted[i], sorted[j])
        <4>1. j \in 2..(n + 1)
          BY <2>1, <3>9
        <4>2. CASE i = 1
          BY <3>2, <3>6, <3>7, <4>1, <4>2
        <4>3. CASE i # 1
          <5>1. i \in 2..(n + 1) /\ i - 1 < j - 1
            BY <2>1, <3>9, <4>3
          <5>2. i - 1 \in 1..n /\ j - 1 \in 1..n /\ sorted[i] = rest[i - 1] /\ sorted[j] = rest[j - 1]
            BY <3>6, <4>1, <5>1
          <5> QED
            BY <3>5, <5>1, <5>2 DEF InOrder
        <4> QED
          BY <4>2, <4>3
      <3>10. InOrder(sorted, n + 1)
        BY <3>9 DEF InOrder
      <3> QED
        BY <3>8, <3>10
    <2> HIDE DEF Sortable
    <2> QED
      BY <2>1, <2>2
  <1>3. good = Nat
    <2> HIDE DEF good
    <2>1. good \in SUBSET Nat
      BY DEF good
    <2> QED
      BY <1>1, <1>2, <2>1, UpFromZero
  <1> HIDE DEF Sortable
  <1>4. Cardinality(keys) \in good
    BY <1>3, FS_CardinalityType
  <1> QED
    BY <1>4 DEF Sortable

(* ... and then has every key once.                                        *)
LEMMA SortedAll ==
    ASSUME NEW keys \in SUBSET Nat, IsFiniteSet(keys)
    PROVE  /\ Cardinality(keys) \in Nat
           /\ SortCanonical(keys) \in [1..Cardinality(keys) -> keys]
           /\ \A k \in keys : \E i \in 1..Cardinality(keys) : SortCanonical(keys)[i] = k
  <1> DEFINE n == Cardinality(keys)
             sorted == SortCanonical(keys)
  <1>1. n \in Nat
    BY FS_CardinalityType
  <1>2. sorted \in [1..n -> keys] /\ InOrder(sorted, n)
    <2>1. \E s \in [1..n -> keys] : InOrder(s, n)
      BY CanBeSorted
    <2>2. \A s \in [1..n -> keys] : (\A i, j \in DOMAIN s : i < j => Precedes(s[i], s[j])) <=> InOrder(s, n)
      BY DEF InOrder
    <2>3. sorted = CHOOSE s \in [1..n -> keys] : \A i, j \in DOMAIN s : i < j => Precedes(s[i], s[j])
      BY DEF SortCanonical
    <2> HIDE DEF sorted, n
    <2> QED
      BY <2>1, <2>2, <2>3
  <1>3. \A a \in keys : ~Precedes(a, a)
    BY OrderOfType DEF Precedes
  <1> HIDE DEF sorted, n
  <1>4. \A i, j \in 1..n : sorted[i] = sorted[j] => i = j
    <2> SUFFICES ASSUME NEW i \in 1..n, NEW j \in 1..n, sorted[i] = sorted[j], i # j PROVE FALSE
      OBVIOUS
    <2>1. i < j \/ j < i
      BY <1>1
    <2>2. sorted[i] \in keys
      BY <1>2
    <2> QED
      BY <1>2, <1>3, <2>1, <2>2 DEF InOrder
  <1>5. sorted \in Injection(1..n, keys)
    BY <1>2, <1>4 DEF Injection, IsInjective
  <1>6. IsFiniteSet(1..n) /\ Cardinality(1..n) = n
    BY <1>1, FS_Interval
  <1>7. sorted \in Surjection(1..n, keys)
    BY <1>5, <1>6, FS_Injection DEF n
  <1>8. \A k \in keys : \E i \in 1..n : sorted[i] = k
    BY <1>7 DEF Surjection
  <1> QED
    BY <1>1, <1>2, <1>8 DEF sorted, n

LEMMA OneMore ==
    ASSUME NEW S, NEW s \in Seq(S), NEW e \in S, NEW last, last = <<e>>
    PROVE  /\ Len(s) \in Nat /\ s \o last \in Seq(S) /\ Len(s \o last) = Len(s) + 1
           /\ (s \o last)[Len(s) + 1] = e
           /\ \A j \in 1..Len(s) : (s \o last)[j] = s[j]
  <1>1. last \in Seq(S) /\ Len(last) = 1 /\ last[1] = e
    OBVIOUS
  <1>2. /\ s \o last \in Seq(S)
        /\ Len(s \o last) = Len(s) + 1
        /\ \A j \in 1..(Len(s) + 1) : (s \o last)[j] = IF j <= Len(s) THEN s[j] ELSE last[j - Len(s)]
    BY <1>1
  <1>3. Len(s) \in Nat
    OBVIOUS
  <1>4. \A j \in 1..Len(s) : j \in 1..(Len(s) + 1) /\ j <= Len(s)
    OBVIOUS
  <1>5. \A j \in 1..Len(s) : (s \o last)[j] = s[j]
    BY <1>2, <1>4
  <1>6. (s \o last)[Len(s) + 1] = e
    <2>1. Len(s) + 1 \in 1..(Len(s) + 1) /\ ~(Len(s) + 1 <= Len(s)) /\ (Len(s) + 1) - Len(s) = 1
      BY <1>3
    <2>2. (s \o last)[Len(s) + 1] = last[(Len(s) + 1) - Len(s)]
      BY <1>2, <2>1
    <2> QED
      BY <1>1, <2>1, <2>2
  <1> QED
    BY <1>2, <1>3, <1>5, <1>6

LEMMA PrefixGrows ==
    ASSUME NEW T, NEW n \in Nat, NEW token \in [1..n -> T], NEW i \in 1..n
    PROVE  [j \in 1..(i - 1) |-> token[j]] \o <<token[i]>> = [j \in 1..i |-> token[j]]
  <1> DEFINE sofar == [j \in 1..(i - 1) |-> token[j]]
             here == token[i]
             last == <<here>>
             both == sofar \o last
  <1>1. i \in Nat /\ i - 1 \in Nat /\ i <= n
    OBVIOUS
  <1>2. \A j \in 1..(i - 1) : j \in 1..n /\ sofar[j] = token[j]
    BY <1>1
  <1>3. sofar \in Seq(T) /\ Len(sofar) = i - 1
    BY <1>1, <1>2
  <1>4. here \in T /\ last = <<here>>
    OBVIOUS
  <1> HIDE DEF sofar, here, last
  <1>5. /\ Len(sofar) \in Nat /\ both \in Seq(T) /\ Len(both) = Len(sofar) + 1
        /\ both[Len(sofar) + 1] = here /\ \A j \in 1..Len(sofar) : both[j] = sofar[j]
    <2>1. sofar \in Seq(T)
      BY <1>3
    <2>2. here \in T
      BY <1>4
    <2>3. last = <<here>>
      BY <1>4
    <2> QED
      BY <2>1, <2>2, <2>3, OneMore
  <1> HIDE DEF both
  <1>6. \A j \in 1..i : j = i \/ j \in 1..(i - 1)
    BY <1>1
  <1>7. \A j \in 1..i : both[j] = token[j]
    BY <1>1, <1>2, <1>3, <1>5, <1>6 DEF here
  <1>8. both = [j \in 1..i |-> both[j]]
    BY <1>1, <1>3, <1>5
  <1>9. both = [j \in 1..i |-> token[j]]
    BY <1>7, <1>8
  <1> QED
    BY <1>9 DEF both, sofar, last, here

(* Where every key has one token, the text has the tokens of the keys.     *)
LEMMA FormatSpelled ==
    ASSUME NEW n \in Nat, NEW keys \in [1..n -> Nat], NEW T, NEW token \in [1..n -> T],
           \A i \in 1..n : DragToken(keys[i]) = <<token[i]>>
    PROVE  FormatDragModifiers(keys) = token
  <1> DEFINE Step(out, i) == IF i = 0 THEN <<>> ELSE out[i - 1] \o DragToken(keys[i])
             g == [i \in 0..n |-> [j \in 1..i |-> token[j]]]
             it == CHOOSE out : out = [i \in 0..n |-> Step(out, i)]
  <1>1. Len(keys) = n
    OBVIOUS
  <1>2. FormatDragModifiers(keys) = it[n]
    BY <1>1 DEF FormatDragModifiers
  <1>3. ASSUME NEW i \in 1..n
        PROVE  g[i] = g[i - 1] \o DragToken(keys[i])
    <2>1. /\ i - 1 \in 0..n /\ i \in 0..n
          /\ g[i - 1] = [j \in 1..(i - 1) |-> token[j]]
          /\ g[i] = [j \in 1..i |-> token[j]]
      OBVIOUS
    <2>2. [j \in 1..(i - 1) |-> token[j]] \o <<token[i]>> = [j \in 1..i |-> token[j]]
      BY PrefixGrows
    <2> HIDE DEF g
    <2> QED
      BY <2>1, <2>2
  <1>4. g = [i \in 0..n |-> Step(g, i)]
    <2>1. g[0] = <<>>
      OBVIOUS
    <2>2. \A i \in 0..n : g[i] = Step(g, i)
      <3> SUFFICES ASSUME NEW i \in 0..n PROVE g[i] = Step(g, i)
        OBVIOUS
      <3> HIDE DEF g
      <3>1. CASE i = 0
        BY <2>1, <3>1
      <3>2. CASE i # 0
        <4>1. i \in 1..n
          BY <3>2
        <4> QED
          BY <1>3, <3>2, <4>1
      <3> QED
        BY <3>1, <3>2
    <2>3. g = [i \in 0..n |-> g[i]]
      OBVIOUS
    <2> HIDE DEF g, Step
    <2> QED
      BY <2>2, <2>3
  <1>5. it = [i \in 0..n |-> Step(it, i)]
    <2> HIDE DEF g, Step
    <2> QED
      BY <1>4
  <1> DEFINE good == {m \in Nat : m <= n => it[m] = g[m]}
  <1>6. good = Nat
    <2>1. 0 \in good
      <3>1. it[0] = <<>>
        <4> HIDE DEF it
        <4> QED
          BY <1>5
      <3> HIDE DEF it
      <3> QED
        BY <3>1
    <2>2. ASSUME NEW m \in good PROVE m + 1 \in good
      <3>1. m + 1 \in Nat /\ m \in Nat
        BY <2>2
      <3>2. CASE m + 1 <= n
        <4>1. it[m] = g[m] /\ m + 1 \in 1..n /\ (m + 1) - 1 = m
          BY <2>2, <3>1, <3>2
        <4>2. it[m + 1] = it[m] \o DragToken(keys[m + 1])
          <5>1. m + 1 \in 0..n /\ m + 1 # 0
            BY <3>1, <4>1
          <5> HIDE DEF it, g, Step
          <5>2. it[m + 1] = Step(it, m + 1)
            BY <1>5, <5>1
          <5>3. Step(it, m + 1) = it[(m + 1) - 1] \o DragToken(keys[m + 1])
            BY <5>1 DEF Step
          <5> QED
            BY <4>1, <5>2, <5>3
        <4>3. g[m + 1] = g[m] \o DragToken(keys[m + 1])
          BY <1>3, <4>1
        <4> HIDE DEF it, g
        <4> QED
          BY <3>1, <4>1, <4>2, <4>3
      <3> QED
        BY <3>1, <3>2
    <2> HIDE DEF it, g
    <2>3. good \in SUBSET Nat
      OBVIOUS
    <2> HIDE DEF good
    <2> QED
      BY <2>1, <2>2, <2>3, UpFromZero
  <1>7. it[n] = g[n]
    <2> HIDE DEF it, g
    <2>1. n \in good
      BY <1>6
    <2> QED
      BY <2>1
  <1> QED
    BY <1>2, <1>7

-----------------------------------------------------------------------------
(* The shortcut: the tokens written so far name the modifiers in M, each   *)
(* once.                                                                   *)
Spelled(s, M) ==
  /\ s \in Seq({Word(m) : m \in Modifiers}) /\ IsFiniteSet(M) /\ Cardinality(M) = Len(s)
  /\ \A i \in 1..Len(s) : ModifierFromToken(s[i]) # {}
  /\ \A m : m \in M <=> \E i \in 1..Len(s) : m \in ModifierFromToken(s[i])

Writing(m, mods) == IF m \in mods THEN <<Word(m)>> ELSE <<>>

LEMMA SpelledOneMore ==
    ASSUME NEW s, NEW M, Spelled(s, M), NEW m \in Modifiers, m \notin M, NEW mods
    PROVE  Spelled(s \o Writing(m, mods), M \cup (mods \cap {m}))
  <1> DEFINE words == {Word(a) : a \in Modifiers}
             w == Word(m)
  <1>1. w \in words /\ ModifierFromToken(w) = {m}
    <2>1. ModifierFromToken(Word(m)) = {m}
      BY DEF Modifiers, ModifierAliases, Word, ModifierFromToken
    <2> QED
      BY <2>1
  <1>2. /\ s \in Seq(words) /\ IsFiniteSet(M) /\ Cardinality(M) = Len(s)
        /\ \A i \in 1..Len(s) : ModifierFromToken(s[i]) # {}
        /\ \A a : a \in M <=> \E i \in 1..Len(s) : a \in ModifierFromToken(s[i])
    BY DEF Spelled
  <1>3. CASE m \in mods
    <2> DEFINE last == <<w>>
               both == s \o last
               N == M \cup {m}
    <2>1. last = <<w>>
      OBVIOUS
    <2> HIDE DEF words, w, last
    <2>2. /\ Len(s) \in Nat /\ both \in Seq(words) /\ Len(both) = Len(s) + 1
          /\ both[Len(s) + 1] = w /\ \A j \in 1..Len(s) : both[j] = s[j]
      BY <1>1, <1>2, <2>1, OneMore
    <2> HIDE DEF both
    <2>3. both \in Seq(words) /\ Len(both) = Len(s) + 1
      BY <2>2
    <2>4. IsFiniteSet(N) /\ Cardinality(N) = Len(s) + 1
      BY <1>2, FS_AddElement
    <2>5. both[Len(s) + 1] = w /\ \A i \in 1..Len(s) : i \in 1..(Len(s) + 1) /\ both[i] = s[i]
      BY <2>2
    <2>6. \A i \in 1..Len(both) : i = Len(s) + 1 \/ i \in 1..Len(s)
      BY <2>2, <2>3
    <2>7. Len(s) + 1 \in 1..Len(both)
      BY <2>2, <2>3
    <2>8. \A i \in 1..Len(both) : ModifierFromToken(both[i]) # {}
      BY <1>1, <1>2, <2>5, <2>6
    <2>9. \A a : a \in N <=> \E i \in 1..Len(both) : a \in ModifierFromToken(both[i])
      BY <1>1, <1>2, <2>3, <2>5, <2>6, <2>7
    <2>10. Writing(m, mods) = last /\ M \cup (mods \cap {m}) = N
      BY <1>3 DEF Writing, w, last
    <2>11. Spelled(both, N)
      BY <2>3, <2>4, <2>8, <2>9 DEF Spelled, words
    <2> HIDE DEF N
    <2> QED
      BY <2>10, <2>11 DEF both
  <1>4. CASE m \notin mods
    <2>1. Writing(m, mods) = <<>> /\ M \cup (mods \cap {m}) = M
      BY <1>4 DEF Writing
    <2>2. s \o <<>> = s
      <3> HIDE DEF words
      <3> QED
        BY <1>2
    <2> QED
      BY <2>1, <2>2
  <1> QED
    BY <1>3, <1>4

LEMMA SpelledAll ==
    ASSUME NEW mods \in SUBSET Modifiers
    PROVE  Spelled(Writing("CTRL", mods) \o Writing("ALT", mods) \o Writing("SHIFT", mods)
                     \o Writing("WIN", mods), mods)
  <1> DEFINE W(m) == Writing(m, mods)
             In(m) == mods \cap {m}
  <1>1. Spelled(<<>>, {})
    BY FS_EmptySet DEF Spelled
  <1>2. "CTRL" \in Modifiers /\ "ALT" \in Modifiers /\ "SHIFT" \in Modifiers /\ "WIN" \in Modifiers
    BY DEF Modifiers
  <1>3. Spelled(<<>> \o W("CTRL"), {} \cup In("CTRL"))
    BY <1>1, <1>2, SpelledOneMore
  <1>4. <<>> \o W("CTRL") = W("CTRL") /\ {} \cup In("CTRL") = In("CTRL")
    BY DEF Writing
  <1>5. Spelled(W("CTRL") \o W("ALT"), In("CTRL") \cup In("ALT"))
    <2>1. "ALT" \notin In("CTRL")
      OBVIOUS
    <2>2. Spelled(W("CTRL"), In("CTRL"))
      BY <1>3, <1>4
    <2> QED
      BY <1>2, <2>1, <2>2, SpelledOneMore
  <1>6. Spelled(W("CTRL") \o W("ALT") \o W("SHIFT"), In("CTRL") \cup In("ALT") \cup In("SHIFT"))
    <2>1. "SHIFT" \notin In("CTRL") \cup In("ALT")
      OBVIOUS
    <2> QED
      BY <1>2, <1>5, <2>1, SpelledOneMore
  <1>7. Spelled(W("CTRL") \o W("ALT") \o W("SHIFT") \o W("WIN"),
                In("CTRL") \cup In("ALT") \cup In("SHIFT") \cup In("WIN"))
    <2>1. "WIN" \notin In("CTRL") \cup In("ALT") \cup In("SHIFT")
      OBVIOUS
    <2> QED
      BY <1>2, <1>6, <2>1, SpelledOneMore
  <1>8. In("CTRL") \cup In("ALT") \cup In("SHIFT") \cup In("WIN") = mods
    BY DEF Modifiers
  <1> QED
    BY <1>7, <1>8

LEMMA HotkeyBack ==
    ASSUME NEW mods \in SUBSET Modifiers, mods # {}, NEW vk, vk # NoVk, NEW u,
           KeyToken(vk) = <<u>>, KeyFromToken(u) = vk, ModifierFromToken(u) = {},
           NEW h, h = [mods |-> mods, key |-> vk]
    PROVE  FormatHotkey(h) # <<>> /\ ParseHotkey(FormatHotkey(h)) = h
  <1> DEFINE s == Writing("CTRL", mods) \o Writing("ALT", mods) \o Writing("SHIFT", mods)
                    \o Writing("WIN", mods)
             last == <<u>>
             both == s \o last
             n == Len(both)
             S == {Word(m) : m \in Modifiers} \cup {u}
  <1>1. /\ s \in Seq({Word(m) : m \in Modifiers}) /\ Cardinality(mods) = Len(s)
        /\ \A i \in 1..Len(s) : ModifierFromToken(s[i]) # {}
        /\ \A m : m \in mods <=> \E i \in 1..Len(s) : m \in ModifierFromToken(s[i])
    BY SpelledAll DEF Spelled
  <1>2. FormatHotkey(h) = both
    <2>1. h.mods = mods /\ h.key = vk
      OBVIOUS
    <2>2. IsValidHotkey(h)
      BY <2>1 DEF IsValidHotkey
    <2>3. KeyToken(h.key) # <<>>
      BY <2>1
    <2>4. FormatHotkey(h) = Writing("CTRL", h.mods) \o Writing("ALT", h.mods)
                              \o Writing("SHIFT", h.mods) \o Writing("WIN", h.mods)
                              \o KeyToken(h.key)
      BY <2>2, <2>3, Zenon DEF FormatHotkey, Writing
    <2> QED
      BY <2>1, <2>4
  <1> HIDE DEF s
  <1>3. s \in Seq(S) /\ u \in S
    BY <1>1
  <1>4. last = <<u>>
    OBVIOUS
  <1> HIDE DEF S, last
  <1>5. /\ Len(s) \in Nat /\ both \in Seq(S) /\ n = Len(s) + 1
        /\ both[Len(s) + 1] = u /\ \A j \in 1..Len(s) : both[j] = s[j]
    BY <1>3, <1>4, OneMore
  <1> HIDE DEF both
  <1>6. n = Len(s) + 1
    BY <1>5
  <1>7. both[n] = u /\ \A i \in 1..(n - 1) : i \in 1..Len(s) /\ both[i] = s[i]
    BY <1>5, <1>6
  <1>8. \A i \in 1..n : i = n \/ i \in 1..Len(s)
    BY <1>5, <1>6
  <1>9. UNION {ModifierFromToken(both[i]) : i \in 1..n} = mods
    <2>1. \A m : m \in mods <=> \E i \in 1..n : m \in ModifierFromToken(both[i])
      <3>1. \A i \in 1..Len(s) : i \in 1..n /\ both[i] = s[i]
        BY <1>5, <1>6, <1>7
      <3> HIDE DEF n
      <3> QED
        BY <1>1, <1>7, <1>8, <3>1
    <2> HIDE DEF n
    <2> QED
      BY <2>1
  <1>10. n - 1 = Cardinality(mods) /\ n > 0 /\ n # 0
    BY <1>1, <1>5, <1>6
  <1>11. \A i \in 1..(n - 1) : ModifierFromToken(both[i]) # {}
    BY <1>1, <1>7
  <1>12. IsValidHotkey(h)
    BY DEF IsValidHotkey
  <1>13. ParseHotkey(both) = h
    <2>1. KeyFromToken(both[n]) = vk /\ ModifierFromToken(both[n]) = {}
      BY <1>7
    <2> QED
      BY <1>9, <1>10, <1>11, <1>12, <2>1 DEF ParseHotkey
  <1>14. both # <<>>
    BY <1>10
  <1> QED
    BY <1>2, <1>13, <1>14

LEMMA HotkeyKept ==
    ASSUME NEW words, NEW text \in Seq(Token(words))
    PROVE  LET h == ParseHotkey(text)
           IN  /\ ParseHotkey(FormatHotkey(h)) = h
               /\ h = NoHotkey \/ IsValidHotkey(h)
               /\ FormatHotkey(h) # <<>> <=> h # NoHotkey
  <1> DEFINE h == ParseHotkey(text)
             n == Len(text)
             found == UNION {ModifierFromToken(text[i]) : i \in 1..n}
             hotkey == [mods |-> found, key |-> IF n = 0 THEN NoVk ELSE KeyFromToken(text[n])]
  <1>1. h = NoHotkey \/ (h = hotkey /\ n > 0 /\ IsValidHotkey(hotkey))
    BY DEF ParseHotkey
  <1>2. ~IsValidHotkey(NoHotkey)
    BY DEF NoHotkey, IsValidHotkey
  <1>3. CASE h = NoHotkey
    <2>1. FormatHotkey(NoHotkey) = <<>>
      BY <1>2 DEF FormatHotkey
    <2>2. ParseHotkey(<<>>) = NoHotkey
      BY DEF ParseHotkey
    <2> HIDE DEF h
    <2> QED
      BY <1>3, <2>1, <2>2 DEF h
  <1>4. CASE h = hotkey /\ n > 0 /\ IsValidHotkey(hotkey)
    <2> DEFINE vk == KeyFromToken(text[n])
    <2>1. n \in Nat /\ n # 0 /\ text[n] \in Token(words)
      BY <1>4
    <2>2. hotkey = [mods |-> found, key |-> vk]
      BY <2>1
    <2>3. found \in SUBSET Modifiers
      BY DEF ModifierFromToken
    <2> HIDE DEF found
    <2>4. found # {} /\ vk # NoVk
      <3> HIDE DEF vk
      <3> QED
        BY <1>4, <2>2 DEF IsValidHotkey
    <2>5. PICK u : KeyToken(vk) = <<u>> /\ KeyFromToken(u) = vk /\ ModifierFromToken(u) = {}
      BY <2>1, <2>4, KeyBack
    <2> HIDE DEF vk, n
    <2>6. FormatHotkey(hotkey) # <<>> /\ ParseHotkey(FormatHotkey(hotkey)) = hotkey
      BY <2>2, <2>3, <2>4, <2>5, HotkeyBack
    <2> HIDE DEF hotkey, h
    <2>7. h # NoHotkey
      BY <1>2, <1>4
    <2> QED
      BY <1>4, <2>6, <2>7 DEF h
  <1> QED
    BY <1>1, <1>3, <1>4

-----------------------------------------------------------------------------
(* The keys of the gesture.                                                *)
KeysOf(text) == {LookupOne(text[i]) : i \in DOMAIN text} \ {NoVk}

LEMMA KeysOfText ==
    ASSUME NEW words, NEW text \in Seq(Token(words))
    PROVE  /\ KeysOf(text) \in SUBSET Nat /\ IsFiniteSet(KeysOf(text))
           /\ \A vk \in KeysOf(text) : \E u : DragToken(vk) = <<u>> /\ LookupOne(u) = vk
  <1> DEFINE n == Len(text)
             all == {LookupOne(text[i]) : i \in 1..n}
             read == [i \in 1..n |-> LookupOne(text[i])]
  <1>1. n \in Nat /\ DOMAIN text = 1..n /\ \A i \in 1..n : text[i] \in Token(words)
    OBVIOUS
  <1>2. KeysOf(text) = all \ {NoVk}
    BY <1>1 DEF KeysOf
  <1>3. IsFiniteSet(all)
    <2>1. read \in Surjection(1..n, all)
      BY DEF Surjection
    <2>2. IsFiniteSet(1..n)
      BY <1>1, FS_Interval
    <2> HIDE DEF n, all, read
    <2> QED
      BY <2>1, <2>2, FS_Surjection
  <1>4. IsFiniteSet(KeysOf(text))
    <2> HIDE DEF all
    <2> QED
      BY <1>2, <1>3, FS_Subset
  <1>5. ASSUME NEW vk \in KeysOf(text)
        PROVE  vk \in Nat /\ \E u : DragToken(vk) = <<u>> /\ LookupOne(u) = vk
    <2>1. PICK i \in 1..n : vk = LookupOne(text[i])
      BY <1>2
    <2>2. vk # NoVk
      BY <1>2
    <2> QED
      BY <1>1, <2>1, <2>2, DragKeyBack
  <1> QED
    BY <1>4, <1>5

LEMMA GestureTextKept ==
    ASSUME NEW words, NEW text \in Seq(Token(words))
    PROVE  LET drag == ParseDragModifiers(text)
           IN  /\ ParseDragModifiers(FormatDragModifiers(drag)) = drag
               /\ ParseDragModifiers(Reverse(text)) = drag
               /\ Len(FormatDragModifiers(drag)) = Len(drag)
  <1> DEFINE K == KeysOf(text)
             m == Cardinality(K)
             drag == SortCanonical(K)
             token == [i \in 1..m |-> DragToken(drag[i])[1]]
             T == {DragToken(drag[i])[1] : i \in 1..m}
  <1>1. \A s : ParseDragModifiers(s) = SortCanonical(KeysOf(s))
    BY DEF ParseDragModifiers, KeysOf
  <1>2. /\ K \in SUBSET Nat /\ IsFiniteSet(K) /\ NoVk \notin K
        /\ \A vk \in K : \E u : DragToken(vk) = <<u>> /\ LookupOne(u) = vk
    BY KeysOfText DEF KeysOf
  <1> HIDE DEF K
  <1>3. m \in Nat /\ drag \in [1..m -> K] /\ \A k \in K : \E i \in 1..m : drag[i] = k
    BY <1>2, SortedAll
  <1> HIDE DEF m, drag
  <1>4. ASSUME NEW i \in 1..m
        PROVE  DragToken(drag[i]) = <<token[i]>> /\ LookupOne(token[i]) = drag[i]
    <2>1. drag[i] \in K
      BY <1>3
    <2>2. PICK u : DragToken(drag[i]) = <<u>> /\ LookupOne(u) = drag[i]
      BY <1>2, <2>1
    <2>3. token[i] = u
      BY <2>2
    <2> QED
      BY <2>2, <2>3
  <1>5. token \in [1..m -> T]
    OBVIOUS
  <1>6. drag \in [1..m -> Nat]
    BY <1>2, <1>3
  <1> HIDE DEF token, T
  <1>7. FormatDragModifiers(drag) = token
    BY <1>3, <1>4, <1>5, <1>6, FormatSpelled
  <1>8. KeysOf(token) = K
    <2>1. DOMAIN token = 1..m
      BY <1>5
    <2>2. \A i \in 1..m : LookupOne(token[i]) = drag[i] /\ drag[i] \in K
      BY <1>3, <1>4
    <2>3. \A k : k \in KeysOf(token) <=> k # NoVk /\ \E i \in 1..m : k = LookupOne(token[i])
      BY <2>1 DEF KeysOf
    <2>4. ASSUME NEW k \in KeysOf(token) PROVE k \in K
      BY <2>2, <2>3
    <2>5. ASSUME NEW k \in K PROVE k \in KeysOf(token)
      <3>1. PICK i \in 1..m : drag[i] = k
        BY <1>3
      <3>2. k # NoVk /\ k = LookupOne(token[i])
        BY <1>2, <2>2, <3>1
      <3> QED
        BY <2>3, <3>2
    <2> QED
      BY <2>4, <2>5
  <1>9. KeysOf(Reverse(text)) = K
    <2> DEFINE n == Len(text)
               turned == Reverse(text)
    <2>1. n \in Nat /\ DOMAIN text = 1..n
      OBVIOUS
    <2>2. turned = [i \in 1..n |-> text[n - i + 1]]
      BY DEF Reverse
    <2> HIDE DEF turned, n
    <2>3. DOMAIN turned = 1..n
      BY <2>2
    <2>4. \A i \in 1..n : n - i + 1 \in 1..n /\ n - (n - i + 1) + 1 = i
      BY <2>1
    <2>5. \A i \in 1..n : turned[i] = text[n - i + 1] /\ text[i] = turned[n - i + 1]
      BY <2>2, <2>4
    <2>6. \A k : k \in KeysOf(turned) <=> k \in KeysOf(text)
      BY <2>1, <2>3, <2>4, <2>5 DEF KeysOf
    <2> QED
      BY <2>6 DEF K, turned
  <1>10. Len(token) = m /\ Len(drag) = m
    BY <1>3, <1>5
  <1> QED
    BY <1>1, <1>7, <1>8, <1>9, <1>10 DEF drag, K

(* What was chosen is found again after a restart: any text, of whatever   *)
(* words, written back as the program understood it, is understood the     *)
(* same, however long it is or often it names a key; the keys of the       *)
(* gesture come out in one order; what has no modifier is no shortcut      *)
(* (ParseHotkey, FormatHotkey, ParseDragModifiers, FormatDragModifiers).   *)
THEOREM SpellingKept ==
    ASSUME NEW words, NEW text \in Seq(Token(words))
    PROVE  SpellingIsKept(text)
  BY HotkeyKept, GestureTextKept DEF SpellingIsKept

-----------------------------------------------------------------------------
(* The calculations.                                                       *)
Asked == input = NoInput \/ input \in Questions

LEMMA AskedKept == Asked /\ [PartsNext]_partsVars => Asked'
  <1> SUFFICES ASSUME Asked, [PartsNext]_partsVars PROVE Asked'
    OBVIOUS
  <1>1. input' = input \/ input' \in Questions
    BY DEF PartsNext, Only, AskSums, partsVars
  <1> QED
    BY <1>1 DEF Asked

TestWords == {"", "CTRL", "CONTROL", "ALT", "WIN", "LALT", "RCTRL", "LSHIFT", "RETURN", "PGUP",
              "NONSENSE"}

LEMMA TextsOfTokens == BoundedSeq(Tokens, 3) \subseteq Seq(Token(TestWords))
  <1>1. Tokens \subseteq Token(TestWords)
    <2>1. "" \in TestWords
      BY DEF TestWords
    <2>2. \A n \in Int : Char(n) \in Token(TestWords) /\ FKey(n) \in Token(TestWords)
      BY <2>1 DEF Token, Char, FKey
    <2>3. \A w \in TestWords : Word(w) \in Token(TestWords)
      BY DEF Token, Word
    <2>4. Tokens = {Char(84), Char(49), FKey(0), FKey(1), FKey(24), FKey(25)}
                     \cup {Word(w) : w \in TestWords}
      BY DEF Tokens, TestWords
    <2> QED
      BY <2>2, <2>3, <2>4
  <1>2. ASSUME NEW s \in BoundedSeq(Tokens, 3)
        PROVE  s \in Seq(Token(TestWords))
    <2>1. PICK m \in 0..3 : s \in [1..m -> Tokens]
      BY <1>2 DEF BoundedSeq, SeqOf
    <2>2. s \in [1..m -> Token(TestWords)]
      BY <1>1, <2>1
    <2> QED
      BY <2>2
  <1> QED
    BY <1>2

LEMMA SmallRects == \A r \in Small : r \in Rects /\ ~IsEmpty(r)
  BY DEF Small, Rects

LEMMA AskedExact == Asked => SumsAreExact
  <1> SUFFICES ASSUME input \in Questions PROVE SumsAreExact
    BY DEF Asked, SumsAreExact
  <1>1. CASE input \in [ask : {"spell"}, text : BoundedSeq(Tokens, 3)]
    <2>1. input.ask = "spell" /\ input.text \in BoundedSeq(Tokens, 3)
      BY <1>1
    <2>2. SpellingIsKept(input.text)
      BY <2>1, TextsOfTokens, SpellingKept
    <2> QED
      BY <2>1, <2>2 DEF SumsAreExact
  <1>2. CASE input \in [ask : {"cut"}, from : Small, hole : Small]
    <2>1. input.ask = "cut" /\ input.from \in Small /\ input.hole \in Small
      BY <1>2
    <2>2. ASSUME NEW x \in 0..3, NEW y \in 0..3
          PROVE  SubtractsExactly(input.from, input.hole, x, y) /\ RingIsExact(input.from, input.hole, x, y)
      BY <2>1, SmallRects, SubtractExact, RingExact
    <2> QED
      BY <2>1, <2>2 DEF SumsAreExact
  <1>3. CASE input \in [ask : {"zone"}, frame : Small]
    <2>1. input.ask = "zone" /\ input.frame \in Small
      BY <1>3
    <2>2. \A x, y \in 0..3 : ZoneIsUsable(input.frame, x, y)
      BY <2>1, SmallRects, ZonesAreUsable
    <2>3. \A work \in Small : CentredIsReachable(input.frame, work)
      BY <2>1, SmallRects, CentredReachable
    <2> QED
      BY <2>1, <2>2, <2>3 DEF SumsAreExact
  <1>4. CASE input \in [ask : {"resize"}, frame : {r \in Small : r.left = 0 /\ r.top = 0},
                        edges : Edges, dx : Displacements, dy : Displacements, least : {0, 2}]
    <2>1. /\ input.ask = "resize" /\ input.frame \in Small /\ input.edges \in Edges
          /\ input.dx \in Int /\ input.dy \in Int /\ input.least \in Int
      BY <1>4 DEF Displacements
    <2>2. ResizeIsAnchored(input.frame, input.edges, input.dx, input.dy, input.least, input.least)
      BY <2>1, SmallRects, ResizeAnchored
    <2> QED
      BY <2>1, <2>2 DEF SumsAreExact
  <1> QED
    BY <1>1, <1>2, <1>3, <1>4 DEF Questions

(* Whatever is asked of them, the calculations do what their callers rely  *)
(* on: pieces and rings hold each pixel once, an edge that is not dragged  *)
(* stays, a centred window can be reached, and a spelling is read back     *)
(* (BorderOcclusion.cpp, DragGeometry.cpp, Hotkey.cpp, DragModifiers.cpp). *)
THEOREM SumsStayExact == PartsSpec => []SumsAreExact
  <1>1. PartsInit => Asked
    BY DEF PartsInit, Asked
  <1> QED
    BY <1>1, AskedKept, AskedExact, PTL DEF PartsSpec, partsVars
=============================================================================
