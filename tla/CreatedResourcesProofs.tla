------------------------ MODULE CreatedResourcesProofs ------------------------
(***************************************************************************)
(* Proofs about CreatedResources, for any types, names and clusters and    *)
(* for lists of any length: what the operations of utils.go do to a list,  *)
(* the invariants of a pass, and that a pass acts on a set of entries.     *)
(* What a search or a loop computes is proved by induction on the index,   *)
(* which SetInduction states for a set of numbers.                         *)
(***************************************************************************)
EXTENDS CreatedResources, TLAPS, WellFoundedInduction, SequenceTheorems

------------------------------------------------------------------------------
(* Natural numbers *)

\* Induction: a set with 0 that is closed under successor has every number.
LEMMA SetInduction ==
  ASSUME NEW S, 0 \in S, \A n \in Nat : n \in S => n + 1 \in S
  PROVE  Nat \subseteq S
<1> SUFFICES ASSUME Nat \ S # {} PROVE FALSE
  OBVIOUS
<1>1. PICK x \in Nat \ S : \A y \in Nat \ S : ~(<<y, x>> \in OpToRel(<, Nat))
  BY NatLessThanWellFounded, WFMin, Zenon
<1>2. \A y \in Nat \ S : ~(y < x)
  BY <1>1 DEF OpToRel
<1> QED  BY <1>2

\* A set of numbers has a least element, and Min is that element.
LEMMA MinIsLeast ==
  ASSUME NEW S \in SUBSET Nat, S # {}
  PROVE  Min(S) \in S /\ \A y \in S : Min(S) <= y
<1>1. PICK x \in S : \A y \in S : ~(<<y, x>> \in OpToRel(<, Nat))
  BY NatLessThanWellFounded, WFMin, Zenon
<1>2. ASSUME NEW y \in S PROVE x <= y
  <2>1. x \in Nat /\ y \in Nat /\ ~(<<y, x>> \in {ss \in Nat \X Nat : ss[1] < ss[2]})
    BY <1>1 DEF OpToRel
  <2> QED  BY <2>1
<1>3. \E z \in S : \A y \in S : z <= y
  BY <1>2
<1> QED  BY <1>3 DEF Min

------------------------------------------------------------------------------
(* Operations of the list *)

\* The search for a type ends at a group of this type, or there is none.
LEMMA GroupOfFinds ==
  ASSUME NEW list \in Seq(Groups), NEW gvk
  PROVE  /\ GroupOf(list, gvk) \in 0..Len(list)
         /\ GroupOf(list, gvk) = 0 => \A j \in DOMAIN list : list[j].type # gvk
         /\ GroupOf(list, gvk) # 0 =>
              GroupOf(list, gvk) \in DOMAIN list /\ list[GroupOf(list, gvk)].type = gvk
<1> DEFINE I == {i \in 1..Len(list) : list[i].type = gvk}
<1>1. GroupOf(list, gvk) = IF I # {} THEN Min(I) ELSE 0
  BY DEF GroupOf, SelectInSeq
<1>2. I \in SUBSET Nat
  OBVIOUS
<1>3. CASE I # {}
  <2>1. Min(I) \in I
    BY <1>2, <1>3, MinIsLeast
  <2> QED  BY <1>1, <1>3, <2>1
<1>4. CASE I = {}
  BY <1>1, <1>4
<1> QED  BY <1>3, <1>4

\* The search for a resource ends at this resource, or it is not there.
LEMMA ResourceOfFinds ==
  ASSUME NEW resources \in Seq(Resources), NEW res
  PROVE  /\ ResourceOf(resources, res) \in 0..Len(resources)
         /\ ResourceOf(resources, res) = 0 =>
              \A j \in DOMAIN resources : resources[j] # res
         /\ ResourceOf(resources, res) # 0 =>
              /\ ResourceOf(resources, res) \in DOMAIN resources
              /\ resources[ResourceOf(resources, res)] = res
<1> DEFINE I == {i \in 1..Len(resources) : resources[i] = res}
<1>1. ResourceOf(resources, res) = IF I # {} THEN Min(I) ELSE 0
  BY DEF ResourceOf, SelectInSeq
<1>2. I \in SUBSET Nat
  OBVIOUS
<1>3. CASE I # {}
  <2>1. Min(I) \in I
    BY <1>2, <1>3, MinIsLeast
  <2> QED  BY <1>1, <1>3, <2>1
<1>4. CASE I = {}
  BY <1>1, <1>4
<1> QED  BY <1>3, <1>4

\* The parts of a list of groups have the types their fields say.
LEMMA GroupTyped ==
  ASSUME NEW list \in Seq(Groups), NEW i \in DOMAIN list
  PROVE  /\ list[i] \in Groups
         /\ list[i].type \in GVKs /\ list[i].resources \in Seq(Resources)
         /\ \A k \in DOMAIN list[i].resources : list[i].resources[k] \in Resources
<1>1. list[i] \in Groups
  OBVIOUS
<1>2. list[i].type \in GVKs /\ list[i].resources \in Seq(Resources)
  BY <1>1 DEF Groups
<1> QED  BY <1>1, <1>2

\* Append adds one element behind the others.
LEMMA AppendFacts ==
  ASSUME NEW S, NEW s \in Seq(S), NEW x \in S
  PROVE  /\ Append(s, x) \in Seq(S)
         /\ Append(s, x) # <<>>
         /\ Len(Append(s, x)) = Len(s) + 1
         /\ \A i \in DOMAIN s : i \in DOMAIN Append(s, x) /\ Append(s, x)[i] = s[i]
         /\ Len(s) + 1 \in DOMAIN Append(s, x) /\ Append(s, x)[Len(s) + 1] = x
         /\ \A i \in DOMAIN Append(s, x) : i \in DOMAIN s \/ i = Len(s) + 1
  OBVIOUS

\* What the code looks for: the resource in a group of its type.
Holds(list, gvk, res) ==
  \E i \in DOMAIN list :
     list[i].type = gvk /\ \E k \in DOMAIN list[i].resources : list[i].resources[k] = res

EntryFor(gvk, res) == [type |-> gvk, name |-> res.name, cluster |-> res.cluster]

\* Every entry of a list stands for an element of a group, and vice versa.
LEMMA EntriesByIndex ==
  ASSUME NEW list \in Seq(Groups), NEW e
  PROVE  e \in EntriesIn(list) <=>
           \E i \in DOMAIN list : \E k \in DOMAIN list[i].resources :
              e = EntryFor(list[i].type, list[i].resources[k])
<1>1. e \in EntriesIn(list) <=>
        \E i \in DOMAIN list : \E k \in DOMAIN list[i].resources :
           e = [type |-> list[i].type, name |-> list[i].resources[k].name,
                cluster |-> list[i].resources[k].cluster]
  BY DEF EntriesIn, ToSet
<1> QED  BY <1>1 DEF EntryFor

\* The entries of a list are the resources that it holds.
LEMMA EntriesAreHeld ==
  ASSUME NEW list \in Seq(Groups), NEW gvk \in GVKs, NEW res \in Resources
  PROVE  EntryFor(gvk, res) \in EntriesIn(list) <=> Holds(list, gvk, res)
<1>1. EntryFor(gvk, res) \in EntriesIn(list) <=>
        \E i \in DOMAIN list : \E k \in DOMAIN list[i].resources :
           EntryFor(gvk, res) = EntryFor(list[i].type, list[i].resources[k])
  BY EntriesByIndex
<1>2. ASSUME NEW i \in DOMAIN list, NEW k \in DOMAIN list[i].resources
      PROVE  EntryFor(gvk, res) = EntryFor(list[i].type, list[i].resources[k])
               <=> list[i].type = gvk /\ list[i].resources[k] = res
  <2>1. list[i].resources[k] \in Resources
    BY GroupTyped
  <2>2. list[i].resources[k] = res <=>
          /\ list[i].resources[k].name = res.name
          /\ list[i].resources[k].cluster = res.cluster
    BY <2>1 DEF Resources
  <2> QED  BY <2>2 DEF EntryFor
<1> QED  BY <1>1, <1>2 DEF Holds

\* The entries of a list of groups are entries.
LEMMA EntriesTyped ==
  ASSUME NEW list \in Seq(Groups)
  PROVE  EntriesIn(list) \subseteq Entries
<1> SUFFICES ASSUME NEW e \in EntriesIn(list) PROVE e \in Entries
  OBVIOUS
<1>1. PICK i \in DOMAIN list : \E k \in DOMAIN list[i].resources :
        e = EntryFor(list[i].type, list[i].resources[k])
  BY EntriesByIndex
<1>2. PICK k \in DOMAIN list[i].resources :
        e = EntryFor(list[i].type, list[i].resources[k])
  BY <1>1
<1>3. list[i].type \in GVKs /\ list[i].resources[k] \in Resources
  BY GroupTyped
<1> QED  BY <1>2, <1>3 DEF Entries, Resources, EntryFor

\* Every entry stands for a resource and its type.
LEMMA EntryForAll ==
  ASSUME NEW e \in Entries
  PROVE  /\ e.type \in GVKs
         /\ [name |-> e.name, cluster |-> e.cluster] \in Resources
         /\ e = EntryFor(e.type, [name |-> e.name, cluster |-> e.cluster])
  BY DEF Entries, Resources, EntryFor

\* Two sets of entries are equal if they hold the same resources.
LEMMA EntriesEqual ==
  ASSUME NEW A \in SUBSET Entries, NEW B \in SUBSET Entries,
         \A gvk \in GVKs, res \in Resources :
            EntryFor(gvk, res) \in A <=> EntryFor(gvk, res) \in B
  PROVE  A = B
<1>1. ASSUME NEW e \in Entries PROVE e \in A <=> e \in B
  <2>1. PICK gvk \in GVKs, res \in Resources : e = EntryFor(gvk, res)
    BY EntryForAll
  <2> QED  BY <2>1
<1> QED  BY <1>1

\* One group per type, and one element per resource.
Unique(list) ==
  /\ \A i, j \in DOMAIN list : list[i].type = list[j].type => i = j
  /\ \A i \in DOMAIN list : IsInjective(list[i].resources)

NoEmptyGroup(list) == \A i \in DOMAIN list : list[i].resources # <<>>

\* ContainsRaw, which looks into the first group of the type only (163-191),
\* tells whether the entry is in the list.
THEOREM ContainsRawIsMembership ==
  ASSUME NEW list \in Seq(Groups), Unique(list), NEW gvk \in GVKs, NEW res \in Resources
  PROVE  ContainsRaw(list, gvk, res) <=> EntryFor(gvk, res) \in EntriesIn(list)
<1> DEFINE i == GroupOf(list, gvk)
           j == ResourceOf(list[i].resources, res)
<1>1. /\ i = 0 => \A n \in DOMAIN list : list[n].type # gvk
      /\ i # 0 => i \in DOMAIN list /\ list[i].type = gvk
  BY GroupOfFinds
<1>2. ContainsRaw(list, gvk, res) <=> i # 0 /\ j # 0
  BY DEF ContainsRaw
<1>3. i # 0 => /\ j = 0 => \A k \in DOMAIN list[i].resources : list[i].resources[k] # res
               /\ j # 0 => j \in DOMAIN list[i].resources /\ list[i].resources[j] = res
  BY <1>1, GroupTyped, ResourceOfFinds
<1> HIDE DEF i, j
<1>4. ContainsRaw(list, gvk, res) <=> Holds(list, gvk, res)
  BY <1>1, <1>2, <1>3 DEF Unique, Holds
<1> QED  BY <1>4, EntriesAreHeld

\* Another list of resources for a group leaves the rest of the list alone.
LEMMA ReplaceFacts ==
  ASSUME NEW list \in Seq(Groups), NEW i \in DOMAIN list, NEW rs \in Seq(Resources)
  PROVE  LET new == [list EXCEPT ![i].resources = rs]
         IN /\ new \in Seq(Groups) /\ DOMAIN new = DOMAIN list
            /\ \A n \in DOMAIN list : n # i => new[n] = list[n]
            /\ new[i].type = list[i].type /\ new[i].resources = rs
<1> DEFINE g == [list[i] EXCEPT !.resources = rs]
<1>1. g \in Groups /\ g.type = list[i].type /\ g.resources = rs
  <2>1. list[i] \in Groups
    BY GroupTyped
  <2> QED  BY <2>1 DEF Groups
<1>2. [list EXCEPT ![i].resources = rs] = [list EXCEPT ![i] = g]
  OBVIOUS
<1> HIDE DEF g
<1>3. [list EXCEPT ![i] = g] \in Seq(Groups)
      /\ DOMAIN [list EXCEPT ![i] = g] = DOMAIN list
      /\ \A n \in DOMAIN list : [list EXCEPT ![i] = g][n] = IF n = i THEN g ELSE list[n]
  BY <1>1, ExceptSeq
<1> QED  BY <1>1, <1>2, <1>3

\* A resource enters the group of its type, or a new one.
LEMMA AddRawFacts ==
  ASSUME NEW list \in Seq(Groups), Unique(list), NEW gvk \in GVKs, NEW res \in Resources
  PROVE  LET new == AddRaw(list, gvk, res)
         IN /\ new \in Seq(Groups)
            /\ Unique(new)
            /\ NoEmptyGroup(list) => NoEmptyGroup(new)
            /\ EntriesIn(new) = EntriesIn(list) \cup {EntryFor(gvk, res)}
<1> DEFINE new == AddRaw(list, gvk, res)
           i == GroupOf(list, gvk)
           j == ResourceOf(list[i].resources, res)
<1>1. /\ i = 0 => \A n \in DOMAIN list : list[n].type # gvk
      /\ i # 0 => i \in DOMAIN list /\ list[i].type = gvk
  BY GroupOfFinds
<1>2. i # 0 => /\ j = 0 => \A k \in DOMAIN list[i].resources : list[i].resources[k] # res
               /\ j # 0 => j \in DOMAIN list[i].resources /\ list[i].resources[j] = res
  BY <1>1, GroupTyped, ResourceOfFinds
<1>3. /\ i = 0 => new = Append(list, [type |-> gvk, resources |-> <<res>>])
      /\ i # 0 /\ j # 0 => new = list
      /\ i # 0 /\ j = 0 =>
           new = [list EXCEPT ![i].resources = Append(list[i].resources, res)]
  BY DEF AddRaw
<1> HIDE DEF i, j, new
<1>a. SUFFICES /\ new \in Seq(Groups)
               /\ Unique(new)
               /\ NoEmptyGroup(list) => NoEmptyGroup(new)
               /\ \A g \in GVKs, r \in Resources :
                     Holds(new, g, r) <=> Holds(list, g, r) \/ (g = gvk /\ r = res)
  <2>1. EntryFor(gvk, res) \in Entries
    BY DEF EntryFor, Entries, Resources
  <2>2. ASSUME NEW g \in GVKs, NEW r \in Resources
        PROVE  EntryFor(g, r) = EntryFor(gvk, res) <=> g = gvk /\ r = res
    BY DEF EntryFor, Resources
  <2>3. ASSUME NEW g \in GVKs, NEW r \in Resources
        PROVE  EntryFor(g, r) \in EntriesIn(new) <=> 
                  EntryFor(g, r) \in EntriesIn(list) \cup {EntryFor(gvk, res)}
    BY <1>a, <2>2, EntriesAreHeld
  <2>4. EntriesIn(list) \cup {EntryFor(gvk, res)} \in SUBSET Entries
        /\ EntriesIn(new) \in SUBSET Entries
    BY <1>a, <2>1, EntriesTyped
  <2>5. EntriesIn(new) = EntriesIn(list) \cup {EntryFor(gvk, res)}
    BY <2>3, <2>4, EntriesEqual
  <2> QED  BY <1>a, <2>5 DEF new
<1>4. CASE i = 0
  <2> DEFINE g0 == [type |-> gvk, resources |-> <<res>>]
  <2>1. g0 \in Groups
    BY DEF Groups
  <2>2. new = Append(list, g0)
    BY <1>3, <1>4
  <2> HIDE DEF g0
  <2>3. /\ new \in Seq(Groups)
        /\ \A n \in DOMAIN list : n \in DOMAIN new /\ new[n] = list[n]
        /\ Len(list) + 1 \in DOMAIN new /\ new[Len(list) + 1] = g0
        /\ \A n \in DOMAIN new : n \in DOMAIN list \/ n = Len(list) + 1
    BY <2>1, <2>2, AppendFacts
  <2>4. g0.type = gvk /\ IsInjective(g0.resources) /\ g0.resources # <<>>
        /\ DOMAIN g0.resources = {1} /\ g0.resources[1] = res
    BY DEF g0, IsInjective
  <2>5. Unique(new)
    BY <1>1, <1>4, <2>3, <2>4 DEF Unique
  <2>6. NoEmptyGroup(list) => NoEmptyGroup(new)
    BY <2>3, <2>4 DEF NoEmptyGroup
  <2>7. ASSUME NEW g \in GVKs, NEW r \in Resources
        PROVE  Holds(new, g, r) <=> Holds(list, g, r) \/ (g = gvk /\ r = res)
    BY <2>3, <2>4 DEF Holds
  <2> QED  BY <2>3, <2>5, <2>6, <2>7
<1>5. CASE i # 0 /\ j # 0
  BY <1>1, <1>2, <1>3, <1>5 DEF Holds
<1>6. CASE i # 0 /\ j = 0
  <2> DEFINE old == list[i].resources
             rs == Append(old, res)
  <2>1. /\ old \in Seq(Resources) /\ i \in DOMAIN list
        /\ list[i].type = gvk /\ list[i] \in Groups
    BY <1>1, <1>6, GroupTyped
  <2>2. /\ rs \in Seq(Resources) /\ rs # <<>>
        /\ \A n \in DOMAIN old : n \in DOMAIN rs /\ rs[n] = old[n]
        /\ Len(old) + 1 \in DOMAIN rs /\ rs[Len(old) + 1] = res
        /\ \A n \in DOMAIN rs : n \in DOMAIN old \/ n = Len(old) + 1
    BY <2>1, AppendFacts
  <2>3. \A k \in DOMAIN old : old[k] # res
    BY <1>2, <1>6
  <2> HIDE DEF rs
  <2>4. new = [list EXCEPT ![i].resources = rs]
    BY <1>3, <1>6 DEF rs
  <2>6. /\ new \in Seq(Groups) /\ DOMAIN new = DOMAIN list
        /\ \A n \in DOMAIN list : n # i => new[n] = list[n]
        /\ new[i].type = gvk /\ new[i].resources = rs
    BY <2>1, <2>2, <2>4, ReplaceFacts
  <2>7. IsInjective(rs)
    <3>1. IsInjective(old)
      BY <2>1 DEF Unique
    <3> HIDE DEF old
    <3> QED  BY <2>2, <2>3, <3>1 DEF IsInjective
  <2>8. Unique(new)
    BY <2>1, <2>6, <2>7 DEF Unique
  <2>9. NoEmptyGroup(list) => NoEmptyGroup(new)
    BY <2>2, <2>6 DEF NoEmptyGroup
  <2>10. ASSUME NEW g \in GVKs, NEW r \in Resources
         PROVE  Holds(new, g, r) <=> Holds(list, g, r) \/ (g = gvk /\ r = res)
    <3>1. (\E k \in DOMAIN rs : rs[k] = r) <=> r = res \/ \E k \in DOMAIN old : old[k] = r
      BY <2>2
    <3>2. \A n \in DOMAIN list :
             new[n].type = g
               /\ (\E k \in DOMAIN new[n].resources : new[n].resources[k] = r)
               <=> \/ /\ list[n].type = g
                      /\ \E k \in DOMAIN list[n].resources : list[n].resources[k] = r
                   \/ n = i /\ g = gvk /\ r = res
      BY <2>1, <2>6, <3>1
    <3> QED  BY <2>1, <2>6, <3>2 DEF Holds
  <2> QED  BY <2>6, <2>8, <2>9, <2>10
<1> QED  BY <1>4, <1>5, <1>6

\* RemoveAt drops one element and closes the gap.
LEMMA RemoveAtFacts ==
  ASSUME NEW S, NEW s \in Seq(S), NEW j \in DOMAIN s
  PROVE  /\ RemoveAt(s, j) \in Seq(S)
         /\ DOMAIN RemoveAt(s, j) = 1..(Len(s) - 1)
         /\ \A k \in 1..(Len(s) - 1) :
              RemoveAt(s, j)[k] = IF k < j THEN s[k] ELSE s[k + 1]
<1>1. j \in 1..Len(s) /\ Len(s) \in Nat
  OBVIOUS
<1>2. SubSeq(s, 1, j - 1) \in Seq(S) /\ Len(SubSeq(s, 1, j - 1)) = j - 1
      /\ \A k \in 1..(j - 1) : SubSeq(s, 1, j - 1)[k] = s[k]
  BY <1>1
<1>3. SubSeq(s, j + 1, Len(s)) \in Seq(S) /\ Len(SubSeq(s, j + 1, Len(s))) = Len(s) - j
      /\ \A k \in 1..(Len(s) - j) : SubSeq(s, j + 1, Len(s))[k] = s[j + k]
  BY <1>1
<1>4. RemoveAt(s, j) = SubSeq(s, 1, j - 1) \o SubSeq(s, j + 1, Len(s))
  BY DEF RemoveAt
<1> DEFINE u == SubSeq(s, 1, j - 1)
           v == SubSeq(s, j + 1, Len(s))
<1> HIDE DEF u, v
<1>5. /\ RemoveAt(s, j) \in Seq(S)
      /\ Len(RemoveAt(s, j)) = Len(u) + Len(v)
      /\ \A k \in 1..(Len(u) + Len(v)) :
           RemoveAt(s, j)[k] = IF k <= Len(u) THEN u[k] ELSE v[k - Len(u)]
  <2>1. u \in Seq(S) /\ v \in Seq(S) /\ RemoveAt(s, j) = u \o v
    BY <1>2, <1>3, <1>4 DEF u, v
  <2> QED  BY <2>1, ConcatProperties
<1>6. Len(u) = j - 1 /\ Len(v) = Len(s) - j
  BY <1>2, <1>3 DEF u, v
<1>7. ASSUME NEW k \in 1..(Len(s) - 1)
      PROVE  RemoveAt(s, j)[k] = IF k < j THEN s[k] ELSE s[k + 1]
  <2>1. RemoveAt(s, j)[k] = IF k <= j - 1 THEN u[k] ELSE v[k - (j - 1)]
    BY <1>1, <1>5, <1>6
  <2>2. CASE k < j
    BY <1>1, <1>2, <2>1, <2>2 DEF u
  <2>3. CASE ~(k < j)
    <3>1. k - (j - 1) \in 1..(Len(s) - j) /\ j + (k - (j - 1)) = k + 1
      BY <1>1, <2>3
    <3>2. v[k - (j - 1)] = s[j + (k - (j - 1))]
      BY <1>3, <3>1 DEF v
    <3> QED  BY <1>1, <2>1, <2>3, <3>1, <3>2
  <2> QED  BY <2>2, <2>3
<1> QED  BY <1>1, <1>5, <1>6, <1>7

\* From a list without duplicates, all of an element goes.
LEMMA RemoveAtInjective ==
  ASSUME NEW S, NEW s \in Seq(S), IsInjective(s), NEW j \in DOMAIN s
  PROVE  /\ IsInjective(RemoveAt(s, j))
         /\ \A x \in S : (\E k \in DOMAIN RemoveAt(s, j) : RemoveAt(s, j)[k] = x)
                     <=> x # s[j] /\ \E k \in DOMAIN s : s[k] = x
<1> DEFINE rs == RemoveAt(s, j)
<1>1. j \in 1..Len(s) /\ Len(s) \in Nat /\ DOMAIN s = 1..Len(s)
  OBVIOUS
<1>2. DOMAIN rs = 1..(Len(s) - 1)
      /\ \A k \in DOMAIN rs : rs[k] = IF k < j THEN s[k] ELSE s[k + 1]
  BY RemoveAtFacts
<1> HIDE DEF rs
<1>3. \A a, b \in DOMAIN s : s[a] = s[b] => a = b
  BY DEF IsInjective
<1>4. ASSUME NEW a \in DOMAIN rs, NEW b \in DOMAIN rs, rs[a] = rs[b]
      PROVE  a = b
  BY <1>1, <1>2, <1>3, <1>4
<1>5. ASSUME NEW k \in DOMAIN rs
      PROVE  rs[k] # s[j] /\ \E m \in DOMAIN s : s[m] = rs[k]
  <2>1. CASE k < j
    BY <1>1, <1>2, <1>3, <2>1
  <2>2. CASE ~(k < j)
    <3>1. k + 1 \in DOMAIN s /\ k + 1 # j /\ rs[k] = s[k + 1]
      BY <1>1, <1>2, <2>2
    <3> QED  BY <1>1, <1>3, <3>1
  <2> QED  BY <2>1, <2>2
<1>6. ASSUME NEW m \in DOMAIN s, s[m] # s[j]
      PROVE  \E k \in DOMAIN rs : rs[k] = s[m]
  <2>1. m # j
    BY <1>6
  <2>2. CASE m < j
    BY <1>1, <1>2, <2>2
  <2>3. CASE m > j
    <3>1. m - 1 \in DOMAIN rs /\ ~(m - 1 < j) /\ (m - 1) + 1 = m
      BY <1>1, <1>2, <2>3
    <3>2. rs[m - 1] = s[m]
      BY <1>2, <3>1
    <3> QED  BY <3>1, <3>2
  <2> QED  BY <1>1, <2>1, <2>2, <2>3
<1>7. IsInjective(rs)
  BY <1>4 DEF IsInjective
<1>8. \A x \in S : (\E k \in DOMAIN rs : rs[k] = x)
                     <=> x # s[j] /\ \E k \in DOMAIN s : s[k] = x
  BY <1>5, <1>6
<1> QED  BY <1>7, <1>8 DEF rs

\* Remove takes exactly one entry out of a list without duplicates.
LEMMA RemoveRawFacts ==
  ASSUME NEW list \in Seq(Groups), Unique(list), NEW gvk \in GVKs, NEW res \in Resources
  PROVE  LET new == RemoveRaw(list, gvk, res)
         IN /\ new \in Seq(Groups)
            /\ Unique(new)
            /\ EntriesIn(new) = EntriesIn(list) \ {EntryFor(gvk, res)}
<1> DEFINE new == RemoveRaw(list, gvk, res)
           i == GroupOf(list, gvk)
           j == IF i = 0 THEN 0 ELSE ResourceOf(list[i].resources, res)
<1>1. /\ i = 0 => \A n \in DOMAIN list : list[n].type # gvk
      /\ i # 0 => i \in DOMAIN list /\ list[i].type = gvk
  BY GroupOfFinds
<1>2. i # 0 => /\ j = 0 => \A k \in DOMAIN list[i].resources : list[i].resources[k] # res
               /\ j # 0 => j \in DOMAIN list[i].resources /\ list[i].resources[j] = res
  BY <1>1, GroupTyped, ResourceOfFinds
<1>3. /\ j = 0 => new = list
      /\ j # 0 => /\ i # 0
                  /\ new = [list EXCEPT ![i].resources = RemoveAt(list[i].resources, j)]
  BY DEF RemoveRaw
<1>b. i = 0 => j = 0
  OBVIOUS
<1> HIDE DEF i, j, new
<1>a. SUFFICES /\ new \in Seq(Groups)
               /\ Unique(new)
               /\ \A g \in GVKs, r \in Resources :
                     Holds(new, g, r) <=> Holds(list, g, r) /\ ~(g = gvk /\ r = res)
  <2>2. ASSUME NEW g \in GVKs, NEW r \in Resources
        PROVE  EntryFor(g, r) = EntryFor(gvk, res) <=> g = gvk /\ r = res
    BY DEF EntryFor, Resources
  <2>3. ASSUME NEW g \in GVKs, NEW r \in Resources
        PROVE  EntryFor(g, r) \in EntriesIn(new) <=> 
                  EntryFor(g, r) \in EntriesIn(list) \ {EntryFor(gvk, res)}
    BY <1>a, <2>2, EntriesAreHeld
  <2>4. EntriesIn(list) \ {EntryFor(gvk, res)} \in SUBSET Entries
        /\ EntriesIn(new) \in SUBSET Entries
    BY <1>a, EntriesTyped
  <2>5. EntriesIn(new) = EntriesIn(list) \ {EntryFor(gvk, res)}
    BY <2>3, <2>4, EntriesEqual
  <2> QED  BY <1>a, <2>5 DEF new
<1>4. CASE j = 0
  <2>1. new = list
    BY <1>3, <1>4
  <2>2. ~Holds(list, gvk, res)
    BY <1>1, <1>2, <1>4 DEF Holds, Unique
  <2> QED  BY <2>1, <2>2
<1>5. CASE j # 0
  <2> DEFINE old == list[i].resources
             rs == RemoveAt(old, j)
  <2>1. old \in Seq(Resources) /\ i \in DOMAIN list /\ list[i].type = gvk
        /\ j \in DOMAIN old /\ old[j] = res
    BY <1>1, <1>2, <1>3, <1>5, GroupTyped
  <2>2. IsInjective(old)
    BY <2>1 DEF Unique
  <2> HIDE DEF old
  <2>3. /\ rs \in Seq(Resources)
        /\ IsInjective(rs)
        /\ \A r \in Resources :
             (\E k \in DOMAIN rs : rs[k] = r)
               <=> r # res /\ \E k \in DOMAIN old : old[k] = r
    <3>1. rs \in Seq(Resources)
      BY <2>1, RemoveAtFacts
    <3> QED  BY <2>1, <2>2, <3>1, RemoveAtInjective
  <2> HIDE DEF rs
  <2>4. new = [list EXCEPT ![i].resources = rs]
    BY <1>3, <1>5 DEF rs, old
  <2>6. /\ new \in Seq(Groups) /\ DOMAIN new = DOMAIN list
        /\ \A n \in DOMAIN list : n # i => new[n] = list[n]
        /\ new[i].type = gvk /\ new[i].resources = rs
    BY <2>1, <2>3, <2>4, ReplaceFacts
  <2>8. Unique(new)
    <3>1. \A n \in DOMAIN list : new[n].type = list[n].type
      BY <2>1, <2>6
    <3>2. \A n \in DOMAIN list : IsInjective(new[n].resources)
      BY <2>3, <2>6 DEF Unique
    <3> QED  BY <2>6, <3>1, <3>2 DEF Unique
  <2>10. ASSUME NEW g \in GVKs, NEW r \in Resources
         PROVE  Holds(new, g, r) <=> Holds(list, g, r) /\ ~(g = gvk /\ r = res)
    <3>1. \A n \in DOMAIN list : list[n].type = gvk => n = i
      BY <2>1 DEF Unique
    <3>2. ASSUME NEW n \in DOMAIN list
          PROVE  new[n].type = g
                   /\ (\E k \in DOMAIN new[n].resources : new[n].resources[k] = r)
                   <=> /\ list[n].type = g
                       /\ \E k \in DOMAIN list[n].resources : list[n].resources[k] = r
                       /\ ~(g = gvk /\ r = res)
      <4>1. CASE n = i
        BY <2>1, <2>3, <2>6, <4>1 DEF old
      <4>2. CASE n # i
        BY <2>6, <3>1, <4>2
      <4> QED  BY <4>1, <4>2
    <3> QED  BY <2>6, <3>2 DEF Holds
  <2> QED  BY <2>6, <2>8, <2>10
<1> QED  BY <1>4, <1>5

------------------------------------------------------------------------------
(* Cleanup *)

\* f[i] is result after i turns of the loop, for i up to n.
IsLoop(list, f, n) ==
  f = [i \in 0..n |->
         IF i = 0 THEN <<>>
         ELSE IF list[i].resources # <<>> THEN Append(f[i - 1], list[i])
         ELSE f[i - 1]]

\* The recursion of Cleanup has a solution.
LEMMA LoopExists ==
  ASSUME NEW list \in Seq(Groups)
  PROVE  \E f : IsLoop(list, f, Len(list))
<1> DEFINE S == {n \in Nat : \E f : IsLoop(list, f, n)}
<1>1. 0 \in S
  <2> DEFINE f == [i \in 0..0 |-> <<>>]
  <2>1. IsLoop(list, f, 0)
    BY DEF IsLoop
  <2> QED  BY <2>1
<1>2. ASSUME NEW n \in Nat, n \in S PROVE n + 1 \in S
  <2>1. PICK f : IsLoop(list, f, n)
    BY <1>2
  <2> DEFINE turn == IF list[n + 1].resources # <<>> THEN Append(f[n], list[n + 1])
                     ELSE f[n]
             g == [i \in 0..(n + 1) |-> IF i <= n THEN f[i] ELSE turn]
  <2>2. \A i \in 0..n : g[i] = f[i]
    OBVIOUS
  <2>3. g[n + 1] = turn
    OBVIOUS
  <2>4. ASSUME NEW i \in 0..(n + 1)
        PROVE  g[i] = IF i = 0 THEN <<>>
                      ELSE IF list[i].resources # <<>> THEN Append(g[i - 1], list[i])
                      ELSE g[i - 1]
    <3> HIDE DEF g
    <3>1. CASE i \in 0..n
      <4>1. f[i] = IF i = 0 THEN <<>>
                   ELSE IF list[i].resources # <<>> THEN Append(f[i - 1], list[i])
                   ELSE f[i - 1]
        BY <2>1, <3>1 DEF IsLoop
      <4>2. i # 0 => i - 1 \in 0..n
        BY <3>1
      <4> QED  BY <2>2, <3>1, <4>1, <4>2
    <3>2. CASE i = n + 1
      BY <2>2, <2>3, <3>2
    <3> QED  BY <3>1, <3>2
  <2>5. DOMAIN g = 0..(n + 1) /\ g = [i \in DOMAIN g |-> g[i]]
    OBVIOUS
  <2> HIDE DEF g
  <2>6. IsLoop(list, g, n + 1)
    BY <2>4, <2>5 DEF IsLoop
  <2> QED  BY <2>6
<1> HIDE DEF S
<1>3. Nat \subseteq S
  BY <1>1, <1>2, SetInduction
<1> QED  BY <1>3 DEF S

\* After n turns, result has the groups among the first n that have resources.
LEMMA LoopFacts ==
  ASSUME NEW list \in Seq(Groups), Unique(list),
         NEW f, IsLoop(list, f, Len(list)), NEW n \in 0..Len(list)
  PROVE  /\ f[n] \in Seq(Groups)
         /\ NoEmptyGroup(f[n])
         /\ \A a, b \in DOMAIN f[n] : f[n][a].type = f[n][b].type => a = b
         /\ \A a \in DOMAIN f[n] : \E m \in 1..n : f[n][a] = list[m]
         /\ \A m \in 1..n :
              list[m].resources # <<>> => \E a \in DOMAIN f[n] : f[n][a] = list[m]
<1> DEFINE Good(m) ==
      /\ f[m] \in Seq(Groups)
      /\ NoEmptyGroup(f[m])
      /\ \A a, b \in DOMAIN f[m] : f[m][a].type = f[m][b].type => a = b
      /\ \A a \in DOMAIN f[m] : \E k \in 1..m : f[m][a] = list[k]
      /\ \A k \in 1..m :
           list[k].resources # <<>> => \E a \in DOMAIN f[m] : f[m][a] = list[k]
    S == {m \in Nat : m <= Len(list) => Good(m)}
<1>1. 0 \in S
  <2>1. f[0] = <<>>
    BY DEF IsLoop
  <2>2. Good(0)
    BY <2>1 DEF NoEmptyGroup
  <2> QED  BY <2>2
<1>2. ASSUME NEW m \in Nat, m \in S PROVE m + 1 \in S
  <2> SUFFICES ASSUME m + 1 <= Len(list) PROVE Good(m + 1)
    OBVIOUS
  <2>1. Good(m)
    BY <1>2
  <2>2. f[m + 1] = IF list[m + 1].resources # <<>> THEN Append(f[m], list[m + 1])
                   ELSE f[m]
    <3>1. \A i \in 0..Len(list) :
             f[i] = IF i = 0 THEN <<>>
                    ELSE IF list[i].resources # <<>> THEN Append(f[i - 1], list[i])
                    ELSE f[i - 1]
      BY DEF IsLoop
    <3>2. m + 1 \in 0..Len(list) /\ m + 1 # 0 /\ (m + 1) - 1 = m
      OBVIOUS
    <3> QED  BY <3>1, <3>2
  <2>3. CASE list[m + 1].resources = <<>>
    BY <2>1, <2>2, <2>3
  <2>4. CASE list[m + 1].resources # <<>>
    <3> DEFINE s == f[m]
               x == list[m + 1]
               t == f[m + 1]
    <3>1. x \in Groups /\ s \in Seq(Groups) /\ t = Append(s, x)
      BY <2>1, <2>2, <2>4
    <3>2. /\ t \in Seq(Groups)
          /\ \A i \in DOMAIN s : i \in DOMAIN t /\ t[i] = s[i]
          /\ Len(s) + 1 \in DOMAIN t /\ t[Len(s) + 1] = x
          /\ \A i \in DOMAIN t : i \in DOMAIN s \/ i = Len(s) + 1
      BY <3>1, AppendFacts
    <3>3. \A a \in DOMAIN s : s[a].type # x.type
      <4> SUFFICES ASSUME NEW a \in DOMAIN s PROVE s[a].type # x.type
        OBVIOUS
      <4>1. PICK k \in 1..m : s[a] = list[k]
        BY <2>1
      <4>2. k \in DOMAIN list /\ m + 1 \in DOMAIN list /\ k # m + 1
        OBVIOUS
      <4> QED  BY <4>1, <4>2 DEF Unique
    <3> HIDE DEF s, x, t
    <3>4. NoEmptyGroup(t)
      BY <2>1, <2>4, <3>2 DEF NoEmptyGroup, s, x
    <3>5. \A a, b \in DOMAIN t : t[a].type = t[b].type => a = b
      <4>1. \A a, b \in DOMAIN s : s[a].type = s[b].type => a = b
        BY <2>1 DEF s
      <4> QED  BY <3>2, <3>3, <4>1
    <3>6. \A a \in DOMAIN t : \E k \in 1..(m + 1) : t[a] = list[k]
      <4>1. \A a \in DOMAIN s : \E k \in 1..(m + 1) : s[a] = list[k]
        BY <2>1 DEF s
      <4>2. m + 1 \in 1..(m + 1) /\ x = list[m + 1]
        BY DEF x
      <4> QED  BY <3>2, <4>1, <4>2
    <3>7. \A k \in 1..(m + 1) :
             list[k].resources # <<>> => \E a \in DOMAIN t : t[a] = list[k]
      <4>1. \A k \in 1..m : list[k].resources # <<>> => \E a \in DOMAIN s : s[a] = list[k]
        BY <2>1 DEF s
      <4>2. \A k \in 1..(m + 1) : k \in 1..m \/ k = m + 1
        OBVIOUS
      <4> QED  BY <3>2, <4>1, <4>2 DEF x
    <3> QED  BY <3>2, <3>4, <3>5, <3>6, <3>7 DEF t
  <2> QED  BY <2>3, <2>4
<1> HIDE DEF S
<1>3. n \in S
  BY <1>1, <1>2, SetInduction
<1> QED  BY <1>3 DEF S

\* Cleanup drops the empty groups and no entry.
LEMMA CleanupFacts ==
  ASSUME NEW list \in Seq(Groups), Unique(list)
  PROVE  /\ Cleanup(list) \in Seq(Groups)
         /\ Unique(Cleanup(list))
         /\ NoEmptyGroup(Cleanup(list))
         /\ EntriesIn(Cleanup(list)) = EntriesIn(list)
<1> DEFINE new == Cleanup(list)
           n == Len(list)
<1>1. PICK f : IsLoop(list, f, n) /\ new = f[n]
  BY LoopExists DEF Cleanup, IsLoop
<1>2. n \in 0..Len(list)
  OBVIOUS
<1> HIDE DEF new
<1>3. /\ new \in Seq(Groups)
      /\ NoEmptyGroup(new)
      /\ \A a, b \in DOMAIN new : new[a].type = new[b].type => a = b
      /\ \A a \in DOMAIN new : \E m \in 1..n : new[a] = list[m]
      /\ \A m \in 1..n :
           list[m].resources # <<>> => \E a \in DOMAIN new : new[a] = list[m]
  BY <1>1, <1>2, LoopFacts
<1>4. Unique(new)
  BY <1>3 DEF Unique
<1>5. ASSUME NEW g \in GVKs, NEW r \in Resources
      PROVE  Holds(new, g, r) <=> Holds(list, g, r)
  <2>1. \A i \in DOMAIN list :
           (\E k \in DOMAIN list[i].resources : list[i].resources[k] = r)
             => list[i].resources # <<>>
    OBVIOUS
  <2> QED  BY <1>3, <2>1 DEF Holds
<1>6. EntriesIn(new) \in SUBSET Entries /\ EntriesIn(list) \in SUBSET Entries
  BY <1>3, EntriesTyped
<1>7. EntriesIn(new) = EntriesIn(list)
  <2>1. \A g \in GVKs, r \in Resources :
           EntryFor(g, r) \in EntriesIn(new) <=> EntryFor(g, r) \in EntriesIn(list)
    BY <1>3, <1>5, EntriesAreHeld
  <2> QED  BY <1>6, <2>1, EntriesEqual
<1> QED  BY <1>3, <1>4, <1>7 DEF new

------------------------------------------------------------------------------
(* Invariants of a pass *)

\* Only while obsolete entries are removed may a group be empty.
Inv ==
  /\ TypeOK
  /\ Unique(memory) /\ Unique(stored)
  /\ NoEmptyGroup(stored)
  /\ step # "delete" => NoEmptyGroup(memory)

\* The references callers pass come back as the ones in the list.
LEMMA ResourceFacts ==
  /\ \A name \in Names, ref \in Refs : Resource(name, ref) \in Resources
  /\ \A e \in Entries :
       /\ e.type \in GVKs /\ Resource(e.name, RefOf(e.cluster)) \in Resources
       /\ EntryFor(e.type, Resource(e.name, RefOf(e.cluster))) = e
<1>1. ASSUME NEW name \in Names, NEW ref \in Refs PROVE Resource(name, ref) \in Resources
  BY <1>1, NamesAssumption DEF Resource, Resources, Normalized, Refs
<1>2. ASSUME NEW e \in Entries
      PROVE  /\ e.type \in GVKs /\ Resource(e.name, RefOf(e.cluster)) \in Resources
             /\ EntryFor(e.type, Resource(e.name, RefOf(e.cluster))) = e
  <2>1. e.type \in GVKs /\ e.name \in Names /\ e.cluster \in Refs
        /\ e = [type |-> e.type, name |-> e.name, cluster |-> e.cluster]
    BY DEF Entries
  <2>2. Normalized(RefOf(e.cluster)) = e.cluster
    BY <2>1, NamesAssumption DEF Normalized, RefOf, Refs
  <2> QED  BY <2>1, <2>2 DEF Resource, Resources, EntryFor
<1> QED  BY <1>1, <1>2

\* The invariant holds of the empty lists.
LEMMA InitInv == Init => Inv
  BY NamesAssumption DEF Init, Inv, TypeOK, Unique, NoEmptyGroup

\* Every step of a pass preserves the invariant.
LEMMA NextInv == Inv /\ [Next]_vars => Inv'
<1> SUFFICES ASSUME Inv, [Next]_vars PROVE Inv'
  OBVIOUS
<1> USE DEF Inv, TypeOK
<1>1. CASE UNCHANGED vars
  BY <1>1 DEF vars
<1>2. CASE ReadReplica
  BY <1>2, NamesAssumption DEF ReadReplica
<1>3. CASE BeginDeletion
  BY <1>3 DEF BeginDeletion
<1>4. CASE EndDeletion
  BY <1>4, CleanupFacts DEF EndDeletion
<1>5. CASE UpdateStatus
  BY <1>5 DEF UpdateStatus
<1>6. ASSUME NEW gvk \in GVKs, NEW name \in Names, NEW ref \in Refs,
             TrackInStatus(gvk, name, ref)
      PROVE  Inv'
  <2>1. /\ step = "create" /\ step' = step
        /\ memory' = AddRaw(memory, gvk, Resource(name, ref))
        /\ (stored' = stored \/ stored' = memory') /\ adds' \in 0..MaxAdds
    BY <1>6, NamesAssumption DEF TrackInStatus
  <2>2. Resource(name, ref) \in Resources
    BY ResourceFacts
  <2>3. memory' \in Seq(Groups) /\ Unique(memory') /\ NoEmptyGroup(memory')
    BY <2>1, <2>2, AddRawFacts
  <2> QED  BY <2>1, <2>3
<1>7. ASSUME NEW e \in EntriesIn(memory), RemoveObsolete(e)
      PROVE  Inv'
  <2>1. e \in Entries
    BY EntriesTyped
  <2> QED  BY <1>7, <2>1, ResourceFacts, RemoveRawFacts DEF RemoveObsolete
<1>8. ASSUME NEW e \in EntriesIn(memory), AddManaged(e)
      PROVE  Inv'
  <2>1. e \in Entries
    BY EntriesTyped
  <2> QED  BY <1>8, <2>1, ResourceFacts, AddRawFacts DEF AddManaged
<1> QED  BY <1>1, <1>2, <1>3, <1>4, <1>5, <1>6, <1>7, <1>8 DEF Next

\* The invariant holds throughout.
LEMMA Invariance == Spec => []Inv
  BY InitInv, NextInv, PTL DEF Spec

\* The lists keep their shape, whatever is added and removed (69-205).
THEOREM TypeCorrect == Spec => []TypeOK
<1>1. Inv => TypeOK
  BY DEF Inv
<1> QED  BY Invariance, <1>1, PTL

\* There is one group per type and one element per resource, in memory and on
\* the API server, for lists of any length (controller.go 776-777).
THEOREM ListsHaveNoDuplicates == Spec => []NoDuplicates
<1>1. Inv => NoDuplicates
  BY DEF Inv, Unique, NoDuplicates
<1> QED  BY Invariance, <1>1, PTL

\* A list on the API server has no group without resources: a list is empty
\* exactly if no copy is tracked, which is what handleDelete relies on (709).
THEOREM WrittenListsHaveNoEmptyGroup == Spec => []EmptyMeansNone
<1>1. Inv => EmptyMeansNone
  BY DEF Inv, NoEmptyGroup, EmptyMeansNone
<1> QED  BY Invariance, <1>1, PTL

------------------------------------------------------------------------------
(* The lists act as sets of entries *)

\* Empty lists are empty sets.
LEMMA InitActsAsSet == Init => ES!Init
  BY DEF Init, ES!Init, EntriesIn

\* Every step of a pass is a step, or a stutter, of the set of entries.
LEMMA NextActsAsSet ==
  Inv /\ [Next]_vars => [ES!Next]_<<EntriesIn(memory), EntriesIn(stored)>>
<1> SUFFICES ASSUME Inv, [Next]_vars
             PROVE  ES!Next \/ UNCHANGED <<EntriesIn(memory), EntriesIn(stored)>>
  OBVIOUS
<1>0. memory \in Seq(Groups) /\ stored \in Seq(Groups) /\ Unique(memory)
  BY DEF Inv, TypeOK
<1>1. CASE UNCHANGED vars
  BY <1>1 DEF vars
<1>2. CASE ReadReplica
  BY <1>2 DEF ReadReplica, ES!Next, ES!Read
<1>3. CASE BeginDeletion
  BY <1>3 DEF BeginDeletion
<1>4. CASE EndDeletion
  BY <1>0, <1>4, CleanupFacts DEF EndDeletion
<1>5. CASE UpdateStatus
  BY <1>5 DEF UpdateStatus, ES!Next, ES!Write
<1>6. ASSUME NEW gvk \in GVKs, NEW name \in Names, NEW ref \in Refs,
             TrackInStatus(gvk, name, ref)
      PROVE  ES!Next
  <2> DEFINE e == EntryFor(gvk, Resource(name, ref))
  <2>1. Resource(name, ref) \in Resources
    BY ResourceFacts
  <2>2. e \in Entries
    BY <2>1 DEF EntryFor, Resources, Entries
  <2>3. EntriesIn(memory') = EntriesIn(memory) \cup {e}
    BY <1>0, <1>6, <2>1, AddRawFacts DEF TrackInStatus
  <2>4. stored' = stored \/ stored' = memory'
    BY <1>6 DEF TrackInStatus
  <2> HIDE DEF e
  <2>5. ES!Add(e) \/ ES!Track(e)
    BY <2>3, <2>4 DEF ES!Add, ES!Track
  <2> QED  BY <2>2, <2>5 DEF ES!Next
<1>7. ASSUME NEW e \in EntriesIn(memory), RemoveObsolete(e)
      PROVE  ES!Next
  <2>1. e \in Entries
    BY <1>0, EntriesTyped
  <2>2. EntriesIn(memory') = EntriesIn(memory) \ {e} /\ stored' = stored
    BY <1>0, <1>7, <2>1, ResourceFacts, RemoveRawFacts DEF RemoveObsolete
  <2>3. ES!Remove(e)
    BY <2>2 DEF ES!Remove
  <2> QED  BY <2>1, <2>3 DEF ES!Next
<1>8. ASSUME NEW e \in EntriesIn(memory), AddManaged(e)
      PROVE  ES!Next
  <2>1. e \in Entries
    BY <1>0, EntriesTyped
  <2>2. EntriesIn(memory') = EntriesIn(memory) \cup {e} /\ stored' = stored
    BY <1>0, <1>8, <2>1, ResourceFacts, AddRawFacts DEF AddManaged
  <2>3. ES!Add(e)
    BY <2>2 DEF ES!Add
  <2> QED  BY <2>1, <2>3 DEF ES!Next
<1> QED  BY <1>1, <1>2, <1>3, <1>4, <1>5, <1>6, <1>7, <1>8 DEF Next

\* The operations on the lists act as operations on sets of entries: what
\* ReplicaController says about sets of entries holds of the lists.
THEOREM ListsActAsSets == Spec => ActsAsSet
  BY Invariance, InitActsAsSet, NextActsAsSet, PTL DEF Spec, ActsAsSet, ES!Spec
=============================================================================
