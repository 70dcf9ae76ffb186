-------------------------- MODULE ConnectionsProofs --------------------------
(***************************************************************************)
(* Proofs about HookConfig and Connections, for any agents, configurations *)
(* and paths, and any number of handlers, commands, edits and quits that   *)
(* overlap in any way.                                                     *)
(***************************************************************************)
EXTENDS Connections, FiniteSetTheorems, SequenceTheorems, WellFoundedInduction, TLAPS

(***************************************************************************)
(* Lists.  What is true of 0, and of k + 1 if of k, is true up to n.       *)
(***************************************************************************)
LEMMA UpTo ==
  ASSUME NEW n \in Nat, NEW good, 0 \in good, \A k \in 1..n : k - 1 \in good => k \in good
  PROVE  \A k \in 0..n : k \in good
<1> DEFINE bad == {k \in 0..n : k \notin good}
           R == {p \in Nat \X Nat : p[1] < p[2]}
<1>1. SUFFICES ASSUME bad # {} PROVE FALSE
  OBVIOUS
<1>2. IsWellFoundedOn(R, Nat)
  BY NatLessThanWellFounded DEF OpToRel
<1>3. bad \subseteq Nat
  OBVIOUS
<1>4. \E m \in bad : \A k \in bad : ~(<<k, m>> \in R)
  <2> HIDE DEF R, bad
  <2> QED BY <1>1, <1>2, <1>3, WFMin
<1>5. PICK m \in bad : \A k \in bad : ~(<<k, m>> \in R)
  BY <1>4
<1>6. m \in 1..n /\ m - 1 \in Nat /\ m - 1 \in 0..n /\ <<m - 1, m>> \in R
  BY <1>5
<1>7. m - 1 \in good
  BY <1>5, <1>6
<1> QED BY <1>5, <1>6, <1>7

(* What f has taken of the first n elements. *)
Filters(f, list, wanted, n) ==
  f = [k \in 0..n |-> IF k = 0 THEN <<>>
                      ELSE IF list[k] \in wanted THEN Append(f[k - 1], list[k]) ELSE f[k - 1]]

LEMMA FilterExists ==
  ASSUME NEW T, NEW list \in Seq(T), NEW wanted
  PROVE  \A n \in 0..Len(list) : \E f : Filters(f, list, wanted, n)
<1> DEFINE good == {n \in 0..Len(list) : \E f : Filters(f, list, wanted, n)}
<1>1. 0 \in good
  <2> DEFINE f == [k \in 0..0 |-> <<>>]
  <2>1. Filters(f, list, wanted, 0)
    BY DEF Filters
  <2> QED BY <2>1
<1>2. ASSUME NEW n \in 1..Len(list), n - 1 \in good PROVE n \in good
  <2>1. PICK f : Filters(f, list, wanted, n - 1)
    BY <1>2
  <2> DEFINE last == IF list[n] \in wanted THEN Append(f[n - 1], list[n]) ELSE f[n - 1]
             g == [k \in 0..n |-> IF k = n THEN last ELSE f[k]]
  <2>2. \A k \in 0..(n - 1) : g[k] = f[k] /\ k # n
    OBVIOUS
  <2>3. ASSUME NEW k \in 0..n
        PROVE  g[k] = IF k = 0 THEN <<>>
                      ELSE IF list[k] \in wanted THEN Append(g[k - 1], list[k]) ELSE g[k - 1]
    <3>1. CASE k = n
      <4>1. g[k] = last /\ n # 0 /\ g[k - 1] = f[n - 1]
        BY <2>2, <3>1
      <4> QED BY <3>1, <4>1
    <3>2. CASE k # n
      <4>1. k \in 0..(n - 1) /\ (k # 0 => k - 1 \in 0..(n - 1))
        BY <3>2
      <4>2. f[k] = IF k = 0 THEN <<>>
                   ELSE IF list[k] \in wanted THEN Append(f[k - 1], list[k]) ELSE f[k - 1]
        <5> HIDE DEF g, last
        <5> QED BY <2>1, <4>1 DEF Filters
      <4>3. g[k] = f[k] /\ (k # 0 => g[k - 1] = f[k - 1])
        BY <2>2, <4>1
      <4> HIDE DEF g
      <4> QED BY <4>2, <4>3
    <3> QED BY <3>1, <3>2
  <2>4. g = [k \in 0..n |-> g[k]]
    OBVIOUS
  <2>5. Filters(g, list, wanted, n)
    <3> HIDE DEF g
    <3> QED BY <2>3, <2>4 DEF Filters
  <2> QED BY <2>5
<1>3. Len(list) \in Nat
  OBVIOUS
<1>4. \A n \in 0..Len(list) : n \in good
  <2> HIDE DEF good
  <2> QED BY <1>1, <1>2, <1>3, UpTo
<1> QED BY <1>4

LEMMA FilteredSteps ==
  ASSUME NEW T, NEW list \in Seq(T), NEW wanted
  PROVE  \E f : /\ Filtered(list, wanted) = f[Len(list)] /\ f[0] = <<>>
                /\ \A k \in 1..Len(list) :
                     f[k] = IF list[k] \in wanted THEN Append(f[k - 1], list[k]) ELSE f[k - 1]
<1>0. Len(list) \in 0..Len(list) /\ Len(list) \in Nat
  OBVIOUS
<1>1. PICK f : Filters(f, list, wanted, Len(list))
  BY <1>0, FilterExists
<1>2. \E f1 : Filters(f1, list, wanted, Len(list)) /\ Filtered(list, wanted) = f1[Len(list)]
  BY <1>1, Zenon DEF Filtered, Filters
<1>3. PICK f1 : Filters(f1, list, wanted, Len(list)) /\ Filtered(list, wanted) = f1[Len(list)]
  BY <1>2
<1>4. \A k \in 0..Len(list) :
        f1[k] = IF k = 0 THEN <<>>
                ELSE IF list[k] \in wanted THEN Append(f1[k - 1], list[k]) ELSE f1[k - 1]
  BY <1>3 DEF Filters
<1>5. f1[0] = <<>> /\ \A k \in 1..Len(list) : k \in 0..Len(list) /\ k # 0
  BY <1>0, <1>4
<1> QED BY <1>3, <1>4, <1>5

(* Filtered leaves out what is not wanted, and nothing else. *)
LEMMA FilteredIs ==
  ASSUME NEW T, NEW list \in Seq(T), NEW wanted
  PROVE  /\ Filtered(list, wanted) \in Seq(T)
         /\ Range(Filtered(list, wanted)) = Range(list) \cap wanted
<1>1. PICK f : /\ Filtered(list, wanted) = f[Len(list)] /\ f[0] = <<>>
               /\ \A k \in 1..Len(list) :
                    f[k] = IF list[k] \in wanted THEN Append(f[k - 1], list[k]) ELSE f[k - 1]
  BY FilteredSteps
<1> DEFINE first(n) == {list[i] : i \in 1..n}
           good == {n \in 0..Len(list) : f[n] \in Seq(T) /\ Range(f[n]) = first(n) \cap wanted}
<1>0. Len(list) \in Nat
  OBVIOUS
<1>3. 0 \in good
  <2>1. Range(f[0]) = {} /\ first(0) = {} /\ f[0] \in Seq(T)
    BY <1>1 DEF Range
  <2> QED BY <1>0, <2>1
<1>4. ASSUME NEW n \in 1..Len(list), n - 1 \in good PROVE n \in good
  <2>1. PICK g : g = f[n - 1]
    OBVIOUS
  <2>2. g \in Seq(T) /\ Range(g) = first(n - 1) \cap wanted
    BY <1>4, <2>1
  <2>3. first(n) = first(n - 1) \cup {list[n]}
    OBVIOUS
  <2>4. f[n] = IF list[n] \in wanted THEN Append(g, list[n]) ELSE g
    BY <1>1, <2>1
  <2>5. list[n] \in T /\ n \in 0..Len(list)
    OBVIOUS
  <2>6. CASE list[n] \notin wanted
    <3> HIDE DEF first
    <3> QED BY <2>2, <2>3, <2>4, <2>5, <2>6
  <2>7. CASE list[n] \in wanted
    <3>1. f[n] = Append(g, list[n]) /\ f[n] \in Seq(T)
      BY <2>2, <2>4, <2>5, <2>7
    <3>2. Range(f[n]) = Range(g) \cup {list[n]}
      BY <2>2, <2>5, <3>1 DEF Range
    <3> HIDE DEF first
    <3> QED BY <2>2, <2>3, <2>5, <2>7, <3>1, <3>2
  <2> QED BY <2>6, <2>7
<1>5. \A n \in 0..Len(list) : n \in good
  <2> HIDE DEF good
  <2> QED BY <1>0, <1>3, <1>4, UpTo
<1>6. Len(list) \in good
  <2> HIDE DEF good
  <2> QED BY <1>0, <1>5
<1>7. first(Len(list)) = Range(list)
  BY DEF Range
<1> QED BY <1>1, <1>6, <1>7

(* If all of it is wanted, the list stays. *)
LEMMA FilteredAll ==
  ASSUME NEW T, NEW list \in Seq(T), NEW wanted, Range(list) \subseteq wanted
  PROVE  Filtered(list, wanted) = list
<1>0. Len(list) \in Nat /\ \A k \in 1..Len(list) : list[k] \in wanted
  BY DEF Range
<1>1. PICK f : /\ Filtered(list, wanted) = f[Len(list)] /\ f[0] = <<>>
               /\ \A k \in 1..Len(list) :
                    f[k] = IF list[k] \in wanted THEN Append(f[k - 1], list[k]) ELSE f[k - 1]
  BY FilteredSteps
<1> DEFINE good == {n \in 0..Len(list) : f[n] = SubSeq(list, 1, n)}
<1>2. 0 \in good
  <2>1. SubSeq(list, 1, 0) = <<>>
    BY SubSeqEmpty
  <2>2. f[0] = SubSeq(list, 1, 0)
    BY <1>1, <2>1, Zenon
  <2>3. 0 \in 0..Len(list)
    BY <1>0
  <2> QED BY <2>2, <2>3, Zenon
<1>3. ASSUME NEW n \in 1..Len(list), n - 1 \in good PROVE n \in good
  <2>1. f[n] = Append(SubSeq(list, 1, n - 1), list[n])
    BY <1>0, <1>1, <1>3
  <2>2. SubSeq(list, 1, n) = SubSeq(list, 1, n - 1) \o <<list[n]>>
    BY <1>0, SubSeqRecursiveSecond
  <2>3. SubSeq(list, 1, n - 1) \in Seq(T) /\ list[n] \in T
    BY <1>0, SubSeqProperties
  <2>4. Append(SubSeq(list, 1, n - 1), list[n]) = SubSeq(list, 1, n)
    BY <2>2, <2>3, AppendIsConcat
  <2> QED BY <2>1, <2>4
<1>4. \A n \in 0..Len(list) : n \in good
  <2> HIDE DEF good
  <2> QED BY <1>0, <1>2, <1>3, UpTo
<1>5. f[Len(list)] = SubSeq(list, 1, Len(list))
  <2>1. Len(list) \in good
    <3> HIDE DEF good
    <3> QED BY <1>0, <1>4
  <2> QED BY <2>1
<1>6. SubSeq(list, 1, Len(list)) = list
  OBVIOUS
<1> QED BY <1>1, <1>5, <1>6

LEMMA FilteredNothing == \A wanted : Filtered(<<>>, wanted) = <<>>
<1> SUFFICES ASSUME NEW wanted PROVE Filtered(<<>>, wanted) = <<>>
  OBVIOUS
<1>1. <<>> \in Seq({}) /\ Range(<<>>) \subseteq wanted
  BY DEF Range
<1> QED BY <1>1, FilteredAll

LEMMA FilteredAppend ==
  ASSUME NEW T, NEW list \in Seq(T), NEW x \in T, NEW wanted
  PROVE  Filtered(Append(list, x), wanted) =
           IF x \in wanted THEN Append(Filtered(list, wanted), x) ELSE Filtered(list, wanted)
<1>0. Append(list, x) \in Seq(T)
  OBVIOUS
<1>1. PICK more \in Seq(T) : more = Append(list, x)
  BY <1>0
<1>2. /\ Len(more) = Len(list) + 1 /\ more[Len(list) + 1] = x
      /\ \A i \in 1..Len(list) : more[i] = list[i]
      /\ Len(list) \in Nat
  BY <1>1
<1>3. PICK f : /\ Filtered(list, wanted) = f[Len(list)] /\ f[0] = <<>>
               /\ \A k \in 1..Len(list) :
                    f[k] = IF list[k] \in wanted THEN Append(f[k - 1], list[k]) ELSE f[k - 1]
  BY FilteredSteps
<1>4. PICK g : /\ Filtered(more, wanted) = g[Len(more)] /\ g[0] = <<>>
               /\ \A k \in 1..Len(more) :
                    g[k] = IF more[k] \in wanted THEN Append(g[k - 1], more[k]) ELSE g[k - 1]
  BY FilteredSteps
<1> DEFINE good == {n \in 0..Len(list) : g[n] = f[n]}
<1>5. 0 \in good
  BY <1>2, <1>3, <1>4
<1>6. ASSUME NEW n \in 1..Len(list), n - 1 \in good PROVE n \in good
  <2>1. g[n - 1] = f[n - 1] /\ n \in 1..Len(more) /\ n \in 0..Len(list) /\ more[n] = list[n]
    BY <1>2, <1>6
  <2> QED BY <1>3, <1>4, <2>1
<1>7. \A n \in 0..Len(list) : n \in good
  <2> HIDE DEF good
  <2> QED BY <1>2, <1>5, <1>6, UpTo
<1>8. g[Len(list)] = f[Len(list)]
  <2>1. Len(list) \in 0..Len(list)
    BY <1>2
  <2> QED BY <1>7, <2>1
<1>9. Len(more) \in 1..Len(more) /\ Len(more) - 1 = Len(list) /\ more[Len(more)] = x
  BY <1>2
<1>10. g[Len(more)] = IF x \in wanted THEN Append(g[Len(list)], x) ELSE g[Len(list)]
  BY <1>4, <1>9
<1> QED BY <1>1, <1>3, <1>4, <1>8, <1>10
-----------------------------------------------------------------------------
(***************************************************************************)
(* HookConfig: what merging and removing Memora's hooks make of a          *)
(* configuration.                                                          *)
(***************************************************************************)
Theirs == SUBSET {User}
Groups == Seq(SUBSET Handler)

LEMMA NotMemorasFilters == \A groups : NotMemoras(groups) = Filtered(groups, Theirs)
<1>1. {h \in Handler : ~isMemoraHandler(h)} = {User}
  BY DEF Handler, isMemoraHandler
<1> QED BY <1>1 DEF NotMemoras, Theirs

LEMMA NotMemorasNothing == NotMemoras(<<>>) = <<>>
  BY NotMemorasFilters, FilteredNothing

LEMMA NotMemorasIs ==
  ASSUME NEW groups \in Groups
  PROVE  /\ NotMemoras(groups) \in Groups
         /\ Range(NotMemoras(groups)) = Range(groups) \cap Theirs
         /\ NotMemoras(NotMemoras(groups)) = NotMemoras(groups)
<1>1. /\ NotMemoras(groups) \in Groups
      /\ Range(NotMemoras(groups)) = Range(groups) \cap Theirs
  BY NotMemorasFilters, FilteredIs DEF Groups
<1>2. NotMemoras(NotMemoras(groups)) = NotMemoras(groups)
  BY <1>1, NotMemorasFilters, FilteredAll DEF Groups
<1> QED BY <1>1, <1>2

LEMMA NotMemorasAll ==
  ASSUME NEW groups \in Groups
  PROVE  NotMemoras(groups) = groups <=> Range(groups) \subseteq Theirs
<1>1. Range(groups) \subseteq Theirs => NotMemoras(groups) = groups
  BY NotMemorasFilters, FilteredAll DEF Groups
<1> QED BY <1>1, NotMemorasIs

LEMMA NotMemorasAppend ==
  ASSUME NEW groups \in Groups, NEW group \in SUBSET Handler
  PROVE  NotMemoras(Append(groups, group)) =
           IF group \in Theirs THEN Append(NotMemoras(groups), group) ELSE NotMemoras(groups)
  BY NotMemorasFilters, FilteredAppend DEF Groups

LEMMA GroupsAre ==
  ASSUME NEW c, Configuration(c, Handler), NEW event PROVE GroupsOf(c, event) \in Groups
  BY DEF Configuration, GroupsOf, Groups

(* Where Memora has one group at the end, one handler of its own is found. *)
LEMMA OneHandler ==
  ASSUME NEW groups \in Groups, Range(groups) \subseteq Theirs, NEW cli \in CliPath,
         NEW c, NEW event, GroupsOf(c, event) = Append(groups, {cli})
  PROVE  Handlers(c, event) = {<<Len(groups) + 1, cli>>}
<1>0. cli # User /\ cli \in Handler /\ isMemoraHandler(cli)
  BY PathAssumption DEF Handler, isMemoraHandler
<1>1. PICK all : all = Append(groups, {cli})
  OBVIOUS
<1>2. /\ DOMAIN all = 1..(Len(groups) + 1) /\ all[Len(groups) + 1] = {cli}
      /\ \A i \in 1..Len(groups) : all[i] = groups[i]
      /\ Len(groups) \in Nat
  BY <1>1 DEF Groups
<1>3. \A i \in 1..Len(groups) : groups[i] \in Theirs
  BY DEF Range, Groups
<1>4. Handlers(c, event) =
        {spot \in (DOMAIN all) \X Handler : spot[2] \in all[spot[1]] /\ isMemoraHandler(spot[2])}
  BY <1>1 DEF Handlers
<1>5. ASSUME NEW i \in DOMAIN all, NEW h \in Handler, h \in all[i], isMemoraHandler(h)
      PROVE  i = Len(groups) + 1 /\ h = cli
  <2>1. i \notin 1..Len(groups)
    BY <1>2, <1>3, <1>5 DEF Theirs, isMemoraHandler
  <2> QED BY <1>2, <1>5, <2>1
<1>6. Len(groups) + 1 \in DOMAIN all
  BY <1>2
<1> QED BY <1>0, <1>2, <1>4, <1>5, <1>6

(***************************************************************************)
(* mergeMemoraHooks (hookConfig.ts:52) leaves the groups without a handler *)
(* of Memora's as they were, and one handler of Memora's for every event   *)
(* that the adapter expects, whatever was in the configuration.            *)
(***************************************************************************)
LEMMA MergedIs ==
  ASSUME NEW c, Configuration(c, Handler), NEW cli \in CliPath
  PROVE  /\ Configuration(mergeMemoraHooks(c, cli), Handler)
         /\ removeMemoraHooks(mergeMemoraHooks(c, cli)) = removeMemoraHooks(c)
         /\ Valid(mergeMemoraHooks(c, cli), cli)
<1> DEFINE m == mergeMemoraHooks(c, cli)
<1>0. {cli} \in SUBSET Handler /\ {cli} \notin Theirs
  BY PathAssumption DEF Handler, Theirs
<1>1. /\ DOMAIN m = DOMAIN c \cup Expected /\ m = [event \in DOMAIN m |-> m[event]]
      /\ \A event \in Expected : m[event] = Append(NotMemoras(GroupsOf(c, event)), {cli})
      /\ \A event \in DOMAIN c \ Expected : m[event] = c[event]
  BY DEF mergeMemoraHooks
<1> HIDE DEF m
<1>2. \A event : /\ GroupsOf(c, event) \in Groups /\ NotMemoras(GroupsOf(c, event)) \in Groups
                 /\ Range(NotMemoras(GroupsOf(c, event))) \subseteq Theirs
                 /\ NotMemoras(NotMemoras(GroupsOf(c, event))) = NotMemoras(GroupsOf(c, event))
  BY GroupsAre, NotMemorasIs
<1>3. Configuration(m, Handler)
  <2>1. ASSUME NEW event \in DOMAIN m PROVE m[event] \in Seq(SUBSET Handler)
    <3>1. CASE event \in Expected
      BY <1>0, <1>1, <1>2, <3>1 DEF Groups
    <3>2. CASE event \notin Expected
      BY <1>1, <3>2 DEF Configuration
    <3> QED BY <3>1, <3>2
  <2> QED BY <1>1, <2>1 DEF Configuration
<1>4. \A event \in Expected : NotMemoras(m[event]) = NotMemoras(GroupsOf(c, event))
  <2> TAKE event \in Expected
  <2>1. PICK kept \in Groups : kept = NotMemoras(GroupsOf(c, event))
    BY <1>2
  <2>2. NotMemoras(Append(kept, {cli})) = NotMemoras(kept)
    BY <1>0, NotMemorasAppend
  <2> QED BY <1>1, <1>2, <2>1, <2>2
<1>5. removeMemoraHooks(m) = removeMemoraHooks(c)
  <2>1. \A event \in DOMAIN c : GroupsOf(c, event) = c[event]
    BY DEF GroupsOf
  <2>2. \A event : event \notin DOMAIN c => NotMemoras(GroupsOf(c, event)) = <<>>
    BY NotMemorasNothing DEF GroupsOf
  <2>3. \A event \in DOMAIN c : NotMemoras(m[event]) = NotMemoras(c[event])
    BY <1>1, <1>4, <2>1
  <2>4. {e \in DOMAIN m : NotMemoras(m[e]) # <<>>} = {e \in DOMAIN c : NotMemoras(c[e]) # <<>>}
    BY <1>1, <1>4, <2>2, <2>3
  <2> QED BY <2>3, <2>4 DEF removeMemoraHooks
<1>6. Valid(m, cli)
  <2>1. ASSUME NEW event \in Expected
        PROVE  \E spot : Handlers(m, event) = {spot} /\ spot[2] = cli
    <3>1. GroupsOf(m, event) = Append(NotMemoras(GroupsOf(c, event)), {cli})
      BY <1>1 DEF GroupsOf
    <3>2. Handlers(m, event) = {<<Len(NotMemoras(GroupsOf(c, event))) + 1, cli>>}
      BY <1>2, <3>1, OneHandler
    <3>3. \A n : <<n, cli>>[2] = cli
      OBVIOUS
    <3> QED BY <3>2, <3>3, Zenon
  <2> QED BY <2>1, FS_Singleton DEF Valid
<1> QED BY <1>3, <1>5, <1>6 DEF m

LEMMA RemovedIs ==
  ASSUME NEW c, Configuration(c, Handler)
  PROVE  /\ Configuration(removeMemoraHooks(c), Handler)
         /\ removeMemoraHooks(removeMemoraHooks(c)) = removeMemoraHooks(c)
<1> DEFINE r == removeMemoraHooks(c)
<1>1. /\ DOMAIN r = {e \in DOMAIN c : NotMemoras(c[e]) # <<>>} /\ r = [event \in DOMAIN r |-> r[event]]
      /\ \A event \in DOMAIN r : r[event] = NotMemoras(c[event])
  BY DEF removeMemoraHooks
<1> HIDE DEF r
<1>2. \A event \in DOMAIN c : c[event] \in Groups
  BY DEF Configuration, Groups
<1>3. Configuration(r, Handler)
  BY <1>1, <1>2, NotMemorasIs DEF Configuration, Groups
<1>4. \A event \in DOMAIN r : NotMemoras(r[event]) = r[event] /\ r[event] # <<>>
  BY <1>1, <1>2, NotMemorasIs
<1>5. removeMemoraHooks(r) = r
  <2>1. {e \in DOMAIN r : NotMemoras(r[e]) # <<>>} = DOMAIN r
    BY <1>4
  <2>2. removeMemoraHooks(r) = [event \in DOMAIN r |-> NotMemoras(r[event])]
    BY <2>1 DEF removeMemoraHooks
  <2>3. [event \in DOMAIN r |-> NotMemoras(r[event])] = [event \in DOMAIN r |-> r[event]]
    BY <1>4
  <2> QED BY <1>1, <2>2, <2>3
<1> QED BY <1>3, <1>5 DEF r

(* A configuration without a handler of Memora's. *)
LEMMA CleanIs ==
  ASSUME NEW c, Configuration(c, Handler)
  PROVE  removeMemoraHooks(c) = c
         <=> \A event \in DOMAIN c : Range(c[event]) \subseteq Theirs /\ c[event] # <<>>
<1>0. \A event \in DOMAIN c : c[event] \in Groups
  BY DEF Configuration, Groups
<1>1. ASSUME removeMemoraHooks(c) = c, NEW event \in DOMAIN c
      PROVE  Range(c[event]) \subseteq Theirs /\ c[event] # <<>>
  <2>1. DOMAIN c = {e \in DOMAIN c : NotMemoras(c[e]) # <<>>}
    BY <1>1 DEF removeMemoraHooks
  <2>2. c[event] = NotMemoras(c[event])
    BY <1>1, <2>1 DEF removeMemoraHooks
  <2> QED BY <1>0, <2>1, <2>2, NotMemorasAll
<1>2. ASSUME \A event \in DOMAIN c : Range(c[event]) \subseteq Theirs /\ c[event] # <<>>
      PROVE  removeMemoraHooks(c) = c
  <2>1. \A event \in DOMAIN c : NotMemoras(c[event]) = c[event]
    BY <1>0, <1>2, NotMemorasAll
  <2>2. {e \in DOMAIN c : NotMemoras(c[e]) # <<>>} = DOMAIN c
    BY <1>2, <2>1
  <2>3. [event \in DOMAIN c |-> NotMemoras(c[event])] = [event \in DOMAIN c |-> c[event]]
    BY <2>1
  <2> QED BY <2>2, <2>3 DEF removeMemoraHooks, Configuration
<1> QED BY <1>1, <1>2

LEMMA UsersAreClean ==
  ASSUME NEW c, Configuration(c, {User}), \A event \in DOMAIN c : c[event] # <<>>
  PROVE  Configuration(c, Handler) /\ removeMemoraHooks(c) = c
<1>1. Configuration(c, Handler)
  <2>1. ASSUME NEW event \in DOMAIN c PROVE c[event] \in Seq(SUBSET Handler)
    <3>1. c[event] \in Seq(SUBSET {User}) /\ SUBSET {User} \subseteq SUBSET Handler
      BY DEF Configuration, Handler
    <3> QED BY <3>1
  <2> QED BY <2>1 DEF Configuration
<1>2. \A event \in DOMAIN c : Range(c[event]) \subseteq Theirs
  BY DEF Configuration, Range, Theirs
<1> QED BY <1>1, <1>2, CleanIs
-----------------------------------------------------------------------------
(***************************************************************************)
(* What the user's edits make of a configuration: a group that is put      *)
(* beside Memora's, or a handler into Memora's group, changes none of      *)
(* Memora's handlers.                                                      *)
(***************************************************************************)
Spots(groups) ==
  {spot \in (DOMAIN groups) \X Handler : spot[2] \in groups[spot[1]] /\ isMemoraHandler(spot[2])}

LEMMA BesideIs ==
  ASSUME NEW groups \in Groups
  PROVE  /\ Beside(groups) \in Groups /\ Beside(groups) # <<>>
         /\ Range(Beside(groups)) = Range(groups) \cup {{User}}
         /\ Spots(Beside(groups)) = Spots(groups)
<1>1. PICK more : more = Append(groups, {User})
  OBVIOUS
<1>2. {User} \in SUBSET Handler
  BY DEF Handler
<1>3. /\ more \in Groups /\ more # <<>> /\ DOMAIN more = 1..(Len(groups) + 1)
      /\ DOMAIN groups = 1..Len(groups) /\ Len(groups) \in Nat
      /\ more[Len(groups) + 1] = {User} /\ \A i \in 1..Len(groups) : more[i] = groups[i]
  BY <1>1, <1>2 DEF Groups
<1>4. Range(more) = Range(groups) \cup {{User}}
  <2>1. \A i \in DOMAIN more : more[i] = {User} \/ (i \in DOMAIN groups /\ more[i] = groups[i])
    BY <1>3
  <2>2. \A i \in DOMAIN groups : i \in DOMAIN more /\ more[i] = groups[i]
    BY <1>3
  <2>3. Len(groups) + 1 \in DOMAIN more
    BY <1>3
  <2> QED BY <1>3, <2>1, <2>2, <2>3, Zenon DEF Range
<1>5. \A i \in DOMAIN more, h \in Handler :
        h \in more[i] /\ isMemoraHandler(h) => i \in DOMAIN groups /\ h \in groups[i]
  BY <1>3 DEF isMemoraHandler
<1>6. \A i \in DOMAIN groups : i \in DOMAIN more /\ more[i] = groups[i]
  BY <1>3
<1>7. Spots(more) = Spots(groups)
  BY <1>5, <1>6 DEF Spots
<1> QED BY <1>1, <1>3, <1>4, <1>7 DEF Beside

LEMMA AmongIs ==
  ASSUME NEW groups \in Groups
  PROVE  /\ Among(groups) \in Groups /\ Spots(Among(groups)) = Spots(groups)
         /\ Range(groups) \subseteq Theirs => Among(groups) = groups
<1>1. \A i \in DOMAIN groups : groups[i] \in SUBSET Handler
  BY DEF Groups
<1>2. ASSUME NEW group \in SUBSET Handler
      PROVE  NotMemoras(<<group>>) = <<>> <=> group \notin Theirs
  <2>1. <<>> \in Groups /\ <<group>> = Append(<<>>, group) /\ <<group>> # <<>>
    BY DEF Groups
  <2>2. NotMemoras(<<group>>) = IF group \in Theirs THEN <<group>> ELSE <<>>
    BY <2>1, NotMemorasAppend, NotMemorasNothing
  <2> QED BY <2>1, <2>2
<1>3. Among(groups) = [i \in DOMAIN groups |->
                         IF groups[i] \notin Theirs THEN groups[i] \cup {User} ELSE groups[i]]
  BY <1>1, <1>2 DEF Among
<1>4. User \in Handler
  BY DEF Handler
<1>5. Among(groups) \in Groups
  <2>1. DOMAIN groups = 1..Len(groups) /\ Len(groups) \in Nat
    BY DEF Groups
  <2>2. \A i \in DOMAIN groups : Among(groups)[i] \in SUBSET Handler
    BY <1>1, <1>3, <1>4
  <2>3. DOMAIN Among(groups) = 1..Len(groups)
    BY <1>3, <2>1
  <2>4. Among(groups) \in [1..Len(groups) -> SUBSET Handler]
    BY <1>3, <2>1, <2>2, <2>3
  <2> QED BY <2>1, <2>4 DEF Groups
<1>6. Spots(Among(groups)) = Spots(groups)
  BY <1>3 DEF Spots, isMemoraHandler
<1>7. ASSUME Range(groups) \subseteq Theirs PROVE Among(groups) = groups
  <2>1. \A i \in DOMAIN groups : groups[i] \in Theirs
    BY <1>7 DEF Range
  <2>2. groups = [i \in DOMAIN groups |-> groups[i]]
    BY DEF Groups
  <2> QED BY <1>3, <2>1, <2>2
<1> QED BY <1>5, <1>6, <1>7

LEMMA EditedIs ==
  ASSUME NEW c, Configuration(c, Handler), NEW event, NEW d, NEW edited,
         edited \in {Beside(GroupsOf(c, event)), Among(GroupsOf(c, event)),
                     NotMemoras(GroupsOf(c, event))} \ {GroupsOf(c, event)},
         d = [e \in DOMAIN c \cup {event} |-> IF e = event THEN edited ELSE c[e]]
  PROVE  /\ Configuration(d, Handler)
         /\ edited # NotMemoras(GroupsOf(c, event)) =>
              /\ \A cli \in CliPath : Valid(c, cli) => Valid(d, cli)
              /\ removeMemoraHooks(c) = c => removeMemoraHooks(d) = d
<1>1. PICK groups \in Groups : groups = GroupsOf(c, event)
  BY GroupsAre
<1>2. edited \in Groups
  BY <1>1, BesideIs, AmongIs, NotMemorasIs
<1>3. /\ DOMAIN d = DOMAIN c \cup {event} /\ d[event] = edited
      /\ \A e \in DOMAIN c \ {event} : d[e] = c[e]
      /\ d = [e \in DOMAIN d |-> d[e]]
  OBVIOUS
<1>4. Configuration(d, Handler)
  BY <1>2, <1>3 DEF Configuration, Groups
<1>5. ASSUME edited # NotMemoras(groups), NEW cli \in CliPath, Valid(c, cli) PROVE Valid(d, cli)
  <2>1. Spots(edited) = Spots(groups)
    BY <1>1, <1>5, BesideIs, AmongIs
  <2>2. \A e : e # event => GroupsOf(d, e) = GroupsOf(c, e)
    BY <1>3 DEF GroupsOf
  <2>3. GroupsOf(d, event) = edited
    BY <1>3 DEF GroupsOf
  <2>4. \A e : Handlers(d, e) = Spots(GroupsOf(d, e)) /\ Handlers(c, e) = Spots(GroupsOf(c, e))
    BY DEF Handlers, Spots
  <2>5. \A e : Handlers(d, e) = Handlers(c, e)
    BY <1>1, <2>1, <2>2, <2>3, <2>4
  <2> QED BY <1>5, <2>5 DEF Valid
<1>6. ASSUME edited # NotMemoras(groups), removeMemoraHooks(c) = c PROVE removeMemoraHooks(d) = d
  <2>1. \A e \in DOMAIN c : Range(c[e]) \subseteq Theirs /\ c[e] # <<>>
    BY <1>6, CleanIs
  <2>2. Range(groups) \subseteq Theirs
    <3>1. Range(<<>>) = {}
      BY DEF Range
    <3> QED BY <1>1, <2>1, <3>1 DEF GroupsOf
  <2>3. edited = Beside(groups)
    BY <1>1, <1>6, <2>2, AmongIs
  <2>4. Range(edited) \subseteq Theirs /\ edited # <<>>
    BY <2>2, <2>3, BesideIs DEF Theirs
  <2>5. \A e \in DOMAIN d : Range(d[e]) \subseteq Theirs /\ d[e] # <<>>
    BY <1>3, <2>1, <2>4
  <2> QED BY <1>4, <2>5, CleanIs
<1> QED BY <1>1, <1>4, <1>5, <1>6
-----------------------------------------------------------------------------
(***************************************************************************)
(* The settings: what is read is complete, and a write sets its fields.    *)
(***************************************************************************)
FieldNames ==
  {"onboarding_complete", "automatic_terminal_agents", "last_diagnostics", "reading_level"}

LEMMA SettingsAre ==
  ASSUME NEW s
  PROVE  s \in Settings <=>
           /\ s = [field \in FieldNames |-> s[field]]
           /\ s.onboarding_complete \in BOOLEAN /\ s.automatic_terminal_agents \subseteq Provider
           /\ s.last_diagnostics \in Diagnoses /\ s.reading_level \in Level
  BY DEF Settings, FieldNames

LEMMA FieldsAre ==
  ASSUME NEW f \in Fields
  PROVE  /\ "onboarding_complete" \in DOMAIN f => f.onboarding_complete \in BOOLEAN
         /\ "automatic_terminal_agents" \in DOMAIN f => f.automatic_terminal_agents \subseteq Provider
         /\ "last_diagnostics" \in DOMAIN f => /\ f.last_diagnostics \in Diagnoses
                                               /\ DOMAIN f = {"last_diagnostics"}
         /\ "reading_level" \in DOMAIN f => f.reading_level \in Level
<1>1. CASE f \in [onboarding_complete : {TRUE}, automatic_terminal_agents : SUBSET Provider]
  BY <1>1
<1>2. CASE f \in [last_diagnostics : Diagnoses]
  BY <1>2
<1>3. CASE f \in [reading_level : Level]
  BY <1>3
<1> QED BY <1>1, <1>2, <1>3 DEF Fields

LEMMA FirstIsProvider == terminalAdapters[1] \in Provider
  BY ConnectionsAssumption DEF Provider, Range

LEMMA DefaultsAre ==
  /\ defaultIntegrationSettings \in Settings
  /\ defaultIntegrationSettings.automatic_terminal_agents = {}
<1>1. [p \in Provider |-> "none"] \in Diagnoses
  BY DEF Diagnoses
<1> QED BY <1>1, ConnectionsAssumption DEF defaultIntegrationSettings, Settings

LEMMA StoredAre ==
  /\ \A s \in Settings : normalizeIntegrationSettings(s) = s /\ s \notin {None, Torn}
  /\ normalizeIntegrationSettings(Older) \in Settings /\ Older \notin {None, Torn}
  /\ normalizeIntegrationSettings(Older).automatic_terminal_agents = {terminalAdapters[1]}
<1>1. DOMAIN defaultIntegrationSettings = FieldNames
  BY DEF defaultIntegrationSettings, FieldNames
<1>2. ASSUME NEW s \in Settings PROVE normalizeIntegrationSettings(s) = s
  <2>1. s = [field \in FieldNames |-> s[field]] /\ DOMAIN s = FieldNames
    BY SettingsAre
  <2>2. normalizeIntegrationSettings(s) = [field \in FieldNames |-> s[field]]
    BY <1>1, <2>1 DEF normalizeIntegrationSettings
  <2> QED BY <2>1, <2>2
<1>3. \A s \in {None, Torn} : s \notin Settings /\ s # Older
  BY ApartAssumption
<1>4. DOMAIN Older = {"onboarding_complete", "automatic_terminal_agents"}
      /\ Older.onboarding_complete = TRUE /\ Older.automatic_terminal_agents = {terminalAdapters[1]}
  BY DEF Older
<1> DEFINE n == normalizeIntegrationSettings(Older)
           d == defaultIntegrationSettings
<1>5. /\ n = [field \in FieldNames |-> n[field]]
      /\ n.onboarding_complete = TRUE /\ n.automatic_terminal_agents = {terminalAdapters[1]}
      /\ n.last_diagnostics = d.last_diagnostics /\ n.reading_level = d.reading_level
  <2> HIDE DEF d
  <2>1. n = [field \in FieldNames |-> IF field \in DOMAIN Older THEN Older[field] ELSE d[field]]
    BY <1>1 DEF normalizeIntegrationSettings, d
  <2> HIDE DEF n
  <2> QED BY <1>4, <2>1 DEF FieldNames
<1>6. n \in Settings
  <2>1. d.last_diagnostics \in Diagnoses /\ d.reading_level \in Level
    BY DefaultsAre, SettingsAre
  <2> HIDE DEF d, n
  <2> QED BY <1>5, <2>1, FirstIsProvider, SettingsAre
<1> QED BY <1>2, <1>3, <1>5, <1>6

LEMMA MergedSettings ==
  ASSUME NEW s \in Settings, NEW f \in Fields
  PROVE  /\ mergeIntegrationSettings(s, f) \in Settings
         /\ mergeIntegrationSettings(s, f).automatic_terminal_agents =
              IF "automatic_terminal_agents" \in DOMAIN f THEN f.automatic_terminal_agents
                                                          ELSE s.automatic_terminal_agents
<1> DEFINE m == mergeIntegrationSettings(s, f)
<1>1. DOMAIN s = FieldNames
  BY SettingsAre
<1>2. m = [field \in FieldNames |-> IF field \in DOMAIN f THEN f[field] ELSE s[field]]
  BY <1>1 DEF mergeIntegrationSettings
<1>3. /\ m = [field \in FieldNames |-> m[field]]
      /\ \A field \in FieldNames : m[field] = IF field \in DOMAIN f THEN f[field] ELSE s[field]
  <2> HIDE DEF m
  <2> QED BY <1>2
<1>4. m \in Settings
  <2> HIDE DEF m
  <2>2. /\ m.onboarding_complete =
             IF "onboarding_complete" \in DOMAIN f THEN f.onboarding_complete ELSE s.onboarding_complete
        /\ m.automatic_terminal_agents =
             IF "automatic_terminal_agents" \in DOMAIN f THEN f.automatic_terminal_agents
                                                         ELSE s.automatic_terminal_agents
        /\ m.last_diagnostics =
             IF "last_diagnostics" \in DOMAIN f THEN f.last_diagnostics ELSE s.last_diagnostics
        /\ m.reading_level = IF "reading_level" \in DOMAIN f THEN f.reading_level ELSE s.reading_level
    BY <1>3 DEF FieldNames
  <2>1. /\ m.onboarding_complete \in BOOLEAN /\ m.automatic_terminal_agents \subseteq Provider
        /\ m.last_diagnostics \in Diagnoses /\ m.reading_level \in Level
    BY <2>2, FieldsAre, SettingsAre
  <2> QED BY <1>3, <2>1, SettingsAre
<1>5. "automatic_terminal_agents" \in FieldNames
  BY DEF FieldNames
<1> HIDE DEF m
<1> QED BY <1>3, <1>4, <1>5 DEF m

(* The settings as meant by a write, and the settings it writes over them. *)
LEMMA MeantIsMerged ==
  ASSUME NEW s \in Settings, NEW f \in Fields, "last_diagnostics" \notin DOMAIN f
  PROVE  [field \in DOMAIN s |-> IF field \in DOMAIN f THEN f[field] ELSE s[field]]
           = mergeIntegrationSettings(s, f)
  BY DEF mergeIntegrationSettings

LEMMA NotedIsMerged ==
  ASSUME NEW s \in Settings, NEW f \in Fields, "last_diagnostics" \in DOMAIN f, NEW p \in Provider
  PROVE  LET noted == [s EXCEPT !.last_diagnostics[p] = f.last_diagnostics[p]] IN
         /\ noted \in Settings
         /\ noted.automatic_terminal_agents = s.automatic_terminal_agents
         /\ (\A q \in Provider \ {p} : f.last_diagnostics[q] = s.last_diagnostics[q]) =>
              noted = mergeIntegrationSettings(s, f)
<1> DEFINE noted == [s EXCEPT !.last_diagnostics[p] = f.last_diagnostics[p]]
           told == [s.last_diagnostics EXCEPT ![p] = f.last_diagnostics[p]]
<1>1. DOMAIN f = {"last_diagnostics"} /\ f.last_diagnostics \in Diagnoses
  BY FieldsAre
<1>2. s = [field \in FieldNames |-> s[field]] /\ s.last_diagnostics \in Diagnoses
  BY SettingsAre
<1>3. told \in Diagnoses
  BY <1>1, <1>2 DEF Diagnoses
<1>4. noted = [field \in FieldNames |-> IF field = "last_diagnostics" THEN told ELSE s[field]]
  BY <1>2 DEF FieldNames
<1>5. /\ noted = [field \in FieldNames |-> noted[field]] /\ noted.last_diagnostics = told
      /\ noted.automatic_terminal_agents = s.automatic_terminal_agents
      /\ noted.onboarding_complete = s.onboarding_complete /\ noted.reading_level = s.reading_level
  <2> HIDE DEF noted, told
  <2> QED BY <1>4 DEF FieldNames
<1>6. noted \in Settings
  <2> HIDE DEF noted, told
  <2> QED BY <1>3, <1>5, SettingsAre
<1>7. ASSUME \A q \in Provider \ {p} : f.last_diagnostics[q] = s.last_diagnostics[q]
      PROVE  noted = mergeIntegrationSettings(s, f)
  <2>1. told = f.last_diagnostics
    BY <1>1, <1>2, <1>7 DEF Diagnoses
  <2>2. mergeIntegrationSettings(s, f) =
          [field \in FieldNames |-> IF field = "last_diagnostics" THEN f.last_diagnostics ELSE s[field]]
    BY <1>1, <1>2 DEF mergeIntegrationSettings
  <2> HIDE DEF noted, told
  <2> QED BY <1>4, <2>1, <2>2
<1> QED BY <1>5, <1>6, <1>7
-----------------------------------------------------------------------------
(***************************************************************************)
(* The inductive invariant: first, what a call has in hand, by what it     *)
(* does next.                                                              *)
(***************************************************************************)
CallType ==
  [kind : {"configure"}, selected : SUBSET Provider] \cup [kind : {"diagnose"}, provider : Provider]
  \cup [kind : {"level"}, level : Level] \cup [kind : {"unwrap"}]
  \cup [kind : {"uninstall"}, provider : Provider, cli : {None}]
  \cup [kind : {"install"}, provider : Provider, cli : CliPath]

Replacing(i) == at[i] \in {"empty config", "fill config"}
Setting(i) == at[i] \in {"merge", "truncate", "write"}
Diagnosing(i) == Setting(i) /\ "last_diagnostics" \in DOMAIN patch[i]
Settling(i) == Setting(i) /\ "automatic_terminal_agents" \in DOMAIN patch[i]
HasStatus(i) == at[i] = "note" \/ (at[i] = "merge" /\ Diagnosing(i))

InHand(i) ==
  /\ at[i] \notin {"new", "stopped"} => calls[i] \in CallType
  /\ at[i] \in {"previous", "shell", "rc", "hooks", "editors"} \/ Settling(i) => calls[i].kind = "configure"
  /\ at[i] = "editors" => left[i] = <<>>
  /\ at[i] = "read config" \/ Rewriting(i) => calls[i].kind \in {"configure", "install", "uninstall"}
  /\ at[i] \in {"read config", "diagnose", "note"} \/ Rewriting(i) \/ Diagnosing(i) => left[i] # <<>>
  /\ Setting(i) => patch[i] \in Fields
  /\ ~Setting(i) => patch[i] = None
  /\ Rewriting(i) => Configuration(base[i], Handler)
  /\ HasStatus(i) => base[i] \in {"ready", "needs_attention"}
  /\ at[i] \in {"truncate", "write"} => base[i] \in Settings
  /\ ~Rewriting(i) /\ ~HasStatus(i) /\ at[i] \notin {"truncate", "write"} => base[i] = None
  /\ at[i] \in {"strip", "disable"} => "unwrapped" \in trouble

Memory ==
  /\ calls = [i \in Call |-> calls[i]] /\ users = [p \in Provider |-> users[p]]
  /\ base = [i \in Call |-> base[i]] /\ patch = [i \in Call |-> patch[i]]

(***************************************************************************)
(* While writes neither overlap nor are torn, one is under way at most; it *)
(* has read all that was asked before it, and a diagnosis changes the      *)
(* status of its own agent only.                                           *)
(***************************************************************************)
InTurn == trouble \cap {"clash", "torn"} = {}

InOrder ==
  InTurn =>
    /\ \A i, j \in Call : Writing(i) /\ Writing(j) => i = j
    /\ settings # Torn => readIntegrationSettings = asked
    /\ \A i \in Call : at[i] \in {"truncate", "write"} => base[i] = asked
    /\ \A i \in Call : Diagnosing(i) =>
         \A q \in Provider \ {Head(left[i])} :
           patch[i].last_diagnostics[q] = asked.last_diagnostics[q]

(***************************************************************************)
(* The user's groups are in the configurations, in those that are being    *)
(* rewritten, and in the copy of what has been or is about to be emptied.  *)
(***************************************************************************)
UsersKept ==
  "raced" \notin trouble =>
    /\ \A p \in Provider : removeMemoraHooks(config[p]) = users[p]
    /\ \A p \in emptied : removeMemoraHooks(saved[p]) = users[p]
    /\ \A i \in Call : Rewriting(i) => removeMemoraHooks(base[i]) = users[Head(left[i])]
    /\ \A i \in Call : Replacing(i) =>
         removeMemoraHooks(saved[Head(left[i])]) = users[Head(left[i])]

(***************************************************************************)
(* While no configuration is rewritten twice at a time, that copy is       *)
(* whole: what is emptied cannot be read, and so is not copied over it.    *)
(***************************************************************************)
CopiesKept ==
  "mingled" \notin trouble =>
    /\ emptied \cap miscopied = {}
    /\ \A i, j \in Call : Rewriting(i) /\ Rewriting(j) /\ Head(left[i]) = Head(left[j]) => i = j
    /\ \A i \in Call : Replacing(i) => Head(left[i]) \notin miscopied
    /\ \A i \in Call : Rewriting(i) /\ at[i] # "fill config" => Head(left[i]) \notin emptied

(***************************************************************************)
(* While nothing fails or overlaps: one connection is being configured at  *)
(* most.  Before it begins and after it has set the settings, hooks and    *)
(* wrapper are as the settings say; on the way, those of the agents it has *)
(* seen to are as selected, and of the others none has hooks that was not  *)
(* connected before.  Other rewrites are of agents the user sees to.       *)
(***************************************************************************)
Untroubled == trouble \subseteq {"raced", "unwrapped"}

Connecting(i) == Active(i) /\ calls[i].kind = "configure"

Installing(i) ==
  /\ at[i] \in {"rc", "hooks", "read config", "editors"} \/ Rewriting(i)
  /\ calls[i].kind = "configure"

ByHand(i) == at[i] = "read config" \/ Rewriting(i) => calls[i].kind = "configure" \/ Head(left[i]) \in byHand

Clean(p) == removeMemoraHooks(config[p]) = config[p]
Right(p, agents) == IF p \in agents THEN Valid(config[p], cliScript) ELSE Clean(p)
AsSelected(agents) == wrapper \subseteq agents /\ \A p \in Provider \ byHand : Right(p, agents)

OneAtATime ==
  Untroubled =>
    /\ \A i, j \in Call : Connecting(i) /\ Connecting(j) => i = j
    /\ settings = Torn => \E i \in Call : at[i] = "write"
    /\ \A i \in Call : ByHand(i)

(* What is emptied is about to be filled. *)
Filling ==
  Untroubled =>
    /\ \A p \in emptied \ byHand : \E i \in Call : at[i] = "fill config" /\ Head(left[i]) = p
    /\ \A i \in Call : at[i] = "fill config" => Head(left[i]) \in emptied \cup byHand

OnTheWay(i) ==
  /\ wrapper \subseteq calls[i].selected
  /\ \A p \in Provider \ byHand :
       IF p \in Range(left[i]) THEN p \notin calls[i].selected \cup previous[i] => Clean(p)
                               ELSE Right(p, calls[i].selected)

Connected ==
  Untroubled =>
    /\ \A i \in Call : at[i] = "shell" => previous[i] = asked.automatic_terminal_agents
    /\ (\A i \in Call : ~Installing(i) /\ ~Settling(i)) => AsSelected(asked.automatic_terminal_agents)
    /\ \A i \in Call : Installing(i) => OnTheWay(i)
    /\ \A i \in Call : Settling(i) => AsSelected(patch[i].automatic_terminal_agents)

Sourced ==
  Untroubled =>
    wrapper = {} \/ sourced \/ "unwrapped" \in trouble \/ \E i \in Call : at[i] = "rc"

CIInv ==
  /\ CTypeOK /\ Memory /\ \A i \in Call : InHand(i)
  /\ InOrder /\ UsersKept /\ CopiesKept /\ OneAtATime /\ Filling /\ Connected /\ Sourced
-----------------------------------------------------------------------------
LEMMA ConnectionsInitially == CInit => CIInv
<1> SUFFICES ASSUME CInit PROVE CIInv
  OBVIOUS
<1> DEFINE first == terminalAdapters[1]
<1>1. PICK start \in UserConfigs :
        /\ users = start
        /\ \/ /\ settings = None /\ config = start
              /\ wrapper = {} /\ sourced = FALSE
           \/ /\ settings = Older
              /\ config = [start EXCEPT ![first] = mergeMemoraHooks(@, cliScript)]
              /\ wrapper = {first} /\ sourced = TRUE
  BY DEF CInit
<1>2. /\ start = [p \in Provider |-> start[p]]
      /\ \A p \in Provider : /\ Configuration(start[p], Handler)
                             /\ removeMemoraHooks(start[p]) = start[p]
  BY UsersAssumption, UsersAreClean
<1>3. cliScript \in CliPath /\ first \in Provider
  BY ConnectionsAssumption, FirstIsProvider
<1>4. ASSUME NEW p \in Provider
      PROVE  /\ Configuration(config[p], Handler) /\ removeMemoraHooks(config[p]) = users[p]
             /\ IF settings = Older /\ p = first THEN Valid(config[p], cliScript) ELSE Clean(p)
  <2>1. CASE settings = None /\ config = start
    BY <1>1, <1>2, <2>1, StoredAre DEF Clean
  <2>2. CASE settings = Older /\ config = [start EXCEPT ![first] = mergeMemoraHooks(@, cliScript)]
    <3>1. config[p] = IF p = first THEN mergeMemoraHooks(start[p], cliScript) ELSE start[p]
      BY <1>2, <2>2
    <3> QED BY <1>1, <1>2, <1>3, <2>2, <3>1, MergedIs DEF Clean
  <2> QED BY <1>1, <2>1, <2>2
<1>5. /\ readIntegrationSettings \in Settings /\ asked = readIntegrationSettings
      /\ readIntegrationSettings.automatic_terminal_agents = IF settings = Older THEN {first} ELSE {}
      /\ settings # Torn /\ settings \in {None, Older}
  BY <1>1, DefaultsAre, StoredAre, ApartAssumption DEF readIntegrationSettings, CInit
<1>6. CTypeOK
  <2>1. config = [p \in Provider |-> config[p]]
    BY <1>1, <1>2
  <2>2. wrapper \subseteq Provider /\ sourced \in BOOLEAN
    BY <1>1, <1>3
  <2>3. <<>> \in Seq(Provider)
    OBVIOUS
  <2>4. saved = [p \in Provider |-> saved[p]] /\ \A p \in Provider : Configuration(saved[p], Handler)
    BY DEF CInit, Configuration
  <2> QED BY <1>4, <1>5, <2>1, <2>2, <2>3, <2>4 DEF CTypeOK, CInit, Ended
<1>7. \A i \in Call : at[i] = "new" /\ patch[i] = None /\ base[i] = None
  BY DEF CInit
<1>8. Memory
  BY <1>1, <1>2 DEF CInit, Memory
<1>9. \A i \in Call : InHand(i)
  BY <1>7 DEF InHand, Setting, Rewriting, HasStatus, Diagnosing, Settling
<1>10. InOrder
  BY <1>5, <1>7 DEF InOrder, Writing, Diagnosing, Setting
<1>11. UsersKept
  BY <1>4, <1>7 DEF CInit, UsersKept, Rewriting, Replacing
<1>17. CopiesKept /\ Filling
  BY <1>7 DEF CInit, CopiesKept, Filling, Rewriting, Replacing
<1>12. OneAtATime
  BY <1>5, <1>7 DEF OneAtATime, Connecting, Active, ByHand, Rewriting
<1>13. AsSelected(asked.automatic_terminal_agents)
  <2>1. wrapper = IF settings = Older THEN {first} ELSE {}
    BY <1>1, StoredAre, ApartAssumption
  <2> QED BY <1>4, <1>5, <2>1 DEF AsSelected, Right
<1>14. Connected
  BY <1>7, <1>13 DEF Connected, Installing, Settling, Setting, Rewriting
<1>15. Sourced
  BY <1>1 DEF Sourced
<1> QED BY <1>6, <1>8, <1>9, <1>10, <1>11, <1>12, <1>14, <1>15, <1>17 DEF CIInv
-----------------------------------------------------------------------------
(***************************************************************************)
(* What a step leaves alone.  A step of call i leaves what the others have *)
(* in hand; most steps are quiet for most parts of the invariant.          *)
(***************************************************************************)
Same(j) ==
  /\ at'[j] = at[j] /\ calls'[j] = calls[j] /\ left'[j] = left[j]
  /\ previous'[j] = previous[j] /\ base'[j] = base[j] /\ patch'[j] = patch[j]

Grows == trouble \subseteq trouble' /\ byHand \subseteq byHand'

StepOf(i) == Grows /\ \A j \in Call \ {i} : Same(j)

QuietWrite(j) ==
  /\ Writing(j)' => Writing(j)
  /\ at'[j] \in {"truncate", "write"} => at[j] \in {"truncate", "write"} /\ base'[j] = base[j]
  /\ Diagnosing(j)' => Diagnosing(j) /\ patch'[j] = patch[j] /\ left'[j] = left[j]

QuietRewrite(j) ==
  Rewriting(j) \/ Rewriting(j)' =>
    at'[j] = at[j] /\ base'[j] = base[j] /\ Head(left'[j]) = Head(left[j])

QuietCall(j) == (Connecting(j)' => Connecting(j)) /\ (Untroubled' => ByHand(j)')

QuietHook(j) ==
  /\ at'[j] = "shell" => at[j] = "shell" /\ previous'[j] = previous[j]
  /\ Installing(j)' <=> Installing(j)
  /\ Installing(j) => calls'[j] = calls[j] /\ previous'[j] = previous[j] /\ left'[j] = left[j]
  /\ Settling(j)' <=> Settling(j)
  /\ Settling(j) => patch'[j] = patch[j]

Stays(p) ==
  /\ Clean(p) => Clean(p)'
  /\ Valid(config[p], cliScript) => Valid(config'[p], cliScript)

KeepsWrites(i) == asked' = asked /\ settings' \in {settings, Torn} /\ QuietWrite(i)
KeepsUsers(i) == UNCHANGED <<hookFiles, users>> /\ QuietRewrite(i)
KeepsTurn(i) ==
  /\ QuietCall(i)
  /\ settings' = Torn => (settings = Torn /\ at[i] # "write") \/ at'[i] = "write"
KeepsHooks(i) ==
  /\ asked'.automatic_terminal_agents = asked.automatic_terminal_agents /\ wrapper' \subseteq wrapper
  /\ \A p \in Provider \ byHand' : Stays(p)
  /\ QuietHook(i)
KeepsShell(i) ==
  wrapper' \subseteq wrapper /\ (sourced => sourced') /\ (at[i] = "rc" => at'[i] = "rc")

LEMMA SameInHand ==
  ASSUME NEW j \in Call, InHand(j), Same(j), Grows PROVE InHand(j)'
<1>1. /\ Setting(j)' = Setting(j) /\ Rewriting(j)' = Rewriting(j) /\ Diagnosing(j)' = Diagnosing(j)
      /\ Settling(j)' = Settling(j) /\ HasStatus(j)' = HasStatus(j)
  BY DEF Same, Setting, Rewriting, Diagnosing, Settling, HasStatus
<1> QED BY <1>1 DEF InHand, Same, Grows

LEMMA SameIsQuiet ==
  ASSUME NEW j \in Call, Same(j), Grows
  PROVE  /\ QuietWrite(j) /\ QuietRewrite(j) /\ QuietHook(j)
         /\ Connecting(j)' = Connecting(j) /\ (ByHand(j) => ByHand(j)')
<1>1. /\ Setting(j)' = Setting(j) /\ Rewriting(j)' = Rewriting(j) /\ Diagnosing(j)' = Diagnosing(j)
      /\ Settling(j)' = Settling(j) /\ Installing(j)' = Installing(j) /\ Writing(j)' = Writing(j)
      /\ Connecting(j)' = Connecting(j)
  BY DEF Same, Setting, Rewriting, Diagnosing, Settling, Installing, Writing, Connecting, Active
<1>2. QuietWrite(j) /\ QuietRewrite(j) /\ QuietHook(j)
  BY <1>1 DEF Same, QuietWrite, QuietRewrite, QuietHook
<1> QED BY <1>1, <1>2 DEF ByHand, Same, Grows

LEMMA KeptQuietly ==
  ASSUME InOrder, Grows, asked' = asked, settings' \in {settings, Torn}, \A j \in Call : QuietWrite(j)
  PROVE  InOrder'
<1> SUFFICES ASSUME InTurn' PROVE InOrder'
  BY DEF InOrder
<1>1. InTurn
  BY DEF InTurn, Grows
<1>2. settings' # Torn => readIntegrationSettings' = asked'
  BY <1>1 DEF InOrder, readIntegrationSettings
<1>3. \A i, j \in Call : Writing(i)' /\ Writing(j)' => i = j
  BY <1>1 DEF InOrder, QuietWrite
<1>4. \A j \in Call : at'[j] \in {"truncate", "write"} => base'[j] = asked'
  BY <1>1 DEF InOrder, QuietWrite
<1>5. \A j \in Call : Diagnosing(j)' =>
        \A q \in Provider \ {Head(left'[j])} :
          patch'[j].last_diagnostics[q] = asked'.last_diagnostics[q]
  BY <1>1 DEF InOrder, QuietWrite
<1> QED BY <1>2, <1>3, <1>4, <1>5 DEF InOrder

LEMMA UsersQuietly ==
  ASSUME UsersKept, CopiesKept, Filling, Grows, UNCHANGED <<hookFiles, users>>,
         \A j \in Call : QuietRewrite(j)
  PROVE  UsersKept' /\ CopiesKept' /\ Filling'
<1>0. config' = config /\ emptied' = emptied /\ saved' = saved /\ miscopied' = miscopied /\ users' = users
  BY DEF hookFiles
<1>1. ASSUME NEW j \in Call
      PROVE  /\ Rewriting(j)' <=> Rewriting(j)
             /\ Rewriting(j) => /\ at'[j] = at[j] /\ base'[j] = base[j]
                                /\ Head(left'[j]) = Head(left[j])
             /\ Replacing(j)' <=> Replacing(j)
             /\ Replacing(j) => Rewriting(j)
             /\ at'[j] = "fill config" <=> at[j] = "fill config"
             /\ at[j] = "fill config" => Rewriting(j)
  BY DEF QuietRewrite, Rewriting, Replacing
<1>2. UsersKept'
  BY <1>0, <1>1 DEF UsersKept, Grows
<1>3. CopiesKept'
  BY <1>0, <1>1 DEF CopiesKept, Grows
<1>4. Filling'
  BY <1>0, <1>1 DEF Filling, Grows, Untroubled
<1> QED BY <1>2, <1>3, <1>4

LEMMA TurnQuietly ==
  ASSUME OneAtATime, Grows, \A j \in Call : QuietCall(j),
         Untroubled' /\ settings' = Torn => \E j \in Call : at'[j] = "write"
  PROVE  OneAtATime'
  BY DEF OneAtATime, Grows, QuietCall, Untroubled

LEMMA HooksQuietly ==
  ASSUME Connected, Grows, wrapper' \subseteq wrapper,
         asked'.automatic_terminal_agents = asked.automatic_terminal_agents,
         \A p \in Provider \ byHand' : Stays(p), \A j \in Call : QuietHook(j)
  PROVE  Connected'
<1> SUFFICES ASSUME Untroubled' PROVE Connected'
  BY DEF Connected
<1>1. Untroubled
  BY DEF Untroubled, Grows
<1>3. \A j \in Call : at'[j] = "shell" => previous'[j] = asked'.automatic_terminal_agents
  BY <1>1 DEF Connected, QuietHook
<1>4. ASSUME \A j \in Call : ~Installing(j)' /\ ~Settling(j)'
      PROVE  AsSelected(asked.automatic_terminal_agents)'
  <2>1. AsSelected(asked.automatic_terminal_agents)
    BY <1>1, <1>4 DEF Connected, QuietHook
  <2>2. wrapper' \subseteq asked'.automatic_terminal_agents
    BY <2>1 DEF AsSelected
  <2>3. \A p \in Provider \ byHand' : Right(p, asked.automatic_terminal_agents)'
    BY <2>1 DEF AsSelected, Grows, Right, Stays, Clean
  <2> QED BY <2>2, <2>3 DEF AsSelected
<1>5. ASSUME NEW j \in Call, Installing(j)' PROVE OnTheWay(j)'
  <2>1. OnTheWay(j) /\ calls'[j] = calls[j] /\ previous'[j] = previous[j] /\ left'[j] = left[j]
    BY <1>1, <1>5 DEF Connected, QuietHook
  <2> QED BY <2>1 DEF OnTheWay, Grows, Right, Stays, Clean
<1>6. ASSUME NEW j \in Call, Settling(j)' PROVE AsSelected(patch[j].automatic_terminal_agents)'
  <2>1. AsSelected(patch[j].automatic_terminal_agents) /\ patch'[j] = patch[j]
    BY <1>1, <1>6 DEF Connected, QuietHook
  <2>2. wrapper' \subseteq patch'[j].automatic_terminal_agents
    BY <2>1 DEF AsSelected
  <2>3. \A p \in Provider \ byHand' : Right(p, patch[j].automatic_terminal_agents)'
    BY <2>1 DEF AsSelected, Grows, Right, Stays, Clean
  <2> QED BY <2>2, <2>3 DEF AsSelected
<1> QED BY <1>3, <1>4, <1>5, <1>6 DEF Connected

LEMMA OneStep ==
  ASSUME CIInv, NEW i \in Call, StepOf(i), InHand(i)'
  PROVE  /\ \A j \in Call : InHand(j)'
         /\ KeepsWrites(i) => InOrder'
         /\ KeepsUsers(i) => UsersKept' /\ CopiesKept' /\ Filling'
         /\ KeepsTurn(i) => OneAtATime'
         /\ KeepsHooks(i) => Connected'
         /\ KeepsShell(i) => Sourced'
<1>1. Grows /\ \A j \in Call \ {i} : Same(j)
  BY DEF StepOf
<1>2. \A j \in Call : InHand(j)'
  BY <1>1, SameInHand DEF CIInv
<1>3. \A j \in Call \ {i} : /\ QuietWrite(j) /\ QuietRewrite(j) /\ QuietHook(j)
                            /\ Connecting(j)' = Connecting(j) /\ (ByHand(j) => ByHand(j)')
  BY <1>1, SameIsQuiet
<1>4. KeepsWrites(i) => InOrder'
  BY <1>1, <1>3, KeptQuietly DEF CIInv, KeepsWrites
<1>5. KeepsUsers(i) => UsersKept' /\ CopiesKept' /\ Filling'
  BY <1>1, <1>3, UsersQuietly DEF CIInv, KeepsUsers
<1>6. ASSUME KeepsTurn(i) PROVE OneAtATime'
  <2>1. Untroubled' => Untroubled
    BY <1>1 DEF Untroubled, Grows
  <2>2. ASSUME NEW j \in Call \ {i} PROVE QuietCall(j)
    BY <1>1, <1>3, <2>1 DEF CIInv, OneAtATime, QuietCall, Same
  <2>3. ASSUME Untroubled', settings' = Torn PROVE \E j \in Call : at'[j] = "write"
    <3>1. CASE at'[i] = "write"
      BY <3>1
    <3>2. CASE settings = Torn /\ at[i] # "write"
      <4>1. PICK j \in Call : at[j] = "write"
        BY <2>1, <2>3, <3>2 DEF CIInv, OneAtATime
      <4> QED BY <1>1, <3>2, <4>1 DEF Same
    <3> QED BY <1>6, <2>3, <3>1, <3>2 DEF KeepsTurn
  <2> QED BY <1>1, <1>6, <2>2, <2>3, TurnQuietly DEF CIInv, KeepsTurn
<1>7. KeepsHooks(i) => Connected'
  BY <1>1, <1>3, HooksQuietly DEF CIInv, KeepsHooks
<1>8. KeepsShell(i) => Sourced'
  BY <1>1 DEF CIInv, KeepsShell, Sourced, Grows, Untroubled, Same
<1> QED BY <1>2, <1>4, <1>5, <1>6, <1>7, <1>8
-----------------------------------------------------------------------------
(***************************************************************************)
(* Handlers and commands begin.                                            *)
(***************************************************************************)
Labels == Ended \cup {"new", "previous", "shell", "rc", "hooks", "read config", "back up",
                      "empty config", "fill config", "editors", "diagnose", "note", "merge", "truncate", "write", "strip", "disable"}

LEMMA Begins ==
  ASSUME CIInv, NEW i \in Call, NEW request \in CallType, NEW label \in Labels,
         Begin(i, request, label)
  PROVE  /\ at[i] = "new" /\ at'[i] = label /\ calls'[i] = request
         /\ base[i] = None /\ patch[i] = None
         /\ at' \in [Call -> Labels] /\ calls' = [j \in Call |-> calls'[j]]
         /\ \A j \in Call \ {i} : at'[j] = at[j] /\ calls'[j] = calls[j]
<1>1. InHand(i) /\ at \in [Call -> Labels] /\ calls = [j \in Call |-> calls[j]]
  BY DEF CIInv, CTypeOK, Labels, Memory
<1>2. at[i] = "new" /\ at' = [at EXCEPT ![i] = label] /\ calls' = [calls EXCEPT ![i] = request]
  BY DEF Begin, Goto
<1>3. base[i] = None /\ patch[i] = None
  BY <1>1, <1>2 DEF InHand, Rewriting, HasStatus, Diagnosing, Setting
<1> QED BY <1>1, <1>2, <1>3

LEMMA DiagnoseKeeps ==
  ASSUME CIInv, NEW i \in Call, NEW p \in Provider, Diagnose(i, p) PROVE CIInv'
<1> DEFINE request == [kind |-> "diagnose", provider |-> p]
<1>1. request \in CallType /\ "diagnose" \in Labels /\ request.kind = "diagnose"
  BY DEF CallType, Labels
<1>2. /\ at[i] = "new" /\ at'[i] = "diagnose" /\ calls'[i] = request
      /\ base[i] = None /\ patch[i] = None
      /\ at' \in [Call -> Labels] /\ calls' = [j \in Call |-> calls'[j]]
      /\ \A j \in Call \ {i} : at'[j] = at[j] /\ calls'[j] = calls[j]
  BY <1>1, Begins DEF Diagnose
<1> HIDE DEF request
<1>3. left'[i] = <<p>> /\ <<p>> # <<>> /\ left' \in [Call -> Seq(Provider)]
  <2>1. left' = [left EXCEPT ![i] = <<p>>] /\ left \in [Call -> Seq(Provider)]
    BY DEF CIInv, CTypeOK, Diagnose
  <2>2. <<p>> \in Seq(Provider) /\ <<p>> # <<>>
    OBVIOUS
  <2> QED BY <2>1, <2>2
<1>4. CTypeOK' /\ Memory'
  <2>1. CTypeOK'
    BY <1>2, <1>3 DEF CIInv, CTypeOK, Diagnose, files, hookFiles, history, Labels
  <2>2. Memory'
    BY <1>2 DEF CIInv, Memory, Diagnose, files, hookFiles, history
  <2> QED BY <2>1, <2>2
<1>5. StepOf(i) /\ InHand(i)'
  BY <1>1, <1>2, <1>3 DEF CIInv, CTypeOK, Diagnose, files, hookFiles, history, StepOf, Grows, Same, InHand,
     Setting, Rewriting, Diagnosing, Settling, HasStatus
<1>6. KeepsWrites(i) /\ KeepsUsers(i) /\ KeepsTurn(i) /\ KeepsHooks(i)
  BY <1>1, <1>2 DEF Diagnose, files, hookFiles, history, KeepsWrites, KeepsUsers, KeepsTurn, KeepsHooks,
     QuietWrite, QuietRewrite, QuietCall, QuietHook, Stays, Clean, Writing, Setting, Diagnosing,
     Rewriting, Connecting, ByHand, Installing, Settling
<1>7. KeepsShell(i)
  BY <1>2 DEF KeepsShell, Diagnose, files, hookFiles, history
<1> QED BY <1>4, <1>5, <1>6, <1>7, OneStep DEF CIInv

LEMMA SetReadingLevelKeeps ==
  ASSUME CIInv, NEW i \in Call, NEW level \in Level, SetReadingLevel(i, level) PROVE CIInv'
<1> DEFINE request == [kind |-> "level", level |-> level]
           fields == [reading_level |-> level]
<1>1. request \in CallType /\ "merge" \in Labels /\ request.kind = "level"
  BY DEF CallType, Labels
<1>2. /\ at[i] = "new" /\ at'[i] = "merge" /\ calls'[i] = request
      /\ base[i] = None /\ patch[i] = None
      /\ at' \in [Call -> Labels] /\ calls' = [j \in Call |-> calls'[j]]
      /\ \A j \in Call \ {i} : at'[j] = at[j] /\ calls'[j] = calls[j]
  BY <1>1, Begins DEF SetReadingLevel
<1>3. /\ fields \in Fields /\ "last_diagnostics" \notin DOMAIN fields
      /\ "automatic_terminal_agents" \notin DOMAIN fields
  BY DEF Fields
<1>4. /\ patch'[i] = fields /\ patch' = [j \in Call |-> patch'[j]]
      /\ \A j \in Call \ {i} : patch'[j] = patch[j]
  BY DEF CIInv, Memory, SetReadingLevel
<1> HIDE DEF request, fields
<1>5. CTypeOK'
  BY <1>2 DEF CIInv, CTypeOK, SetReadingLevel, files, hookFiles, history, Labels
<1>6. Memory'
  BY <1>2, <1>4 DEF CIInv, Memory, SetReadingLevel, files, hookFiles, history
<1>7. StepOf(i) /\ InHand(i)'
  BY <1>1, <1>2, <1>3, <1>4 DEF CIInv, CTypeOK, SetReadingLevel, files, hookFiles, history, StepOf, Grows, Same,
     InHand, Setting, Rewriting, Diagnosing, Settling, HasStatus
<1>8. KeepsWrites(i) /\ KeepsUsers(i) /\ KeepsTurn(i) /\ KeepsHooks(i)
  BY <1>1, <1>2, <1>3, <1>4 DEF SetReadingLevel, files, hookFiles, history, KeepsWrites, KeepsUsers, KeepsTurn,
     KeepsHooks, QuietWrite, QuietRewrite, QuietCall, QuietHook, Stays, Clean, Writing, Setting,
     Diagnosing, Rewriting, Connecting, ByHand, Installing, Settling
<1>9. KeepsShell(i)
  BY <1>2 DEF KeepsShell, SetReadingLevel, files, hookFiles, history
<1> QED BY <1>5, <1>6, <1>7, <1>8, <1>9, OneStep DEF CIInv

LEMMA RunByHandKeeps ==
  ASSUME CIInv, NEW i \in Call, NEW p \in Provider, NEW kind, NEW cli,
         \/ kind = "uninstall" /\ cli = None
         \/ kind = "install" /\ cli \in CliPath,
         RunByHand(i, kind, p, cli)
  PROVE  CIInv'
<1> DEFINE request == [kind |-> kind, provider |-> p, cli |-> cli]
<1>1. /\ request \in CallType /\ "read config" \in Labels /\ request.kind = kind
      /\ kind \in {"install", "uninstall"}
  BY DEF CallType, Labels
<1>2. /\ at[i] = "new" /\ at'[i] = "read config" /\ calls'[i] = request
      /\ base[i] = None /\ patch[i] = None
      /\ at' \in [Call -> Labels] /\ calls' = [j \in Call |-> calls'[j]]
      /\ \A j \in Call \ {i} : at'[j] = at[j] /\ calls'[j] = calls[j]
  BY <1>1, Begins DEF RunByHand
<1> HIDE DEF request
<1>3. left'[i] = <<p>> /\ <<p>> # <<>> /\ Head(<<p>>) = p /\ left' \in [Call -> Seq(Provider)]
  <2>1. left' = [left EXCEPT ![i] = <<p>>] /\ left \in [Call -> Seq(Provider)]
    BY DEF CIInv, CTypeOK, RunByHand
  <2>2. <<p>> \in Seq(Provider) /\ <<p>> # <<>> /\ Head(<<p>>) = p
    OBVIOUS
  <2> QED BY <2>1, <2>2
<1>4. CTypeOK'
  BY <1>2, <1>3 DEF CIInv, CTypeOK, RunByHand, files, hookFiles, Labels
<1>5. Memory'
  BY <1>2 DEF CIInv, Memory, RunByHand, files, hookFiles
<1>6. StepOf(i) /\ InHand(i)'
  BY <1>1, <1>2, <1>3 DEF CIInv, CTypeOK, RunByHand, files, hookFiles, StepOf, Grows, Same, InHand,
     Setting, Rewriting, Diagnosing, Settling, HasStatus
<1>7. KeepsWrites(i) /\ KeepsUsers(i) /\ KeepsTurn(i) /\ KeepsHooks(i)
  BY <1>1, <1>2, <1>3 DEF RunByHand, files, hookFiles, KeepsWrites, KeepsUsers, KeepsTurn, KeepsHooks,
     QuietWrite, QuietRewrite, QuietCall, QuietHook, Stays, Clean, Writing, Setting, Diagnosing,
     Rewriting, Connecting, ByHand, Installing, Settling
<1>8. KeepsShell(i)
  BY <1>2 DEF KeepsShell, RunByHand, files, hookFiles
<1> QED BY <1>4, <1>5, <1>6, <1>7, <1>8, OneStep DEF CIInv

LEMMA UninstallShellKeeps ==
  ASSUME CIInv, NEW i \in Call, UninstallShell(i) PROVE CIInv'
<1> DEFINE request == [kind |-> "unwrap"]
<1>1. request \in CallType /\ "strip" \in Labels /\ request.kind = "unwrap"
  BY DEF CallType, Labels
<1>2. /\ at[i] = "new" /\ at'[i] = "strip" /\ calls'[i] = request
      /\ base[i] = None /\ patch[i] = None
      /\ at' \in [Call -> Labels] /\ calls' = [j \in Call |-> calls'[j]]
      /\ \A j \in Call \ {i} : at'[j] = at[j] /\ calls'[j] = calls[j]
  BY <1>1, Begins DEF UninstallShell
<1> HIDE DEF request
<1>3. CTypeOK' /\ Memory'
  <2>1. CTypeOK'
    BY <1>2 DEF CIInv, CTypeOK, UninstallShell, files, hookFiles, memory, Labels, Notes
  <2>2. Memory'
    BY <1>2 DEF CIInv, Memory, UninstallShell, files, hookFiles, memory
  <2> QED BY <2>1, <2>2
<1>4. StepOf(i) /\ InHand(i)'
  BY <1>1, <1>2 DEF CIInv, CTypeOK, UninstallShell, files, hookFiles, memory, Notes, StepOf, Grows, Same, InHand,
     Setting, Rewriting, Diagnosing, Settling, HasStatus
<1>5. KeepsWrites(i) /\ KeepsUsers(i) /\ KeepsTurn(i) /\ KeepsHooks(i)
  BY <1>1, <1>2 DEF UninstallShell, files, hookFiles, memory, KeepsWrites, KeepsUsers, KeepsTurn, KeepsHooks,
     QuietWrite, QuietRewrite, QuietCall, QuietHook, Stays, Clean, Writing, Setting, Diagnosing,
     Rewriting, Connecting, ByHand, Installing, Settling
<1>6. Sourced'
  BY DEF Sourced, UninstallShell, Notes
<1> QED BY <1>3, <1>4, <1>5, <1>6, OneStep DEF CIInv

(* Another connection that is being configured would be crossed by this one. *)
LEMMA ConfigureKeeps ==
  ASSUME CIInv, NEW i \in Call, NEW selected \in SUBSET Provider, Configure(i, selected) PROVE CIInv'
<1> DEFINE request == [kind |-> "configure", selected |-> selected]
<1>1. request \in CallType /\ "previous" \in Labels /\ request.kind = "configure"
  BY DEF CallType, Labels
<1>2. /\ at[i] = "new" /\ at'[i] = "previous" /\ calls'[i] = request
      /\ base[i] = None /\ patch[i] = None
      /\ at' \in [Call -> Labels] /\ calls' = [j \in Call |-> calls'[j]]
      /\ \A j \in Call \ {i} : at'[j] = at[j] /\ calls'[j] = calls[j]
  BY <1>1, Begins DEF Configure
<1> HIDE DEF request
<1>3. CTypeOK' /\ Memory'
  <2>1. CTypeOK'
    BY <1>2 DEF CIInv, CTypeOK, Configure, files, hookFiles, memory, Labels, Notes
  <2>2. Memory'
    BY <1>2 DEF CIInv, Memory, Configure, files, hookFiles, memory
  <2> QED BY <2>1, <2>2
<1>4. StepOf(i) /\ InHand(i)'
  BY <1>1, <1>2 DEF CIInv, CTypeOK, Configure, files, hookFiles, memory, Notes, StepOf, Grows, Same, InHand,
     Setting, Rewriting, Diagnosing, Settling, HasStatus
<1>5. KeepsWrites(i) /\ KeepsUsers(i) /\ KeepsHooks(i)
  BY <1>1, <1>2 DEF Configure, files, hookFiles, memory, KeepsWrites, KeepsUsers, KeepsHooks,
     QuietWrite, QuietRewrite, QuietHook, Stays, Clean, Writing, Setting, Diagnosing,
     Rewriting, Installing, Settling
<1>6. OneAtATime'
  <2> SUFFICES ASSUME Untroubled' PROVE OneAtATime'
    BY DEF OneAtATime
  <2>1. Untroubled /\ OneAtATime
    BY <1>4 DEF CIInv, StepOf, Grows, Untroubled
  <2>2. \A j \in Call : ~Connecting(j)
    BY DEF Configure, Notes, Untroubled, Connecting
  <2>3. \A j \in Call : Connecting(j)' => j = i
    BY <1>4, <2>2 DEF StepOf, Same, Connecting, Active
  <2>4. settings' = Torn => \E j \in Call : at'[j] = "write"
    BY <1>2, <2>1 DEF OneAtATime, Configure, files, hookFiles
  <2>5. \A j \in Call : ByHand(j)'
    BY <1>2, <1>4, <2>1, SameIsQuiet DEF OneAtATime, StepOf, Same, ByHand, Rewriting
  <2> QED BY <2>3, <2>4, <2>5 DEF OneAtATime
<1>7. KeepsShell(i)
  BY <1>2 DEF KeepsShell, Configure, files, hookFiles, Notes
<1> QED BY <1>3, <1>4, <1>5, <1>6, <1>7, OneStep DEF CIInv
-----------------------------------------------------------------------------
(***************************************************************************)
(* A connection is configured.                                             *)
(***************************************************************************)
LEMMA Moves ==
  ASSUME CIInv, NEW i \in Call, NEW label \in Labels, Goto(i, label)
  PROVE  /\ at'[i] = label /\ at' \in [Call -> Labels]
         /\ \A j \in Call \ {i} : at'[j] = at[j]
  BY DEF CIInv, CTypeOK, Labels, Goto

LEMMA ReadIsSettings == CTypeOK => readIntegrationSettings \in Settings
  BY DefaultsAre, StoredAre DEF CTypeOK, readIntegrationSettings

LEMMA ReadPreviousKeeps ==
  ASSUME CIInv, NEW i \in Call, ReadPrevious(i) PROVE CIInv'
<1> DEFINE agents == readIntegrationSettings.automatic_terminal_agents
<1>1. "shell" \in Labels /\ Goto(i, "shell")
  BY DEF Labels, ReadPrevious
<1>2. /\ at[i] = "previous" /\ at'[i] = "shell" /\ at' \in [Call -> Labels]
      /\ \A j \in Call \ {i} : at'[j] = at[j]
  BY <1>1, Moves DEF ReadPrevious
<1>3. agents \subseteq Provider
  BY ReadIsSettings, SettingsAre DEF CIInv
<1> HIDE DEF agents
<1>4. /\ previous'[i] = agents /\ previous' \in [Call -> SUBSET Provider]
      /\ \A j \in Call \ {i} : previous'[j] = previous[j]
  BY <1>3 DEF CIInv, CTypeOK, ReadPrevious, agents
<1>5. CTypeOK' /\ Memory'
  <2>1. CTypeOK'
    BY <1>2, <1>4 DEF CIInv, CTypeOK, ReadPrevious, files, hookFiles, Labels, Notes, TornIf
  <2>2. Memory'
    BY DEF CIInv, Memory, ReadPrevious
  <2> QED BY <2>1, <2>2
<1>6. StepOf(i) /\ InHand(i)'
  BY <1>2, <1>4 DEF CIInv, ReadPrevious, Notes, StepOf, Grows, Same, InHand,
     Setting, Rewriting, Diagnosing, Settling, HasStatus
<1>7. KeepsWrites(i) /\ KeepsUsers(i)
  BY <1>2 DEF ReadPrevious, files, hookFiles, KeepsWrites, KeepsUsers, QuietWrite, QuietRewrite,
     Writing, Setting, Diagnosing, Rewriting
<1>8. KeepsTurn(i)
  BY <1>2 DEF ReadPrevious, files, hookFiles, KeepsTurn, QuietCall, Connecting, Active, Ended, ByHand, Rewriting
<1>9. Connected'
  <2> SUFFICES ASSUME Untroubled' PROVE Connected'
    BY DEF Connected
  <2>1. Untroubled /\ InTurn
    BY <1>6 DEF StepOf, Grows, Untroubled, InTurn
  <2>2. settings # Torn
    BY DEF Untroubled, ReadPrevious, Notes, TornIf
  <2>3. agents = asked.automatic_terminal_agents
    BY <2>1, <2>2 DEF CIInv, InOrder, agents
  <2>4. at'[i] = "shell" => previous'[i] = asked'.automatic_terminal_agents
    BY <1>4, <2>3 DEF ReadPrevious
  <2>5. \A j \in Call \ {i} : at'[j] = "shell" => previous'[j] = asked'.automatic_terminal_agents
    BY <1>2, <1>4, <2>1 DEF CIInv, Connected, ReadPrevious
  <2>6. \A j \in Call : Installing(j)' = Installing(j) /\ Settling(j)' = Settling(j)
    BY <1>2 DEF ReadPrevious, Installing, Settling, Setting, Rewriting
  <2>7. (\A j \in Call : ~Installing(j)' /\ ~Settling(j)') => AsSelected(asked.automatic_terminal_agents)'
    BY <2>1, <2>6 DEF CIInv, Connected, AsSelected, Right, Clean, ReadPrevious, files, hookFiles
  <2>8. ASSUME NEW j \in Call, Installing(j)' PROVE OnTheWay(j)'
    <3>1. OnTheWay(j) /\ j # i
      BY <1>2, <2>1, <2>6, <2>8 DEF CIInv, Connected, Installing, Rewriting
    <3> QED BY <1>4, <3>1 DEF OnTheWay, Right, Clean, ReadPrevious, files, hookFiles
  <2>9. \A j \in Call : Settling(j)' => AsSelected(patch[j].automatic_terminal_agents)'
    BY <2>1, <2>6 DEF CIInv, Connected, AsSelected, Right, Clean, ReadPrevious, files, hookFiles
  <2> QED BY <2>4, <2>5, <2>7, <2>8, <2>9 DEF Connected
<1>10. KeepsShell(i)
  BY <1>2 DEF KeepsShell, ReadPrevious, files, hookFiles, Notes
<1> QED BY <1>5, <1>6, <1>7, <1>8, <1>9, <1>10, OneStep DEF CIInv

(* The call that is connecting is the only one. *)
LEMMA OnlyConnecting ==
  ASSUME CIInv, Untroubled, NEW i \in Call, at[i] \notin {"new"} \cup Ended, calls[i].kind = "configure"
  PROVE  \A j \in Call \ {i} : at[j] # "shell" /\ ~Installing(j) /\ ~Settling(j)
<1> TAKE j \in Call \ {i}
<1>1. Connecting(i) /\ ~Connecting(j)
  BY DEF CIInv, OneAtATime, Connecting, Active
<1>2. InHand(j)
  BY DEF CIInv
<1> QED BY <1>1, <1>2 DEF Connecting, Active, InHand, Installing, Settling, Setting, Rewriting, Ended

LEMMA WriteShellKeeps ==
  ASSUME CIInv, NEW i \in Call, WriteShellIntegration(i) PROVE CIInv'
<1>1. "rc" \in Labels /\ Goto(i, "rc")
  BY DEF Labels, WriteShellIntegration
<1>2. /\ at[i] = "shell" /\ at'[i] = "rc" /\ at' \in [Call -> Labels]
      /\ \A j \in Call \ {i} : at'[j] = at[j]
  BY <1>1, Moves DEF WriteShellIntegration
<1>3. calls[i] \in CallType /\ calls[i].kind = "configure" /\ patch[i] = None /\ base[i] = None
  BY <1>2 DEF CIInv, InHand, Setting, Rewriting, HasStatus, Diagnosing
<1>4. calls[i].selected \subseteq Provider
  BY <1>3 DEF CallType
<1>5. /\ left'[i] = terminalAdapters /\ left' \in [Call -> Seq(Provider)]
      /\ \A j \in Call \ {i} : left'[j] = left[j]
  BY ConnectionsAssumption DEF CIInv, CTypeOK, WriteShellIntegration
<1>6. CTypeOK' /\ Memory'
  <2>1. CTypeOK'
    BY <1>2, <1>4, <1>5 DEF CIInv, CTypeOK, WriteShellIntegration, hookFiles, history, Labels
  <2>2. Memory'
    BY DEF CIInv, Memory, WriteShellIntegration, hookFiles, history
  <2> QED BY <2>1, <2>2
<1>7. StepOf(i) /\ InHand(i)'
  BY <1>2, <1>3, <1>5 DEF CIInv, WriteShellIntegration, hookFiles, history, StepOf, Grows, Same, InHand,
     Setting, Rewriting, Diagnosing, Settling, HasStatus
<1>8. KeepsWrites(i) /\ KeepsUsers(i)
  BY <1>2 DEF WriteShellIntegration, hookFiles, history, KeepsWrites, KeepsUsers, QuietWrite, QuietRewrite,
     Writing, Setting, Diagnosing, Rewriting
<1>9. KeepsTurn(i)
  BY <1>2 DEF WriteShellIntegration, hookFiles, history, KeepsTurn, QuietCall, Connecting, Active, Ended,
     ByHand, Rewriting
<1>10. Connected'
  <2> SUFFICES ASSUME Untroubled' PROVE Connected'
    BY DEF Connected
  <2>1. Untroubled
    BY <1>7 DEF StepOf, Grows, Untroubled
  <2>2. \A j \in Call \ {i} : at[j] # "shell" /\ ~Installing(j) /\ ~Settling(j)
    BY <1>2, <1>3, <2>1, OnlyConnecting DEF Ended
  <2>3. ~Installing(i) /\ ~Settling(i) /\ Installing(i)' /\ ~Settling(i)' /\ at'[i] # "shell"
    BY <1>2, <1>3 DEF Installing, Settling, Setting, Rewriting, WriteShellIntegration
  <2>4. \A j \in Call \ {i} : at'[j] # "shell" /\ ~Installing(j)' /\ ~Settling(j)'
    BY <1>2, <2>2 DEF Installing, Settling, Setting, Rewriting, WriteShellIntegration
  <2>5. AsSelected(asked.automatic_terminal_agents) /\ previous[i] = asked.automatic_terminal_agents
    BY <1>2, <2>1, <2>2, <2>3 DEF CIInv, Connected
  <2>6. OnTheWay(i)'
    BY <1>5, <2>5 DEF OnTheWay, AsSelected, Right, Clean, WriteShellIntegration, hookFiles, history, Provider
  <2> QED BY <2>3, <2>4, <2>6 DEF Connected
<1>11. Sourced'
  BY <1>2 DEF Sourced
<1> QED BY <1>6, <1>7, <1>8, <1>9, <1>10, <1>11, OneStep DEF CIInv

LEMMA AppendKeeps ==
  ASSUME CIInv, NEW i \in Call, AppendSourceLine(i) PROVE CIInv'
<1>1. "hooks" \in Labels /\ Goto(i, "hooks")
  BY DEF Labels, AppendSourceLine
<1>2. /\ at[i] = "rc" /\ at'[i] = "hooks" /\ at' \in [Call -> Labels]
      /\ \A j \in Call \ {i} : at'[j] = at[j]
  BY <1>1, Moves DEF AppendSourceLine
<1>3. CTypeOK' /\ Memory'
  <2>1. CTypeOK'
    BY <1>2 DEF CIInv, CTypeOK, AppendSourceLine, hookFiles, memory, history, Labels
  <2>2. Memory'
    BY DEF CIInv, Memory, AppendSourceLine, memory, history
  <2> QED BY <2>1, <2>2
<1>4. StepOf(i) /\ InHand(i)'
  BY <1>2 DEF CIInv, AppendSourceLine, memory, history, StepOf, Grows, Same, InHand,
     Setting, Rewriting, Diagnosing, Settling, HasStatus
<1>5. KeepsWrites(i) /\ KeepsUsers(i) /\ KeepsTurn(i) /\ KeepsHooks(i)
  BY <1>2 DEF AppendSourceLine, hookFiles, memory, history, KeepsWrites, KeepsUsers, KeepsTurn,
     KeepsHooks, QuietWrite, QuietRewrite, QuietCall, QuietHook, Stays, Clean, Writing, Setting,
     Diagnosing, Rewriting, Connecting, Active, Ended, ByHand, Installing, Settling
<1>6. Sourced'
  BY DEF Sourced, AppendSourceLine
<1> QED BY <1>3, <1>4, <1>5, <1>6, OneStep DEF CIInv

(* An agent that is passed over was not connected and is not to be. *)
LEMMA NextAgentKeeps ==
  ASSUME CIInv, NEW i \in Call, NextAgent(i) PROVE CIInv'
<1> DEFINE label == IF ToChange(i) # <<>> THEN "read config" ELSE "editors"
<1>1. label \in Labels /\ Goto(i, label) /\ label \in {"read config", "editors"}
  BY DEF Labels, NextAgent
<1>2. /\ at[i] = "hooks" /\ at'[i] = label /\ at' \in [Call -> Labels]
      /\ \A j \in Call \ {i} : at'[j] = at[j]
  BY <1>1, Moves DEF NextAgent
<1>3. calls[i] \in CallType /\ calls[i].kind = "configure" /\ patch[i] = None /\ base[i] = None
  BY <1>2 DEF CIInv, InHand, Setting, Rewriting, HasStatus, Diagnosing
<1>4. /\ ToChange(i) \in Seq(Provider)
      /\ Range(ToChange(i)) = Range(left[i]) \cap (calls[i].selected \cup previous[i])
  <2>1. left[i] \in Seq(Provider)
    BY DEF CIInv, CTypeOK
  <2> QED BY <2>1, FilteredIs DEF ToChange
<1>5. /\ left'[i] = ToChange(i) /\ left' \in [Call -> Seq(Provider)]
      /\ \A j \in Call \ {i} : left'[j] = left[j]
      /\ label = "read config" => left'[i] # <<>>
      /\ label = "editors" => left'[i] = <<>>
  BY <1>4 DEF CIInv, CTypeOK, NextAgent
<1> HIDE DEF label
<1>6. CTypeOK' /\ Memory'
  <2>1. CTypeOK'
    BY <1>2, <1>5 DEF CIInv, CTypeOK, NextAgent, files, hookFiles, history, Labels
  <2>2. Memory'
    BY DEF CIInv, Memory, NextAgent, files, hookFiles, history
  <2> QED BY <2>1, <2>2
<1>7. StepOf(i) /\ InHand(i)'
  BY <1>1, <1>2, <1>3, <1>5 DEF CIInv, NextAgent, history, StepOf, Grows, Same, InHand,
     Setting, Rewriting, Diagnosing, Settling, HasStatus
<1>8. KeepsWrites(i) /\ KeepsUsers(i)
  BY <1>1, <1>2 DEF NextAgent, files, hookFiles, history, KeepsWrites, KeepsUsers, QuietWrite, QuietRewrite,
     Writing, Setting, Diagnosing, Rewriting
<1>9. KeepsTurn(i)
  BY <1>1, <1>2, <1>3 DEF NextAgent, files, hookFiles, history, KeepsTurn, QuietCall, Connecting, Active, Ended,
     ByHand, Rewriting
<1>10. Connected'
  <2> SUFFICES ASSUME Untroubled' PROVE Connected'
    BY DEF Connected
  <2>1. Untroubled
    BY <1>7 DEF StepOf, Grows, Untroubled
  <2>2. \A j \in Call \ {i} : at[j] # "shell" /\ ~Installing(j) /\ ~Settling(j)
    BY <1>2, <1>3, <2>1, OnlyConnecting DEF Ended
  <2>3. Installing(i) /\ Installing(i)' /\ ~Settling(i)' /\ at'[i] # "shell"
    BY <1>1, <1>2, <1>3 DEF Installing, Settling, Setting, NextAgent
  <2>4. \A j \in Call \ {i} : at'[j] # "shell" /\ ~Installing(j)' /\ ~Settling(j)'
    BY <1>2, <2>2 DEF Installing, Settling, Setting, Rewriting, NextAgent
  <2>5. OnTheWay(i)
    BY <2>1, <2>3 DEF CIInv, Connected
  <2>6. OnTheWay(i)'
    BY <1>4, <1>5, <2>5 DEF OnTheWay, Right, Clean, NextAgent, files, hookFiles, history
  <2> QED BY <2>3, <2>4, <2>6 DEF Connected
<1>11. KeepsShell(i)
  BY <1>2 DEF KeepsShell, NextAgent, files, hookFiles, history
<1> QED BY <1>6, <1>7, <1>8, <1>9, <1>10, <1>11, OneStep DEF CIInv

LEMMA HeadOfLeft ==
  ASSUME CIInv, NEW i \in Call, left[i] # <<>>
  PROVE  /\ Head(left[i]) \in Provider /\ Tail(left[i]) \in Seq(Provider)
         /\ Range(left[i]) \subseteq Range(Tail(left[i])) \cup {Head(left[i])}
<1>1. PICK list \in Seq(Provider) : list = left[i]
  BY DEF CIInv, CTypeOK
<1>2. list # <<>> /\ Head(list) \in Provider /\ Tail(list) \in Seq(Provider)
  BY <1>1
<1>3. ASSUME NEW k \in 1..Len(list), k # 1 PROVE list[k] \in Range(Tail(list))
  <2>1. k - 1 \in 1..Len(Tail(list)) /\ Tail(list)[k - 1] = list[k]
    BY <1>2, <1>3
  <2>2. k - 1 \in DOMAIN Tail(list)
    BY <1>2, <2>1
  <2> QED BY <2>1, <2>2 DEF Range
<1>4. list[1] = Head(list)
  BY <1>2
<1>5. DOMAIN list = 1..Len(list)
  OBVIOUS
<1>6. Range(list) \subseteq Range(Tail(list)) \cup {Head(list)}
  BY <1>3, <1>4, <1>5 DEF Range
<1> QED BY <1>1, <1>2, <1>6

LEMMA ReadConfigKeeps ==
  ASSUME CIInv, NEW i \in Call, ReadConfig(i) PROVE CIInv'
<1> DEFINE p == Head(left[i])
<1>1. "back up" \in Labels /\ Goto(i, "back up")
  BY DEF Labels, ReadConfig
<1>2. /\ at[i] = "read config" /\ at'[i] = "back up" /\ at' \in [Call -> Labels]
      /\ \A j \in Call \ {i} : at'[j] = at[j]
  BY <1>1, Moves DEF ReadConfig
<1>3. /\ calls[i] \in CallType /\ calls[i].kind \in {"configure", "install", "uninstall"}
      /\ patch[i] = None /\ left[i] # <<>>
  BY <1>2 DEF CIInv, InHand, Setting, Rewriting
<1>4. p \in Provider
  BY <1>3, HeadOfLeft
<1>5. Configuration(config[p], Handler)
  BY <1>4 DEF CIInv, CTypeOK
<1> HIDE DEF p
<1>6. /\ base'[i] = config[p] /\ base' = [j \in Call |-> base'[j]]
      /\ \A j \in Call \ {i} : base'[j] = base[j]
  BY DEF CIInv, Memory, ReadConfig, Hold, p
<1>7. CTypeOK' /\ Memory'
  <2>1. CTypeOK'
    BY <1>2 DEF CIInv, CTypeOK, ReadConfig, files, hookFiles, Notes, Labels
  <2>2. Memory'
    BY <1>6 DEF CIInv, Memory, ReadConfig
  <2> QED BY <2>1, <2>2
<1>8. StepOf(i) /\ InHand(i)'
  BY <1>2, <1>3, <1>5, <1>6 DEF CIInv, ReadConfig, Notes, StepOf, Grows, Same, InHand,
     Setting, Rewriting, Diagnosing, Settling, HasStatus
<1>9. KeepsWrites(i)
  BY <1>2 DEF ReadConfig, files, hookFiles, Notes, KeepsWrites, QuietWrite, Writing, Setting, Diagnosing
<1>10. KeepsTurn(i)
  <2>1. Untroubled' => ByHand(i)
    BY <1>8 DEF CIInv, OneAtATime, StepOf, Grows, Untroubled
  <2> QED BY <1>2, <1>3, <2>1 DEF ReadConfig, files, hookFiles, Notes, KeepsTurn, QuietCall, Connecting, Active,
       Ended, ByHand, Rewriting
<1>11. KeepsHooks(i)
  BY <1>2, <1>3 DEF ReadConfig, files, hookFiles, Notes, KeepsHooks, Stays, Clean, QuietHook, Installing,
     Settling, Setting, Rewriting
<1>12. /\ UNCHANGED <<config, emptied, saved, miscopied, users, left, byHand>>
       /\ trouble \subseteq trouble' /\ p \notin emptied
       /\ "mingled" \notin trouble' => \A j \in Call \ {i} : Rewriting(j) => Head(left[j]) # p
       /\ ~Rewriting(i) /\ Rewriting(i)' /\ ~Replacing(i)'
       /\ \A j \in Call \ {i} : /\ Rewriting(j)' = Rewriting(j) /\ Replacing(j)' = Replacing(j)
                               /\ at'[j] = at[j] /\ base'[j] = base[j]
  BY <1>2, <1>6 DEF ReadConfig, files, hookFiles, Notes, RewritesToo, Rewriting, Replacing, p
<1>14. UsersKept'
  <2> SUFFICES ASSUME "raced" \notin trouble' PROVE UsersKept'
    BY DEF UsersKept
  <2>1. UsersKept /\ "raced" \notin trouble
    BY <1>12 DEF CIInv
  <2>2. removeMemoraHooks(base'[i]) = users[p]
    BY <1>4, <1>6, <2>1 DEF UsersKept
  <2> QED BY <1>12, <2>1, <2>2 DEF UsersKept, p
<1>15. CopiesKept'
  <2> SUFFICES ASSUME "mingled" \notin trouble' PROVE CopiesKept'
    BY DEF CopiesKept
  <2>1. CopiesKept /\ "mingled" \notin trouble
    BY <1>12 DEF CIInv
  <2> QED BY <1>2, <1>12, <2>1 DEF CopiesKept, p
<1>16. Filling'
  <2> SUFFICES ASSUME Untroubled' PROVE Filling'
    BY DEF Filling
  <2>1. Filling /\ Untroubled
    BY <1>12 DEF CIInv, Untroubled
  <2> QED BY <1>2, <1>12, <2>1 DEF Filling
<1>13. KeepsShell(i)
  BY <1>2 DEF KeepsShell, ReadConfig, files, hookFiles, history
<1> QED BY <1>7, <1>8, <1>9, <1>10, <1>11, <1>13, <1>14, <1>15, <1>16, OneStep DEF CIInv

LEMMA BackUpKeeps ==
  ASSUME CIInv, NEW i \in Call, BackUpConfig(i) PROVE CIInv'
<1>1. "empty config" \in Labels /\ Goto(i, "empty config")
  BY DEF Labels, BackUpConfig
<1>2. /\ at[i] = "back up" /\ at'[i] = "empty config" /\ at' \in [Call -> Labels]
      /\ \A j \in Call \ {i} : at'[j] = at[j]
  BY <1>1, Moves DEF BackUpConfig
<1>3. left[i] # <<>>
  BY <1>2 DEF CIInv, InHand, Rewriting
<1>4. PICK p \in Provider : p = Head(left[i])
  BY <1>3, HeadOfLeft
<1>5. /\ UNCHANGED <<config, emptied, users, left, base, byHand, trouble>>
      /\ saved' = [q \in Provider |-> saved'[q]]
      /\ \A q \in Provider \ {p} : saved'[q] = saved[q]
      /\ p \in emptied => saved'[p] = saved[p] /\ miscopied' = miscopied \cup {p}
      /\ p \notin emptied => saved'[p] = config[p] /\ miscopied' = miscopied \ {p}
  BY <1>4 DEF CIInv, CTypeOK, BackUpConfig, memory, history
<1>6. Configuration(config[p], Handler) /\ Configuration(saved[p], Handler)
  BY DEF CIInv, CTypeOK
<1>7. CTypeOK'
  <2>1. miscopied' \subseteq Provider
    BY <1>5 DEF CIInv, CTypeOK
  <2>2. \A q \in Provider : Configuration(saved'[q], Handler)
    BY <1>5, <1>6 DEF CIInv, CTypeOK
  <2> QED BY <1>2, <1>5, <2>1, <2>2 DEF CIInv, CTypeOK, BackUpConfig, memory, history, Labels
<1>8. Memory'
  BY DEF CIInv, Memory, BackUpConfig, memory, history
<1>9. StepOf(i) /\ InHand(i)'
  BY <1>2 DEF CIInv, BackUpConfig, memory, history, StepOf, Grows, Same, InHand,
     Setting, Rewriting, Diagnosing, Settling, HasStatus
<1>10. KeepsWrites(i) /\ KeepsTurn(i) /\ KeepsHooks(i) /\ KeepsShell(i)
  <2>1. Untroubled' => ByHand(i)
    BY <1>5 DEF CIInv, OneAtATime, Untroubled
  <2> QED BY <1>2, <2>1 DEF BackUpConfig, memory, history, KeepsWrites, KeepsTurn, KeepsHooks, KeepsShell,
       QuietWrite, QuietCall, QuietHook, Stays, Clean, Writing, Setting, Diagnosing,
       Rewriting, Connecting, Active, Ended, ByHand, Installing, Settling
<1>11. /\ Rewriting(i) /\ ~Replacing(i) /\ Rewriting(i)' /\ Replacing(i)'
       /\ \A j \in Call \ {i} : Rewriting(j)' = Rewriting(j) /\ Replacing(j)' = Replacing(j)
       /\ \A j \in Call : Replacing(j) => Rewriting(j) /\ left[j] # <<>>
  BY <1>2 DEF CIInv, InHand, Rewriting, Replacing
<1>12. UsersKept'
  <2> SUFFICES ASSUME "raced" \notin trouble PROVE UsersKept'
    BY <1>5 DEF UsersKept
  <2>1. /\ \A q \in Provider : removeMemoraHooks(config[q]) = users[q]
        /\ \A q \in emptied : removeMemoraHooks(saved[q]) = users[q]
        /\ \A j \in Call : Rewriting(j) => removeMemoraHooks(base[j]) = users[Head(left[j])]
        /\ \A j \in Call : Replacing(j) =>
             removeMemoraHooks(saved[Head(left[j])]) = users[Head(left[j])]
    BY DEF CIInv, UsersKept
  <2>2. removeMemoraHooks(saved'[p]) = users[p]
    BY <1>5, <2>1
  <2>3. \A q \in emptied : removeMemoraHooks(saved'[q]) = users[q]
    BY <1>5, <2>1, <2>2 DEF CIInv, CTypeOK
  <2>4. ASSUME NEW j \in Call, Replacing(j)'
        PROVE  removeMemoraHooks(saved'[Head(left[j])]) = users[Head(left[j])]
    <3>1. CASE Head(left[j]) = p
      BY <2>2, <3>1
    <3>2. CASE Head(left[j]) # p
      <4>1. Replacing(j) /\ left[j] # <<>>
        BY <1>4, <1>11, <2>4, <3>2
      <4>2. Head(left[j]) \in Provider
        BY <4>1, HeadOfLeft
      <4> QED BY <1>5, <2>1, <3>2, <4>1, <4>2
    <3> QED BY <3>1, <3>2
  <2> QED BY <1>5, <1>11, <2>1, <2>3, <2>4 DEF UsersKept
<1>13. CopiesKept'
  <2> SUFFICES ASSUME "mingled" \notin trouble PROVE CopiesKept'
    BY <1>5 DEF CopiesKept
  <2>1. CopiesKept
    BY DEF CIInv
  <2>2. p \notin emptied /\ miscopied' = miscopied \ {p}
    BY <1>2, <1>4, <1>5, <1>11, <2>1 DEF CopiesKept
  <2>3. emptied' \cap miscopied' = {}
    BY <1>5, <2>1, <2>2 DEF CopiesKept
  <2>4. \A j \in Call : Replacing(j)' => Head(left'[j]) \notin miscopied'
    BY <1>4, <1>5, <1>11, <2>1, <2>2 DEF CopiesKept
  <2>5. \A j \in Call : Rewriting(j)' /\ at'[j] # "fill config" => Head(left'[j]) \notin emptied'
    BY <1>2, <1>4, <1>5, <1>11, <2>1, <2>2 DEF CopiesKept
  <2>6. \A j, k \in Call : Rewriting(j)' /\ Rewriting(k)' /\ Head(left'[j]) = Head(left'[k]) => j = k
    BY <1>5, <1>11, <2>1 DEF CopiesKept
  <2> QED BY <2>3, <2>4, <2>5, <2>6 DEF CopiesKept
<1>14. Filling'
  BY <1>2, <1>5 DEF CIInv, Filling, Untroubled
<1> QED BY <1>7, <1>8, <1>9, <1>10, <1>12, <1>13, <1>14, OneStep DEF CIInv

LEMMA EmptyKeeps ==
  ASSUME CIInv, NEW i \in Call, EmptyConfig(i) PROVE CIInv'
<1>1. "fill config" \in Labels /\ Goto(i, "fill config")
  BY DEF Labels, EmptyConfig
<1>2. /\ at[i] = "empty config" /\ at'[i] = "fill config" /\ at' \in [Call -> Labels]
      /\ \A j \in Call \ {i} : at'[j] = at[j]
  BY <1>1, Moves DEF EmptyConfig
<1>3. left[i] # <<>>
  BY <1>2 DEF CIInv, InHand, Rewriting
<1>4. PICK p \in Provider : p = Head(left[i])
  BY <1>3, HeadOfLeft
<1>5. /\ UNCHANGED <<config, saved, miscopied, users, left, base, byHand, trouble>>
      /\ emptied' = emptied \cup {p}
  BY <1>4 DEF EmptyConfig, memory, history
<1>6. CTypeOK'
  BY <1>2, <1>5 DEF CIInv, CTypeOK, EmptyConfig, memory, history, Labels
<1>7. Memory'
  BY DEF CIInv, Memory, EmptyConfig, memory, history
<1>8. StepOf(i) /\ InHand(i)'
  BY <1>2 DEF CIInv, EmptyConfig, memory, history, StepOf, Grows, Same, InHand,
     Setting, Rewriting, Diagnosing, Settling, HasStatus
<1>9. KeepsWrites(i) /\ KeepsTurn(i) /\ KeepsHooks(i) /\ KeepsShell(i)
  <2>1. Untroubled' => ByHand(i)
    BY <1>5 DEF CIInv, OneAtATime, Untroubled
  <2> QED BY <1>2, <2>1 DEF EmptyConfig, memory, history, KeepsWrites, KeepsTurn, KeepsHooks, KeepsShell,
       QuietWrite, QuietCall, QuietHook, Stays, Clean, Writing, Setting, Diagnosing,
       Rewriting, Connecting, Active, Ended, ByHand, Installing, Settling
<1>10. /\ Rewriting(i) /\ Replacing(i)
       /\ \A j \in Call : (Rewriting(j)' <=> Rewriting(j)) /\ (Replacing(j)' <=> Replacing(j))
  BY <1>2 DEF Rewriting, Replacing
<1>11. UsersKept'
  BY <1>4, <1>5, <1>10 DEF CIInv, UsersKept
<1>12. CopiesKept'
  BY <1>2, <1>4, <1>5, <1>10 DEF CIInv, CopiesKept
<1>13. Filling'
  BY <1>2, <1>4, <1>5 DEF CIInv, Filling, Untroubled
<1> QED BY <1>6, <1>7, <1>8, <1>9, <1>11, <1>12, <1>13, OneStep DEF CIInv

(***************************************************************************)
(* An agent's configuration is rewritten: by the connection, as selected;  *)
(* by hand, or by what a quit has left behind, for others only.            *)
(***************************************************************************)
LEMMA RewrittenIs ==
  ASSUME CIInv, NEW i \in Call, Rewriting(i)
  PROVE  /\ Configuration(Rewritten(i), Handler)
         /\ removeMemoraHooks(Rewritten(i)) = removeMemoraHooks(base[i])
         /\ calls[i].kind = "configure" =>
              IF Head(left[i]) \in calls[i].selected THEN Valid(Rewritten(i), cliScript)
                                                     ELSE removeMemoraHooks(Rewritten(i)) = Rewritten(i)
<1>1. Configuration(base[i], Handler) /\ calls[i] \in CallType
  BY DEF CIInv, InHand, Rewriting
<1>2. WithCli(i) \in CliPath
  BY <1>1, ConnectionsAssumption DEF WithCli, CallType
<1>3. CASE Installs(i)
  BY <1>1, <1>2, <1>3, MergedIs DEF Rewritten, Installs, WithCli
<1>4. CASE ~Installs(i)
  BY <1>1, <1>4, RemovedIs DEF Rewritten, Installs
<1> QED BY <1>3, <1>4

LEMMA FillConfigKeeps ==
  ASSUME CIInv, NEW i \in Call, FillConfig(i) PROVE CIInv'
<1> DEFINE label == IF calls[i].kind = "configure" THEN "hooks" ELSE "done"
<1>1. label \in Labels /\ Goto(i, label) /\ label \in {"hooks", "done"}
  BY DEF Labels, FillConfig, Ended
<1>2. /\ at[i] = "fill config" /\ Rewriting(i) /\ Replacing(i) /\ at'[i] = label /\ at' \in [Call -> Labels]
      /\ \A j \in Call \ {i} : at'[j] = at[j]
  BY <1>1, Moves DEF FillConfig, Rewriting, Replacing
<1>3. /\ calls[i] \in CallType /\ calls[i].kind \in {"configure", "install", "uninstall"}
      /\ patch[i] = None /\ left[i] # <<>>
      /\ label = "hooks" => calls[i].kind = "configure"
  BY <1>2 DEF CIInv, InHand, Setting, Rewriting
<1>4. PICK p \in Provider : p = Head(left[i]) /\ Tail(left[i]) \in Seq(Provider)
  BY <1>3, HeadOfLeft
<1>5. /\ \A q \in Provider \ {p} : config'[q] = config[q]
      /\ config' = [q \in Provider |-> config'[q]]
      /\ \/ config'[p] = Rewritten(i) /\ emptied' = emptied \ {p}
         \/ config'[p] = config[p] /\ p \notin emptied /\ emptied' = emptied \cup {p}
  BY <1>4 DEF CIInv, CTypeOK, FillConfig
<1>6. /\ left'[i] = Tail(left[i]) /\ left' \in [Call -> Seq(Provider)]
      /\ \A j \in Call \ {i} : left'[j] = left[j]
  BY <1>4 DEF CIInv, CTypeOK, FillConfig
<1>7. /\ base'[i] = None /\ base' = [j \in Call |-> base'[j]]
      /\ \A j \in Call \ {i} : base'[j] = base[j]
  BY DEF CIInv, Memory, FillConfig, Hold
<1>8. /\ Configuration(config'[p], Handler)
      /\ config'[p] = config[p] \/ removeMemoraHooks(config'[p]) = removeMemoraHooks(base[i])
      /\ p \in emptied /\ calls[i].kind = "configure" =>
           IF p \in calls[i].selected THEN Valid(config'[p], cliScript) ELSE Clean(p)'
  BY <1>2, <1>4, <1>5, RewrittenIs DEF CIInv, CTypeOK, Clean
<1> HIDE DEF label
<1>9. CTypeOK' /\ Memory'
  <2>1. CTypeOK'
    <3>1. \A q \in Provider : Configuration(config'[q], Handler)
      BY <1>5, <1>8 DEF CIInv, CTypeOK
    <3>2. emptied' \subseteq Provider
      BY <1>5 DEF CIInv, CTypeOK
    <3> QED BY <1>2, <1>5, <1>6, <3>1, <3>2 DEF CIInv, CTypeOK, FillConfig, history, Labels
  <2>2. Memory'
    BY <1>7 DEF CIInv, Memory, FillConfig, history
  <2> QED BY <2>1, <2>2
<1>10. StepOf(i) /\ InHand(i)'
  BY <1>1, <1>2, <1>3, <1>6, <1>7 DEF CIInv, FillConfig, history, StepOf, Grows, Same, InHand,
     Setting, Rewriting, Diagnosing, Settling, HasStatus
<1>11. KeepsWrites(i)
  BY <1>1, <1>2 DEF FillConfig, history, KeepsWrites, QuietWrite, Writing, Setting, Diagnosing
<1>12. KeepsTurn(i)
  BY <1>1, <1>2, <1>3 DEF FillConfig, history, KeepsTurn, QuietCall, Connecting, Active, Ended,
     ByHand, Rewriting
<1>16. /\ UNCHANGED <<saved, miscopied, users, byHand, trouble>>
       /\ ~Rewriting(i)' /\ ~Replacing(i)' /\ at'[i] # "fill config"
       /\ \A j \in Call \ {i} : /\ Rewriting(j)' = Rewriting(j) /\ Replacing(j)' = Replacing(j)
                               /\ at'[j] = at[j] /\ left'[j] = left[j] /\ base'[j] = base[j]
  BY <1>1, <1>2, <1>6, <1>7 DEF FillConfig, history, Rewriting, Replacing
<1>13. UsersKept'
  <2> SUFFICES ASSUME "raced" \notin trouble PROVE UsersKept'
    BY <1>16 DEF UsersKept
  <2>1. /\ \A q \in Provider : removeMemoraHooks(config[q]) = users[q]
        /\ \A q \in emptied : removeMemoraHooks(saved[q]) = users[q]
        /\ \A j \in Call : Rewriting(j) => removeMemoraHooks(base[j]) = users[Head(left[j])]
        /\ \A j \in Call : Replacing(j) =>
             removeMemoraHooks(saved[Head(left[j])]) = users[Head(left[j])]
    BY DEF CIInv, UsersKept
  <2>2. \A q \in Provider : removeMemoraHooks(config'[q]) = users[q]
    BY <1>2, <1>4, <1>5, <1>8, <2>1
  <2>3. \A q \in emptied' : removeMemoraHooks(saved[q]) = users[q]
    BY <1>2, <1>4, <1>5, <2>1
  <2> QED BY <1>16, <2>1, <2>2, <2>3 DEF UsersKept
<1>17. CopiesKept'
  <2> SUFFICES ASSUME "mingled" \notin trouble PROVE CopiesKept'
    BY <1>16 DEF CopiesKept
  <2>1. CopiesKept
    BY DEF CIInv
  <2>2. emptied' \subseteq emptied \cup {p} /\ p \notin miscopied
    BY <1>2, <1>4, <1>5, <2>1 DEF CopiesKept
  <2>3. \A j \in Call \ {i} : Rewriting(j) => Head(left[j]) # p
    BY <1>2, <1>4, <2>1 DEF CopiesKept
  <2> QED BY <1>16, <2>1, <2>2, <2>3 DEF CopiesKept
<1>18. Untroubled => p \in emptied \cup byHand
  BY <1>2, <1>4 DEF CIInv, Filling
<1>19. Filling'
  <2> SUFFICES ASSUME Untroubled PROVE Filling'
    BY <1>16 DEF Filling, Untroubled
  <2>1. Filling /\ CopiesKept /\ "mingled" \notin trouble
    BY DEF CIInv, Untroubled
  <2>2. \A j \in Call \ {i} : at[j] = "fill config" => Head(left[j]) # p
    BY <1>2, <1>4, <2>1 DEF CopiesKept, Rewriting
  <2>3. p \notin emptied' \ byHand /\ emptied' \subseteq emptied \cup {p} /\ emptied \ {p} \subseteq emptied'
    BY <1>5, <1>18
  <2>4. ASSUME NEW q \in emptied' \ byHand
        PROVE  \E j \in Call : at'[j] = "fill config" /\ Head(left'[j]) = q
    <3>1. q \in emptied \ byHand /\ q # p
      BY <2>3
    <3>2. PICK j \in Call : at[j] = "fill config" /\ Head(left[j]) = q
      BY <2>1, <3>1 DEF Filling
    <3> QED BY <1>4, <1>16, <3>1, <3>2
  <2>5. \A j \in Call : at'[j] = "fill config" => Head(left'[j]) \in emptied' \cup byHand
    BY <1>16, <2>1, <2>2, <2>3 DEF Filling
  <2> QED BY <1>16, <2>4, <2>5 DEF Filling
<1>14. Connected'
  <2> SUFFICES ASSUME Untroubled' PROVE Connected'
    BY DEF Connected
  <2>1. Untroubled
    BY <1>10 DEF StepOf, Grows, Untroubled
  <2>2. ByHand(i) /\ p \in emptied \cup byHand
    BY <1>18, <2>1 DEF CIInv, OneAtATime
  <2>3. CASE calls[i].kind = "configure"
    <3>1. \A j \in Call \ {i} : at[j] # "shell" /\ ~Installing(j) /\ ~Settling(j)
      BY <1>2, <2>1, <2>3, OnlyConnecting DEF Ended
    <3>2. Installing(i) /\ Installing(i)' /\ ~Settling(i)' /\ at'[i] # "shell"
      BY <1>2, <2>2, <2>3 DEF Installing, Settling, Setting, FillConfig, label
    <3>3. \A j \in Call \ {i} : at'[j] # "shell" /\ ~Installing(j)' /\ ~Settling(j)'
      BY <1>2, <3>1 DEF Installing, Settling, Setting, Rewriting, FillConfig
    <3>4. OnTheWay(i)
      BY <2>1, <3>2 DEF CIInv, Connected
    <3>5. Range(left[i]) \subseteq Range(left'[i]) \cup {p}
      BY <1>3, <1>4, <1>6, HeadOfLeft
    <3>6. ASSUME NEW q \in Provider \ byHand'
          PROVE  IF q \in Range(left'[i]) THEN q \notin calls'[i].selected \cup previous'[i] => Clean(q)'
                                          ELSE IF q \in calls'[i].selected THEN Valid(config'[q], cliScript) ELSE Clean(q)'
      <4>0. calls' = calls /\ previous' = previous
        BY DEF FillConfig
      <4>1. CASE q = p
        <5>1. p \in emptied
          BY <1>16, <2>2, <3>6, <4>1
        <5> QED BY <1>8, <2>3, <4>0, <4>1, <5>1
      <4>2. CASE q # p
        <5>1. config'[q] = config[q] /\ q \notin byHand
          BY <1>5, <3>6, <4>2 DEF FillConfig, history
        <5>2. IF q \in Range(left[i]) THEN q \notin calls[i].selected \cup previous[i] => Clean(q)
                                      ELSE Right(q, calls[i].selected)
          BY <3>4, <5>1 DEF OnTheWay
        <5>3. Clean(q)' <=> Clean(q)
          BY <5>1 DEF Clean
        <5>4. q \in Range(left'[i]) => q \in Range(left[i]) \/ (q \notin calls[i].selected => Clean(q))
          BY <5>2 DEF Right
        <5>5. q \notin Range(left'[i]) => q \notin Range(left[i])
          BY <3>5, <4>2
        <5> QED BY <4>0, <5>1, <5>2, <5>3, <5>4, <5>5 DEF Right
      <4> QED BY <4>1, <4>2
    <3>7. OnTheWay(i)'
      BY <3>4, <3>6 DEF OnTheWay, Right, Clean, FillConfig
    <3> QED BY <3>2, <3>3, <3>7 DEF Connected
  <2>4. CASE calls[i].kind # "configure"
    <3>1. p \in byHand /\ byHand' = byHand
      BY <1>4, <2>2, <2>4 DEF ByHand, Rewriting, FillConfig, history
    <3>2. KeepsHooks(i)
      BY <1>1, <1>2, <1>3, <1>5, <2>2, <2>4, <3>1 DEF FillConfig, history, KeepsHooks, Stays, Clean,
         QuietHook, Installing, Settling, Setting, Rewriting
    <3> QED BY <1>10, <3>2, OneStep
  <2> QED BY <2>3, <2>4
<1>15. KeepsShell(i)
  BY <1>2 DEF KeepsShell, FillConfig
<1> QED BY <1>9, <1>10, <1>11, <1>12, <1>13, <1>14, <1>15, <1>17, <1>19, OneStep DEF CIInv

LEMMA EditorsKeep ==
  ASSUME CIInv, NEW i \in Call, InstallEditorAdapters(i) PROVE CIInv'
<1> DEFINE fields == [onboarding_complete |-> TRUE, automatic_terminal_agents |-> calls[i].selected]
           rest == Filtered(terminalAdapters, calls[i].selected)
<1>1. "merge" \in Labels /\ Goto(i, "merge")
  BY DEF Labels, InstallEditorAdapters
<1>2. /\ at[i] = "editors" /\ at'[i] = "merge" /\ at' \in [Call -> Labels]
      /\ \A j \in Call \ {i} : at'[j] = at[j]
  BY <1>1, Moves DEF InstallEditorAdapters
<1>3. /\ calls[i] \in CallType /\ calls[i].kind = "configure" /\ left[i] = <<>>
      /\ patch[i] = None /\ base[i] = None
  BY <1>2 DEF CIInv, InHand, Setting, Rewriting, HasStatus, Diagnosing
<1>4. calls[i].selected \subseteq Provider
  BY <1>3 DEF CallType
<1>5. /\ fields \in Fields /\ fields.automatic_terminal_agents = calls[i].selected
      /\ "automatic_terminal_agents" \in DOMAIN fields /\ "last_diagnostics" \notin DOMAIN fields
  BY <1>4 DEF Fields
<1>6. rest \in Seq(Provider)
  BY ConnectionsAssumption, FilteredIs
<1>7. /\ patch'[i] = fields /\ patch' = [j \in Call |-> patch'[j]]
      /\ \A j \in Call \ {i} : patch'[j] = patch[j]
  BY DEF CIInv, Memory, InstallEditorAdapters
<1> HIDE DEF fields, rest
<1>8. /\ left' \in [Call -> Seq(Provider)] /\ previous' \in [Call -> SUBSET Provider]
      /\ \A j \in Call \ {i} : left'[j] = left[j] /\ previous'[j] = previous[j]
  BY <1>6 DEF CIInv, CTypeOK, InstallEditorAdapters, rest
<1>9. CTypeOK' /\ Memory'
  <2>1. CTypeOK'
    BY <1>2, <1>8 DEF CIInv, CTypeOK, InstallEditorAdapters, files, hookFiles, history, Labels
  <2>2. Memory'
    BY <1>7 DEF CIInv, Memory, InstallEditorAdapters, files, hookFiles, history
  <2> QED BY <2>1, <2>2
<1>10. StepOf(i) /\ InHand(i)'
  BY <1>2, <1>3, <1>5, <1>7, <1>8 DEF CIInv, InstallEditorAdapters, history, StepOf, Grows, Same, InHand,
     Setting, Rewriting, Diagnosing, Settling, HasStatus
<1>11. KeepsWrites(i) /\ KeepsUsers(i)
  BY <1>2, <1>3, <1>5, <1>7 DEF InstallEditorAdapters, files, hookFiles, history, KeepsWrites, KeepsUsers,
     QuietWrite, QuietRewrite, Writing, Setting, Diagnosing, Rewriting
<1>12. KeepsTurn(i)
  BY <1>2 DEF InstallEditorAdapters, files, hookFiles, history, KeepsTurn, QuietCall, Connecting, Active, Ended,
     ByHand, Rewriting
<1>13. Connected'
  <2> SUFFICES ASSUME Untroubled' PROVE Connected'
    BY DEF Connected
  <2>1. Untroubled
    BY <1>10 DEF StepOf, Grows, Untroubled
  <2>2. \A j \in Call \ {i} : at[j] # "shell" /\ ~Installing(j) /\ ~Settling(j)
    BY <1>2, <1>3, <2>1, OnlyConnecting DEF Ended
  <2>3. Installing(i) /\ Settling(i)' /\ ~Installing(i)' /\ at'[i] # "shell"
    BY <1>2, <1>3, <1>5, <1>7 DEF Installing, Settling, Setting, Rewriting
  <2>4. \A j \in Call \ {i} : at'[j] # "shell" /\ ~Installing(j)' /\ ~Settling(j)'
    BY <1>2, <1>7, <2>2 DEF Installing, Settling, Setting, Rewriting, InstallEditorAdapters
  <2>5. OnTheWay(i) /\ Range(left[i]) = {}
    BY <1>3, <2>1, <2>3 DEF CIInv, Connected, Range
  <2>6. AsSelected(calls[i].selected)
    BY <2>5 DEF OnTheWay, AsSelected
  <2>7. AsSelected(patch[i].automatic_terminal_agents)'
    BY <1>5, <1>7, <2>6 DEF AsSelected, Right, Clean, InstallEditorAdapters, files, hookFiles, history
  <2> QED BY <2>3, <2>4, <2>7 DEF Connected
<1>14. KeepsShell(i)
  BY <1>2 DEF KeepsShell, InstallEditorAdapters, files, hookFiles, history
<1> QED BY <1>9, <1>10, <1>11, <1>12, <1>13, <1>14, OneStep DEF CIInv
-----------------------------------------------------------------------------
(***************************************************************************)
(* Steps that fail, diagnoses, and writes of the settings.                 *)
(***************************************************************************)
LEMMA Forgets ==
  ASSUME CIInv, NEW is \in SUBSET Call, Forget(is)
  PROVE  /\ previous' \in [Call -> SUBSET Provider] /\ left' \in [Call -> Seq(Provider)]
         /\ base' = [j \in Call |-> base'[j]] /\ patch' = [j \in Call |-> patch'[j]]
         /\ calls' = [j \in Call |-> calls'[j]] /\ \A j \in Call \ is : calls'[j] = calls[j]
         /\ \A j \in is : previous'[j] = {} /\ left'[j] = <<>> /\ base'[j] = None /\ patch'[j] = None
         /\ \A j \in Call \ is : /\ previous'[j] = previous[j] /\ left'[j] = left[j]
                                 /\ base'[j] = base[j] /\ patch'[j] = patch[j]
<1>1. <<>> \in Seq(Provider)
  OBVIOUS
<1> QED BY <1>1 DEF CIInv, CTypeOK, Memory, Forget

LEMMA StepFailsKeeps ==
  ASSUME CIInv, NEW i \in Call, StepFails(i) PROVE CIInv'
<1>1. "stopped" \in Labels /\ Goto(i, "stopped")
  BY DEF Labels, Ended, StepFails
<1>2. /\ at[i] # "new" /\ at'[i] = "stopped" /\ at' \in [Call -> Labels]
      /\ \A j \in Call \ {i} : at'[j] = at[j]
  BY <1>1, Moves DEF StepFails
<1>3. /\ previous' \in [Call -> SUBSET Provider] /\ left' \in [Call -> Seq(Provider)]
      /\ base' = [j \in Call |-> base'[j]] /\ patch' = [j \in Call |-> patch'[j]]
      /\ calls' = [j \in Call |-> calls'[j]] /\ \A j \in Call \ {i} : calls'[j] = calls[j]
      /\ base'[i] = None /\ patch'[i] = None
      /\ \A j \in Call \ {i} : /\ previous'[j] = previous[j] /\ left'[j] = left[j]
                               /\ base'[j] = base[j] /\ patch'[j] = patch[j]
  <2>1. {i} \in SUBSET Call /\ Forget({i})
    BY DEF StepFails
  <2> QED BY <2>1, Forgets
<1>10. /\ UNCHANGED <<config, saved, users, byHand>> /\ trouble \subseteq trouble'
       /\ \/ emptied' = emptied /\ miscopied' = miscopied
          \/ /\ at[i] = "back up" /\ emptied' = emptied
             /\ miscopied' = miscopied \cup {Head(left[i])}
          \/ /\ at[i] = "fill config" /\ miscopied' = miscopied
             /\ emptied' = emptied \cup {Head(left[i])}
  BY DEF StepFails, Notes
<1>11. at[i] \in {"back up", "fill config"} => Head(left[i]) \in Provider
  BY HeadOfLeft DEF CIInv, InHand, Rewriting
<1>4. CTypeOK'
  <2>1. emptied' \subseteq Provider /\ miscopied' \subseteq Provider
    BY <1>10, <1>11 DEF CIInv, CTypeOK
  <2> QED BY <1>2, <1>3, <1>10, <2>1 DEF CIInv, CTypeOK, StepFails, Labels, Notes
<1>5. Memory'
  BY <1>3 DEF CIInv, Memory, StepFails
<1>6. StepOf(i) /\ InHand(i)'
  BY <1>2, <1>3 DEF CIInv, StepFails, Notes, StepOf, Grows, Same, InHand,
     Setting, Rewriting, Diagnosing, Settling, HasStatus
<1>7. KeepsWrites(i)
  BY <1>2 DEF StepFails, KeepsWrites, QuietWrite, Writing, Setting, Diagnosing
<1>12. /\ ~Rewriting(i)' /\ ~Replacing(i)'
       /\ at[i] \in {"back up", "fill config"} => Rewriting(i)
       /\ at[i] = "fill config" => Replacing(i)
       /\ \A j \in Call \ {i} : /\ Rewriting(j)' = Rewriting(j) /\ Replacing(j)' = Replacing(j)
                               /\ at'[j] = at[j] /\ left'[j] = left[j] /\ base'[j] = base[j]
       /\ \A j \in Call : Replacing(j) => Rewriting(j)
  BY <1>2, <1>3 DEF Rewriting, Replacing
<1>13. UsersKept'
  <2> SUFFICES ASSUME "raced" \notin trouble' PROVE UsersKept'
    BY DEF UsersKept
  <2>1. UsersKept /\ "raced" \notin trouble
    BY <1>10 DEF CIInv
  <2>2. ASSUME NEW q \in emptied' PROVE removeMemoraHooks(saved[q]) = users[q]
    <3>1. q \in emptied \/ (Replacing(i) /\ q = Head(left[i]))
      BY <1>10, <1>12
    <3> QED BY <2>1, <3>1 DEF UsersKept
  <2>3. \A j \in Call : Rewriting(j)' => removeMemoraHooks(base'[j]) = users[Head(left'[j])]
    BY <1>12, <2>1 DEF UsersKept
  <2>4. \A j \in Call : Replacing(j)' => removeMemoraHooks(saved[Head(left'[j])]) = users[Head(left'[j])]
    BY <1>12, <2>1 DEF UsersKept
  <2> QED BY <1>10, <2>1, <2>2, <2>3, <2>4 DEF UsersKept
<1>14. CopiesKept'
  <2> SUFFICES ASSUME "mingled" \notin trouble' PROVE CopiesKept'
    BY DEF CopiesKept
  <2>1. CopiesKept /\ "mingled" \notin trouble
    BY <1>10 DEF CIInv
  <2>2. at[i] \in {"back up", "fill config"} =>
          \A j \in Call \ {i} : Rewriting(j) => Head(left[j]) # Head(left[i])
    BY <1>12, <2>1 DEF CopiesKept
  <2>3. at[i] = "back up" => Head(left[i]) \notin emptied
    BY <1>12, <2>1 DEF CopiesKept
  <2>4. at[i] = "fill config" => Head(left[i]) \notin miscopied
    BY <1>12, <2>1 DEF CopiesKept
  <2> QED BY <1>10, <1>12, <2>1, <2>2, <2>3, <2>4 DEF CopiesKept
<1>8. ~Untroubled'
  BY DEF StepFails, Notes, Untroubled
<1>9. OneAtATime' /\ Filling' /\ Connected' /\ Sourced'
  BY <1>8 DEF OneAtATime, Filling, Connected, Sourced
<1> QED BY <1>4, <1>5, <1>6, <1>7, <1>9, <1>13, <1>14, OneStep DEF CIInv

LEMMA RunDiagnosticKeeps ==
  ASSUME CIInv, NEW i \in Call, RunDiagnostic(i) PROVE CIInv'
<1>1. "note" \in Labels /\ Goto(i, "note")
  BY DEF Labels, RunDiagnostic
<1>2. /\ at[i] = "diagnose" /\ at'[i] = "note" /\ at' \in [Call -> Labels]
      /\ \A j \in Call \ {i} : at'[j] = at[j]
  BY <1>1, Moves DEF RunDiagnostic
<1>3. /\ base'[i] \in {"ready", "needs_attention"} /\ base' = [j \in Call |-> base'[j]]
      /\ \A j \in Call \ {i} : base'[j] = base[j]
  BY DEF CIInv, Memory, RunDiagnostic, Hold, Diagnosis
<1>4. patch[i] = None /\ left[i] # <<>> /\ calls[i] \in CallType
  BY <1>2 DEF CIInv, InHand, Setting
<1>5. CTypeOK' /\ Memory'
  <2>1. CTypeOK'
    BY <1>2 DEF CIInv, CTypeOK, RunDiagnostic, files, hookFiles, history, Labels
  <2>2. Memory'
    BY <1>3 DEF CIInv, Memory, RunDiagnostic, files, hookFiles, history
  <2> QED BY <2>1, <2>2
<1>6. StepOf(i) /\ InHand(i)'
  BY <1>2, <1>3, <1>4 DEF CIInv, RunDiagnostic, history, StepOf, Grows, Same, InHand,
     Setting, Rewriting, Diagnosing, Settling, HasStatus
<1>7. KeepsWrites(i) /\ KeepsUsers(i) /\ KeepsTurn(i) /\ KeepsHooks(i)
  BY <1>2 DEF RunDiagnostic, files, hookFiles, history, KeepsWrites, KeepsUsers, KeepsTurn, KeepsHooks,
     QuietWrite, QuietRewrite, QuietCall, QuietHook, Stays, Clean, Writing, Setting, Diagnosing,
     Rewriting, Connecting, Active, Ended, ByHand, Installing, Settling
<1>8. KeepsShell(i)
  BY <1>2 DEF KeepsShell, RunDiagnostic, files, hookFiles, history
<1> QED BY <1>5, <1>6, <1>7, <1>8, OneStep DEF CIInv

LEMMA NoteDiagnosisKeeps ==
  ASSUME CIInv, NEW i \in Call, NoteDiagnosis(i) PROVE CIInv'
<1> DEFINE read == readIntegrationSettings.last_diagnostics
           p == Head(left[i])
           told == [read EXCEPT ![p] = base[i]]
           fields == [last_diagnostics |-> told]
<1>1. "merge" \in Labels /\ Goto(i, "merge")
  BY DEF Labels, NoteDiagnosis
<1>2. /\ at[i] = "note" /\ at'[i] = "merge" /\ at' \in [Call -> Labels]
      /\ \A j \in Call \ {i} : at'[j] = at[j]
  BY <1>1, Moves DEF NoteDiagnosis
<1>3. /\ base[i] \in {"ready", "needs_attention"} /\ left[i] # <<>> /\ calls[i] \in CallType
      /\ patch[i] = None
  BY <1>2 DEF CIInv, InHand, HasStatus, Setting
<1>4. read \in Diagnoses
  BY ReadIsSettings, SettingsAre DEF CIInv
<1>5. told \in Diagnoses /\ \A q \in Provider \ {p} : told[q] = read[q]
  BY <1>3, <1>4 DEF Diagnoses
<1> HIDE DEF read, told
<1>6. /\ fields \in Fields /\ DOMAIN fields = {"last_diagnostics"} /\ fields.last_diagnostics = told
      /\ "automatic_terminal_agents" \notin DOMAIN fields
  BY <1>5 DEF Fields
<1> HIDE DEF fields
<1>7. /\ patch'[i] = fields /\ patch' = [j \in Call |-> patch'[j]]
      /\ \A j \in Call \ {i} : patch'[j] = patch[j]
  BY DEF CIInv, Memory, NoteDiagnosis, fields, told, read
<1>8. CTypeOK' /\ Memory'
  <2>1. CTypeOK'
    BY <1>2 DEF CIInv, CTypeOK, NoteDiagnosis, files, hookFiles, Notes, ClashIf, TornIf, Labels
  <2>2. Memory'
    BY <1>7 DEF CIInv, Memory, NoteDiagnosis
  <2> QED BY <2>1, <2>2
<1>9. StepOf(i) /\ InHand(i)'
  BY <1>2, <1>3, <1>6, <1>7 DEF CIInv, NoteDiagnosis, Notes, StepOf, Grows, Same, InHand,
     Setting, Rewriting, Diagnosing, Settling, HasStatus
<1>10. KeepsUsers(i) /\ KeepsTurn(i) /\ KeepsHooks(i)
  BY <1>2, <1>6, <1>7 DEF NoteDiagnosis, files, hookFiles, KeepsUsers, KeepsTurn, KeepsHooks,
     QuietRewrite, QuietCall, QuietHook, Stays, Clean, Setting, Diagnosing,
     Rewriting, Connecting, Active, Ended, ByHand, Installing, Settling
<1>11. InOrder'
  <2> SUFFICES ASSUME InTurn' PROVE InOrder'
    BY DEF InOrder
  <2>1. InTurn /\ InOrder
    BY <1>9 DEF CIInv, StepOf, Grows, InTurn
  <2>2. settings # Torn /\ \A j \in Call \ {i} : ~Writing(j)
    BY DEF InTurn, NoteDiagnosis, Notes, ClashIf, TornIf
  <2>3. read = asked.last_diagnostics
    BY <2>1, <2>2 DEF InOrder, read
  <2>4. ASSUME NEW j \in Call \ {i} PROVE QuietWrite(j) /\ ~Writing(j)'
    BY <1>9, <2>2, SameIsQuiet DEF StepOf, QuietWrite
  <2>5. \A j, k \in Call : Writing(j)' /\ Writing(k)' => j = k
    BY <2>4
  <2>6. settings' # Torn => readIntegrationSettings' = asked'
    BY <2>1 DEF InOrder, readIntegrationSettings, NoteDiagnosis, files, hookFiles
  <2>7. ASSUME NEW j \in Call PROVE at'[j] \in {"truncate", "write"} => base'[j] = asked'
    BY <1>2, <2>1, <2>4 DEF InOrder, QuietWrite, NoteDiagnosis
  <2>8. ASSUME NEW j \in Call, Diagnosing(j)', NEW q \in Provider \ {Head(left'[j])}
        PROVE  patch'[j].last_diagnostics[q] = asked'.last_diagnostics[q]
    <3>1. CASE j = i
      BY <1>5, <1>6, <1>7, <2>3, <2>8, <3>1 DEF NoteDiagnosis
    <3>2. CASE j # i
      BY <2>1, <2>4, <2>8, <3>2 DEF InOrder, QuietWrite, NoteDiagnosis
    <3> QED BY <3>1, <3>2
  <2> QED BY <2>5, <2>6, <2>7, <2>8 DEF InOrder
<1>12. KeepsShell(i)
  BY <1>2 DEF KeepsShell, NoteDiagnosis, files, hookFiles, Notes
<1> QED BY <1>8, <1>9, <1>10, <1>11, <1>12, OneStep DEF CIInv

LEMMA MergeKeeps ==
  ASSUME CIInv, NEW i \in Call, Merge(i) PROVE CIInv'
<1>1. "truncate" \in Labels /\ Goto(i, "truncate")
  BY DEF Labels, Merge
<1>2. /\ at[i] = "merge" /\ at'[i] = "truncate" /\ at' \in [Call -> Labels]
      /\ \A j \in Call \ {i} : at'[j] = at[j]
  BY <1>1, Moves DEF Merge
<1>3. /\ base'[i] = readIntegrationSettings /\ base' = [j \in Call |-> base'[j]]
      /\ \A j \in Call \ {i} : base'[j] = base[j]
  BY DEF CIInv, Memory, Merge, Hold
<1>4. readIntegrationSettings \in Settings
  BY ReadIsSettings DEF CIInv
<1>5. CTypeOK' /\ Memory'
  <2>1. CTypeOK'
    BY <1>2 DEF CIInv, CTypeOK, Merge, files, hookFiles, Notes, ClashIf, TornIf, Labels
  <2>2. Memory'
    BY <1>3 DEF CIInv, Memory, Merge
  <2> QED BY <2>1, <2>2
<1>6. StepOf(i) /\ InHand(i)'
  BY <1>2, <1>3, <1>4 DEF CIInv, Merge, Notes, StepOf, Grows, Same, InHand,
     Setting, Rewriting, Diagnosing, Settling, HasStatus
<1>7. KeepsUsers(i) /\ KeepsTurn(i) /\ KeepsHooks(i)
  BY <1>2 DEF Merge, files, hookFiles, KeepsUsers, KeepsTurn, KeepsHooks,
     QuietRewrite, QuietCall, QuietHook, Stays, Clean, Setting,
     Rewriting, Connecting, Active, Ended, ByHand, Installing, Settling
<1>8. InOrder'
  <2> SUFFICES ASSUME InTurn' PROVE InOrder'
    BY DEF InOrder
  <2>1. InTurn /\ InOrder
    BY <1>6 DEF CIInv, StepOf, Grows, InTurn
  <2>2. settings # Torn /\ \A j \in Call \ {i} : ~Writing(j)
    BY DEF InTurn, Merge, Notes, ClashIf, TornIf
  <2>3. readIntegrationSettings = asked
    BY <2>1, <2>2 DEF InOrder
  <2>4. ASSUME NEW j \in Call \ {i} PROVE QuietWrite(j) /\ ~Writing(j)'
    BY <1>6, <2>2, SameIsQuiet DEF StepOf, QuietWrite
  <2>5. \A j, k \in Call : Writing(j)' /\ Writing(k)' => j = k
    BY <2>4
  <2>6. settings' # Torn => readIntegrationSettings' = asked'
    BY <2>1 DEF InOrder, readIntegrationSettings, Merge, files, hookFiles
  <2>7. ASSUME NEW j \in Call PROVE at'[j] \in {"truncate", "write"} => base'[j] = asked'
    BY <1>3, <2>1, <2>3, <2>4 DEF InOrder, QuietWrite, Merge
  <2>8. ASSUME NEW j \in Call
        PROVE  Diagnosing(j)' => Diagnosing(j) /\ patch'[j] = patch[j] /\ left'[j] = left[j]
    BY <1>2, <2>4 DEF QuietWrite, Diagnosing, Setting, Merge
  <2>9. \A j \in Call : Diagnosing(j)' =>
          \A q \in Provider \ {Head(left'[j])} :
            patch'[j].last_diagnostics[q] = asked'.last_diagnostics[q]
    BY <2>1, <2>8 DEF InOrder, Merge
  <2> QED BY <2>5, <2>6, <2>7, <2>9 DEF InOrder
<1>9. KeepsShell(i)
  BY <1>2 DEF KeepsShell, Merge, files, hookFiles, Notes
<1> QED BY <1>5, <1>6, <1>7, <1>8, <1>9, OneStep DEF CIInv

LEMMA TruncateKeeps ==
  ASSUME CIInv, NEW i \in Call, Truncate(i) PROVE CIInv'
<1>1. "write" \in Labels /\ Goto(i, "write")
  BY DEF Labels, Truncate
<1>2. /\ at[i] = "truncate" /\ at'[i] = "write" /\ at' \in [Call -> Labels]
      /\ \A j \in Call \ {i} : at'[j] = at[j]
  BY <1>1, Moves DEF Truncate
<1>3. CTypeOK' /\ Memory'
  <2>1. CTypeOK'
    BY <1>2 DEF CIInv, CTypeOK, Truncate, hookFiles, memory, history, Labels
  <2>2. Memory'
    BY DEF CIInv, Memory, Truncate, hookFiles, memory, history
  <2> QED BY <2>1, <2>2
<1>4. StepOf(i) /\ InHand(i)'
  BY <1>2 DEF CIInv, Truncate, hookFiles, memory, history, StepOf, Grows, Same, InHand,
     Setting, Rewriting, Diagnosing, Settling, HasStatus
<1>5. KeepsWrites(i) /\ KeepsUsers(i) /\ KeepsTurn(i) /\ KeepsHooks(i)
  BY <1>2 DEF Truncate, hookFiles, memory, history, KeepsWrites, KeepsUsers, KeepsTurn, KeepsHooks,
     QuietWrite, QuietRewrite, QuietCall, QuietHook, Stays, Clean, Writing, Setting, Diagnosing,
     Rewriting, Connecting, Active, Ended, ByHand, Installing, Settling
<1>6. KeepsShell(i)
  BY <1>2 DEF KeepsShell, Truncate, history
<1> QED BY <1>3, <1>4, <1>5, <1>6, OneStep DEF CIInv

(* A write sets what is asked: nothing else was, since it read the settings. *)
LEMMA WriteKeeps ==
  ASSUME CIInv, NEW i \in Call, Write(i) PROVE CIInv'
<1> DEFINE diagnosis == "last_diagnostics" \in DOMAIN patch[i]
           rest == IF diagnosis THEN Tail(left[i]) ELSE left[i]
           label == IF rest = <<>> THEN "done" ELSE "diagnose"
<1>1. label \in Labels /\ Goto(i, label) /\ label \in {"done", "diagnose"}
  BY DEF Labels, Ended, Write
<1>2. /\ at[i] = "write" /\ at'[i] = label /\ at' \in [Call -> Labels]
      /\ \A j \in Call \ {i} : at'[j] = at[j]
  BY <1>1, Moves DEF Write
<1>3. /\ patch[i] \in Fields /\ base[i] \in Settings /\ calls[i] \in CallType
      /\ diagnosis => left[i] # <<>>
  BY <1>2 DEF CIInv, InHand, Setting, Diagnosing
<1>4. PICK f \in Fields : f = patch[i]
  BY <1>3
<1>5. PICK p : p = Head(left[i]) /\ (diagnosis => p \in Provider)
  BY <1>3, HeadOfLeft
<1>6. rest \in Seq(Provider) /\ (label = "diagnose" => rest # <<>>)
  BY <1>3, HeadOfLeft DEF CIInv, CTypeOK
<1>7. asked \in Settings
  BY DEF CIInv, CTypeOK
<1>8. /\ settings' = mergeIntegrationSettings(base[i], f)
      /\ settings' \in Settings /\ settings' \notin {None, Torn}
      /\ readIntegrationSettings' = settings'
  <2>1. settings' = mergeIntegrationSettings(base[i], f)
    BY <1>4 DEF Write
  <2>2. settings' \in Settings
    BY <1>3, <2>1, MergedSettings
  <2> QED BY <2>1, <2>2, StoredAre DEF readIntegrationSettings
<1>9. /\ asked' \in Settings
      /\ asked'.automatic_terminal_agents =
           IF "automatic_terminal_agents" \in DOMAIN f THEN f.automatic_terminal_agents
                                                       ELSE asked.automatic_terminal_agents
      /\ (diagnosis => \A q \in Provider \ {p} : f.last_diagnostics[q] = asked.last_diagnostics[q])
           => asked' = mergeIntegrationSettings(asked, f)
  <2>1. CASE diagnosis
    <3>1. asked' = [asked EXCEPT !.last_diagnostics[p] = f.last_diagnostics[p]]
      BY <1>4, <1>5, <2>1 DEF Write
    <3>2. DOMAIN f = {"last_diagnostics"}
      BY <1>4, <2>1, FieldsAre
    <3> QED BY <1>4, <1>5, <1>7, <2>1, <3>1, <3>2, NotedIsMerged
  <2>2. CASE ~diagnosis
    <3>1. asked' = [field \in DOMAIN asked |-> IF field \in DOMAIN f THEN f[field] ELSE asked[field]]
      BY <1>4, <2>2 DEF Write
    <3> QED BY <1>4, <1>7, <2>2, <3>1, MeantIsMerged, MergedSettings
  <2> QED BY <2>1, <2>2
<1>10. left' = [left EXCEPT ![i] = rest] /\ patch' = [patch EXCEPT ![i] = None]
       /\ base' = [base EXCEPT ![i] = None]
  BY DEF Write, Hold
<1> HIDE DEF diagnosis, rest, label
<1>11. /\ left'[i] = rest /\ patch'[i] = None /\ base'[i] = None
       /\ left' \in [Call -> Seq(Provider)]
       /\ patch' = [j \in Call |-> patch'[j]] /\ base' = [j \in Call |-> base'[j]]
       /\ \A j \in Call \ {i} : left'[j] = left[j] /\ patch'[j] = patch[j] /\ base'[j] = base[j]
  BY <1>6, <1>10 DEF CIInv, CTypeOK, Memory
<1>12. CTypeOK' /\ Memory'
  <2>1. CTypeOK'
    BY <1>2, <1>8, <1>9, <1>11 DEF CIInv, CTypeOK, Write, hookFiles, Labels
  <2>2. Memory'
    BY <1>11 DEF CIInv, Memory, Write
  <2> QED BY <2>1, <2>2
<1>13. /\ trouble' = trouble /\ byHand' = byHand /\ calls' = calls /\ previous' = previous
       /\ config' = config /\ wrapper' = wrapper /\ sourced' = sourced /\ users' = users
       /\ UNCHANGED <<hookFiles, users>>
       /\ emptied' = emptied /\ saved' = saved /\ miscopied' = miscopied
  BY DEF Write, hookFiles
<1>14. StepOf(i) /\ InHand(i)'
  BY <1>1, <1>2, <1>3, <1>6, <1>11, <1>13 DEF CIInv, StepOf, Grows, Same, InHand,
     Setting, Rewriting, Diagnosing, Settling, HasStatus
<1>15. KeepsUsers(i) /\ KeepsTurn(i)
  BY <1>1, <1>2, <1>8, <1>13 DEF KeepsUsers, KeepsTurn, QuietRewrite, QuietCall, Rewriting,
     Connecting, Active, Ended, ByHand
<1>16. InOrder'
  <2> SUFFICES ASSUME InTurn' PROVE InOrder'
    BY DEF InOrder
  <2>1. InTurn /\ InOrder
    BY <1>13 DEF CIInv, InTurn
  <2>2. Writing(i) /\ \A j \in Call \ {i} : ~Writing(j)
    BY <1>2, <2>1 DEF InOrder, Writing
  <2>3. ASSUME NEW j \in Call PROVE ~Writing(j)' /\ ~Diagnosing(j)'
    <3>1. CASE j = i
      BY <1>1, <1>2, <3>1 DEF Writing, Diagnosing, Setting
    <3>2. CASE j # i
      <4>1. ~Writing(j) /\ InHand(j)
        BY <2>2, <3>2 DEF CIInv
      <4>2. ~Diagnosing(j)
        BY <4>1, ApartAssumption DEF InHand, Writing, Diagnosing, Setting, HasStatus
      <4> QED BY <1>2, <1>11, <3>2, <4>1, <4>2 DEF Writing, Diagnosing, Setting
    <3> QED BY <3>1, <3>2
  <2>4. \A j \in Call : at'[j] \notin {"truncate", "write"}
    BY <2>3 DEF Writing
  <2>5. base[i] = asked
    BY <1>2, <2>1 DEF InOrder
  <2>6. diagnosis => \A q \in Provider \ {p} : f.last_diagnostics[q] = asked.last_diagnostics[q]
    BY <1>2, <1>4, <1>5, <2>1 DEF InOrder, Diagnosing, Setting, diagnosis
  <2>7. readIntegrationSettings' = asked'
    BY <1>8, <1>9, <2>5, <2>6
  <2> QED BY <2>3, <2>4, <2>7 DEF InOrder
<1>17. Connected'
  <2> SUFFICES ASSUME Untroubled' PROVE Connected'
    BY DEF Connected
  <2>1. Untroubled
    BY <1>13 DEF Untroubled
  <2>2. ~Installing(i) /\ ~Installing(i)' /\ ~Settling(i)' /\ at'[i] # "shell"
    BY <1>1, <1>2 DEF Installing, Settling, Setting, Rewriting
  <2>3. CASE Settling(i)
    <3>1. calls[i].kind = "configure"
      BY <2>3 DEF CIInv, InHand
    <3>2. \A j \in Call \ {i} : at[j] # "shell" /\ ~Installing(j) /\ ~Settling(j)
      BY <1>2, <2>1, <3>1, OnlyConnecting DEF Ended
    <3>3. \A j \in Call \ {i} : at'[j] # "shell" /\ ~Installing(j)' /\ ~Settling(j)'
      BY <1>2, <1>11, <1>13, <3>2 DEF Installing, Settling, Setting, Rewriting
    <3>4. AsSelected(f.automatic_terminal_agents)
      BY <1>4, <2>1, <2>3 DEF CIInv, Connected
    <3>5. asked'.automatic_terminal_agents = f.automatic_terminal_agents
      BY <1>4, <1>9, <2>3 DEF Settling
    <3>6. AsSelected(asked.automatic_terminal_agents)'
      BY <1>13, <3>4, <3>5 DEF AsSelected, Right, Clean
    <3> QED BY <2>2, <3>3, <3>6 DEF Connected
  <2>4. CASE ~Settling(i)
    <3>1. "automatic_terminal_agents" \notin DOMAIN f
      BY <1>2, <1>4, <2>4 DEF Settling, Setting
    <3>2. KeepsHooks(i)
      BY <1>2, <1>9, <1>13, <2>2, <2>4, <3>1 DEF KeepsHooks, Stays, Clean, QuietHook
    <3> QED BY <1>14, <3>2, OneStep
  <2> QED BY <2>3, <2>4
<1>18. KeepsShell(i)
  BY <1>2, <1>13 DEF KeepsShell
<1> QED BY <1>12, <1>14, <1>15, <1>16, <1>17, <1>18, OneStep DEF CIInv
-----------------------------------------------------------------------------
(***************************************************************************)
(* The wrapper is removed, the user edits, the desktop quits.              *)
(***************************************************************************)
LEMMA StripRcKeeps ==
  ASSUME CIInv, NEW i \in Call, StripRc(i) PROVE CIInv'
<1>1. "disable" \in Labels /\ Goto(i, "disable")
  BY DEF Labels, StripRc
<1>2. /\ at[i] = "strip" /\ at'[i] = "disable" /\ at' \in [Call -> Labels]
      /\ \A j \in Call \ {i} : at'[j] = at[j]
  BY <1>1, Moves DEF StripRc
<1>3. CTypeOK' /\ Memory'
  <2>1. CTypeOK'
    BY <1>2 DEF CIInv, CTypeOK, StripRc, hookFiles, memory, history, Labels
  <2>2. Memory'
    BY DEF CIInv, Memory, StripRc, hookFiles, memory, history
  <2> QED BY <2>1, <2>2
<1>4. StepOf(i) /\ InHand(i)'
  BY <1>2 DEF CIInv, StripRc, hookFiles, memory, history, StepOf, Grows, Same, InHand,
     Setting, Rewriting, Diagnosing, Settling, HasStatus
<1>5. KeepsWrites(i) /\ KeepsUsers(i) /\ KeepsTurn(i) /\ KeepsHooks(i)
  BY <1>2 DEF StripRc, hookFiles, memory, history, KeepsWrites, KeepsUsers, KeepsTurn, KeepsHooks,
     QuietWrite, QuietRewrite, QuietCall, QuietHook, Stays, Clean, Writing, Setting, Diagnosing,
     Rewriting, Connecting, Active, Ended, ByHand, Installing, Settling
<1>6. Sourced'
  BY <1>2 DEF CIInv, InHand, Sourced, StripRc, history
<1> QED BY <1>3, <1>4, <1>5, <1>6, OneStep DEF CIInv

LEMMA DisableWrapperKeeps ==
  ASSUME CIInv, NEW i \in Call, DisableWrapper(i) PROVE CIInv'
<1>1. "done" \in Labels /\ Goto(i, "done")
  BY DEF Labels, Ended, DisableWrapper
<1>2. /\ at[i] = "disable" /\ at'[i] = "done" /\ at' \in [Call -> Labels]
      /\ \A j \in Call \ {i} : at'[j] = at[j]
  BY <1>1, Moves DEF DisableWrapper
<1>3. CTypeOK' /\ Memory'
  <2>1. CTypeOK'
    BY <1>2 DEF CIInv, CTypeOK, DisableWrapper, hookFiles, memory, history, Labels
  <2>2. Memory'
    BY DEF CIInv, Memory, DisableWrapper, hookFiles, memory, history
  <2> QED BY <2>1, <2>2
<1>4. StepOf(i) /\ InHand(i)'
  BY <1>2 DEF CIInv, DisableWrapper, hookFiles, memory, history, StepOf, Grows, Same, InHand,
     Setting, Rewriting, Diagnosing, Settling, HasStatus
<1>5. KeepsWrites(i) /\ KeepsUsers(i) /\ KeepsTurn(i) /\ KeepsHooks(i)
  BY <1>2 DEF DisableWrapper, hookFiles, memory, history, KeepsWrites, KeepsUsers, KeepsTurn, KeepsHooks,
     QuietWrite, QuietRewrite, QuietCall, QuietHook, Stays, Clean, Writing, Setting, Diagnosing,
     Rewriting, Connecting, Active, Ended, ByHand, Installing, Settling
<1>6. Sourced'
  BY DEF Sourced, DisableWrapper
<1> QED BY <1>3, <1>4, <1>5, <1>6, OneStep DEF CIInv

LEMMA EditConfigKeeps ==
  ASSUME CIInv, NEW p \in Provider, EditConfig(p) PROVE CIInv'
<1>0. PICK event \in Expected :
        \E edited \in {Beside(GroupsOf(config[p], event)), Among(GroupsOf(config[p], event)),
                      NotMemoras(GroupsOf(config[p], event))} \ {GroupsOf(config[p], event)} :
          /\ config' = [config EXCEPT ![p] =
               [e \in DOMAIN @ \cup {event} |-> IF e = event THEN edited ELSE @[e]]]
          /\ byHand' = byHand \cup {q \in {p} : edited = NotMemoras(GroupsOf(config[p], event))}
  BY DEF EditConfig
<1>1. PICK edited \in {Beside(GroupsOf(config[p], event)), Among(GroupsOf(config[p], event)),
                      NotMemoras(GroupsOf(config[p], event))} \ {GroupsOf(config[p], event)} :
        /\ config' = [config EXCEPT ![p] =
             [e \in DOMAIN @ \cup {event} |-> IF e = event THEN edited ELSE @[e]]]
        /\ byHand' = byHand \cup {q \in {p} : edited = NotMemoras(GroupsOf(config[p], event))}
  BY <1>0
<1>2. /\ calls' = calls /\ at' = at /\ previous' = previous /\ left' = left /\ base' = base
      /\ patch' = patch /\ settings' = settings /\ wrapper' = wrapper /\ sourced' = sourced
      /\ asked' = asked /\ emptied' = emptied /\ saved' = saved /\ miscopied' = miscopied
      /\ p \notin emptied
  BY DEF EditConfig, memory
<1>3. /\ users' = [users EXCEPT ![p] = removeMemoraHooks(config'[p])]
      /\ trouble' = trouble \cup {t \in {"raced"} : \E i \in Call : Rewriting(i) /\ Head(left[i]) = p}
  BY DEF EditConfig, Notes, Rewriting
<1>4. /\ config = [q \in Provider |-> config[q]] /\ Configuration(config[p], Handler)
      /\ users = [q \in Provider |-> users[q]]
  BY DEF CIInv, CTypeOK, Memory
<1>5. /\ config'[p] = [e \in DOMAIN config[p] \cup {event} |-> IF e = event THEN edited ELSE config[p][e]]
      /\ config' = [q \in Provider |-> config'[q]] /\ \A q \in Provider \ {p} : config'[q] = config[q]
  BY <1>1, <1>4
<1>6. /\ users'[p] = removeMemoraHooks(config'[p])
      /\ users' = [q \in Provider |-> users'[q]] /\ \A q \in Provider \ {p} : users'[q] = users[q]
  BY <1>3, <1>4
<1>7. /\ Configuration(config'[p], Handler)
      /\ edited # NotMemoras(GroupsOf(config[p], event)) => Stays(p)
  <2>1. cliScript \in CliPath
    BY ConnectionsAssumption
  <2> QED BY <1>4, <1>5, <2>1, EditedIs DEF Stays, Clean
<1>8. Grows /\ \A j \in Call : Same(j)
  BY <1>1, <1>2, <1>3 DEF Grows, Same
<1>9. ASSUME NEW j \in Call
      PROVE  /\ InHand(j)' /\ QuietWrite(j) /\ QuietRewrite(j) /\ QuietHook(j)
             /\ Connecting(j)' = Connecting(j) /\ (ByHand(j) => ByHand(j)')
  BY <1>8, SameInHand, SameIsQuiet DEF CIInv
<1>10. CTypeOK'
  BY <1>2, <1>3, <1>5, <1>7 DEF CIInv, CTypeOK
<1>11. Memory'
  BY <1>2, <1>6 DEF CIInv, Memory
<1>12. InOrder'
  BY <1>2, <1>8, <1>9, KeptQuietly DEF CIInv
<1>13. UsersKept'
  <2> SUFFICES ASSUME "raced" \notin trouble' PROVE UsersKept'
    BY DEF UsersKept
  <2>1. UsersKept /\ "raced" \notin trouble /\ \A i \in Call : Rewriting(i) => Head(left[i]) # p
    BY <1>3 DEF CIInv
  <2>2. \A q \in Provider : removeMemoraHooks(config'[q]) = users'[q]
    BY <1>5, <1>6, <2>1 DEF UsersKept
  <2>3. \A q \in emptied' : removeMemoraHooks(saved'[q]) = users'[q]
    BY <1>2, <1>6, <2>1 DEF UsersKept, CIInv, CTypeOK
  <2>4. ASSUME NEW i \in Call, Rewriting(i)
        PROVE  /\ removeMemoraHooks(base'[i]) = users'[Head(left'[i])]
               /\ Replacing(i) => removeMemoraHooks(saved'[Head(left'[i])]) = users'[Head(left'[i])]
    <3>1. left[i] # <<>>
      BY <2>4 DEF CIInv, InHand
    <3>2. Head(left[i]) \in Provider \ {p}
      BY <2>1, <2>4, <3>1, HeadOfLeft
    <3> QED BY <1>2, <1>6, <2>1, <2>4, <3>2 DEF UsersKept
  <2>5. ASSUME NEW i \in Call
        PROVE  Rewriting(i)' = Rewriting(i) /\ Replacing(i)' = Replacing(i) /\ (Replacing(i) => Rewriting(i))
    BY <1>2 DEF Rewriting, Replacing
  <2> QED BY <2>2, <2>3, <2>4, <2>5 DEF UsersKept
<1>17. CopiesKept' /\ Filling'
  BY <1>2, <1>8 DEF CIInv, CopiesKept, Filling, Rewriting, Replacing, Grows, Untroubled
<1>14. OneAtATime'
  <2>1. Untroubled' => Untroubled
    BY <1>8 DEF Untroubled, Grows
  <2>2. ASSUME NEW j \in Call PROVE QuietCall(j)
    BY <1>2, <1>9, <2>1 DEF CIInv, OneAtATime, QuietCall
  <2>3. Untroubled' /\ settings' = Torn => \E j \in Call : at'[j] = "write"
    BY <1>2, <2>1 DEF CIInv, OneAtATime
  <2> QED BY <1>8, <2>2, <2>3, TurnQuietly DEF CIInv
<1>15. Connected'
  <2>1. ASSUME NEW q \in Provider \ byHand' PROVE Stays(q)
    BY <1>1, <1>5, <1>7 DEF Stays, Clean
  <2> QED BY <1>2, <1>8, <1>9, <2>1, HooksQuietly DEF CIInv
<1>16. Sourced'
  BY <1>2, <1>8 DEF CIInv, Sourced, Grows, Untroubled
<1> QED BY <1>9, <1>10, <1>11, <1>12, <1>13, <1>14, <1>15, <1>16, <1>17 DEF CIInv

LEMMA RestoreConfigKeeps ==
  ASSUME CIInv, NEW p \in Provider, RestoreConfig(p) PROVE CIInv'
<1>1. /\ calls' = calls /\ at' = at /\ previous' = previous /\ left' = left /\ base' = base
      /\ patch' = patch /\ settings' = settings /\ wrapper' = wrapper /\ sourced' = sourced
      /\ asked' = asked /\ saved' = saved /\ miscopied' = miscopied /\ users' = users
      /\ p \in emptied /\ emptied' = emptied \ {p} /\ byHand' = byHand \cup {p}
      /\ trouble \subseteq trouble'
  BY DEF RestoreConfig, memory, Notes
<1>2. /\ config' = [q \in Provider |-> config'[q]] /\ config'[p] = saved[p]
      /\ \A q \in Provider \ {p} : config'[q] = config[q]
  BY DEF CIInv, CTypeOK, RestoreConfig
<1>3. Grows /\ \A j \in Call : Same(j)
  BY <1>1 DEF Grows, Same
<1>4. ASSUME NEW j \in Call
      PROVE  /\ InHand(j)' /\ QuietWrite(j) /\ QuietRewrite(j) /\ QuietHook(j)
             /\ Connecting(j)' = Connecting(j) /\ (ByHand(j) => ByHand(j)')
  BY <1>3, SameInHand, SameIsQuiet DEF CIInv
<1>5. CTypeOK'
  <2>1. \A q \in Provider : Configuration(config'[q], Handler)
    BY <1>2 DEF CIInv, CTypeOK
  <2>2. trouble' \subseteq trouble \cup {"raced"}
    BY DEF RestoreConfig, Notes
  <2> QED BY <1>1, <1>2, <2>1, <2>2 DEF CIInv, CTypeOK
<1>6. Memory'
  BY <1>1 DEF CIInv, Memory
<1>7. InOrder'
  BY <1>1, <1>3, <1>4, KeptQuietly DEF CIInv
<1>8. ASSUME NEW i \in Call PROVE Rewriting(i)' = Rewriting(i) /\ Replacing(i)' = Replacing(i)
  BY <1>1 DEF Rewriting, Replacing
<1>9. UsersKept'
  <2> SUFFICES ASSUME "raced" \notin trouble PROVE UsersKept'
    BY <1>1 DEF UsersKept
  <2>1. \A q \in Provider : removeMemoraHooks(config'[q]) = users[q]
    BY <1>1, <1>2 DEF CIInv, UsersKept
  <2> QED BY <1>1, <1>8, <2>1 DEF CIInv, UsersKept
<1>10. CopiesKept' /\ Filling'
  BY <1>1, <1>8 DEF CIInv, CopiesKept, Filling, Untroubled
<1>11. Untroubled' => Untroubled
  BY <1>1 DEF Untroubled
<1>12. OneAtATime'
  <2>1. ASSUME NEW j \in Call PROVE QuietCall(j)
    BY <1>4, <1>11 DEF CIInv, OneAtATime, QuietCall
  <2>2. Untroubled' /\ settings' = Torn => \E j \in Call : at'[j] = "write"
    BY <1>1, <1>11 DEF CIInv, OneAtATime
  <2> QED BY <1>3, <2>1, <2>2, TurnQuietly DEF CIInv
<1>13. Connected'
  <2>1. ASSUME NEW q \in Provider \ byHand' PROVE Stays(q)
    BY <1>1, <1>2 DEF Stays, Clean
  <2> QED BY <1>1, <1>3, <1>4, <2>1, HooksQuietly DEF CIInv
<1>14. Sourced'
  BY <1>1, <1>11 DEF CIInv, Sourced
<1> QED BY <1>4, <1>5, <1>6, <1>7, <1>9, <1>10, <1>12, <1>13, <1>14 DEF CIInv

LEMMA QuitKeeps ==
  ASSUME CIInv, Quit PROVE CIInv'
<1> DEFINE stopped == {i \in Call : Active(i) /\ InDesktop(i)}
           orphaned == {i \in stopped : Rewriting(i)}
<1>1. /\ calls' = [i \in Call |-> IF i \in orphaned THEN CommandOf(i)
                                 ELSE IF i \in stopped THEN None ELSE calls[i]]
      /\ at' = [i \in Call |-> IF i \in stopped \ orphaned THEN "stopped" ELSE at[i]]
      /\ previous' = [i \in Call |-> IF i \in stopped THEN {} ELSE previous[i]]
      /\ left' = [i \in Call |-> IF i \in orphaned THEN <<Head(left[i])>>
                                ELSE IF i \in stopped THEN <<>> ELSE left[i]]
      /\ base' = [i \in Call |-> IF i \in stopped \ orphaned THEN None ELSE base[i]]
      /\ patch' = [i \in Call |-> IF i \in stopped THEN None ELSE patch[i]]
  BY DEF Quit
<1>2. /\ UNCHANGED <<settings, hookFiles, wrapper, sourced, asked, users, byHand>>
      /\ trouble' = trouble \cup {"failed"}
  BY DEF Quit, Notes, files, hookFiles
<1>3. /\ \A j \in stopped : at[j] # "new"
      /\ \A j \in orphaned : Rewriting(j)
      /\ \A j \in stopped \ orphaned : ~Rewriting(j)
      /\ orphaned \subseteq stopped
  BY DEF Active
<1> HIDE DEF stopped, orphaned
<1>4. ASSUME NEW j \in orphaned, j \in Call
      PROVE  Head(left[j]) \in Provider /\ CommandOf(j) \in CallType
             /\ CommandOf(j).kind \in {"install", "uninstall"}
  <2>1. left[j] # <<>>
    BY <1>3, <1>4 DEF CIInv, InHand
  <2>2. Head(left[j]) \in Provider
    BY <1>4, <2>1, HeadOfLeft
  <2>3. CASE Installs(j)
    BY <2>2, <2>3, ConnectionsAssumption DEF CommandOf, CallType
  <2>4. CASE ~Installs(j)
    BY <2>2, <2>4 DEF CommandOf, CallType
  <2> QED BY <2>3, <2>4
<1>5. /\ previous' \in [Call -> SUBSET Provider] /\ left' \in [Call -> Seq(Provider)]
      /\ at' \in [Call -> Labels]
  <2>1. ASSUME NEW j \in Call PROVE left'[j] \in Seq(Provider)
    <3>1. CASE j \in orphaned
      <4>1. left'[j] = <<Head(left[j])>>
        BY <1>1, <3>1
      <4>2. Head(left[j]) \in Provider
        BY <1>4, <3>1
      <4> QED BY <4>1, <4>2
    <3>2. CASE j \in stopped \ orphaned
      <4>1. left'[j] = <<>>
        BY <1>1, <3>2
      <4> QED BY <4>1
    <3>3. CASE j \notin stopped
      BY <1>1, <1>3, <3>3 DEF CIInv, CTypeOK
    <3> QED BY <3>1, <3>2, <3>3
  <2>2. left' \in [Call -> Seq(Provider)]
    BY <1>1, <2>1
  <2>3. previous' \in [Call -> SUBSET Provider]
    BY <1>1 DEF CIInv, CTypeOK
  <2>4. at' \in [Call -> Labels]
    BY <1>1 DEF CIInv, CTypeOK, Labels, Ended
  <2> QED BY <2>2, <2>3, <2>4
<1>6. Grows
  BY <1>2 DEF Grows
<1>7. ASSUME NEW j \in Call PROVE InHand(j)' /\ QuietWrite(j) /\ QuietRewrite(j)
  <2>1. InHand(j)
    BY DEF CIInv
  <2>2. CASE j \in orphaned
    <3>1. /\ Rewriting(j) /\ at'[j] = at[j] /\ base'[j] = base[j] /\ patch'[j] = None
          /\ calls'[j] = CommandOf(j) /\ left'[j] = <<Head(left[j])>>
      BY <1>1, <1>3, <2>2
    <3>2. left'[j] # <<>> /\ Head(left'[j]) = Head(left[j])
      BY <3>1
    <3>3. InHand(j)'
      BY <1>4, <2>1, <2>2, <3>1, <3>2 DEF InHand, Setting, Rewriting, Diagnosing, Settling, HasStatus
    <3>4. QuietWrite(j) /\ QuietRewrite(j)
      BY <3>1, <3>2 DEF QuietWrite, QuietRewrite, Writing, Setting, Rewriting, Diagnosing
    <3> QED BY <3>3, <3>4
  <2>3. CASE j \in stopped \ orphaned
    <3>1. /\ at'[j] = "stopped" /\ base'[j] = None /\ patch'[j] = None /\ ~Rewriting(j)
      BY <1>1, <1>3, <2>3
    <3> QED BY <3>1 DEF InHand, QuietWrite, QuietRewrite, Writing,
         Setting, Rewriting, Diagnosing, Settling, HasStatus
  <2>4. CASE j \notin stopped
    <3>1. Same(j)
      BY <1>1, <1>3, <2>4 DEF Same
    <3> QED BY <1>6, <2>1, <3>1, SameInHand, SameIsQuiet
  <2> QED BY <2>2, <2>3, <2>4
<1>8. CTypeOK'
  BY <1>2, <1>5 DEF CIInv, CTypeOK, Labels, hookFiles
<1>9. Memory'
  BY <1>1, <1>2 DEF CIInv, Memory
<1>10. InOrder'
  BY <1>2, <1>6, <1>7, KeptQuietly DEF CIInv
<1>11. UsersKept' /\ CopiesKept' /\ Filling'
  BY <1>2, <1>6, <1>7, UsersQuietly DEF CIInv
<1>12. ~Untroubled'
  BY <1>2 DEF Untroubled
<1>13. OneAtATime' /\ Connected' /\ Sourced'
  BY <1>12 DEF OneAtATime, Connected, Sourced
<1> QED BY <1>7, <1>8, <1>9, <1>10, <1>11, <1>13 DEF CIInv
-----------------------------------------------------------------------------
LEMMA ConnectionsInductive == CIInv /\ [CNext]_cvars => CIInv'
<1> SUFFICES ASSUME CIInv, [CNext]_cvars PROVE CIInv'
  OBVIOUS
<1>1. ASSUME NEW i \in Call, BeginCall(i) PROVE CIInv'
  <2>1. ASSUME NEW p \in Provider, RunByHand(i, "uninstall", p, None) PROVE CIInv'
    BY <2>1, RunByHandKeeps
  <2>2. ASSUME NEW p \in Provider, NEW cli \in CliPath, RunByHand(i, "install", p, cli) PROVE CIInv'
    BY <2>2, RunByHandKeeps
  <2> QED BY <1>1, <2>1, <2>2, ConfigureKeeps, DiagnoseKeeps, SetReadingLevelKeeps, UninstallShellKeeps
       DEF BeginCall
<1>2. ASSUME NEW i \in Call, CallStep(i) PROVE CIInv'
  BY <1>2, ReadPreviousKeeps, WriteShellKeeps, AppendKeeps, NextAgentKeeps, ReadConfigKeeps, BackUpKeeps,
     EmptyKeeps, FillConfigKeeps, EditorsKeep, StepFailsKeeps, RunDiagnosticKeeps, NoteDiagnosisKeeps, MergeKeeps, TruncateKeeps,
     WriteKeeps, StripRcKeeps, DisableWrapperKeeps DEF CallStep
<1>3. ASSUME NEW p \in Provider, EditConfig(p) \/ RestoreConfig(p) PROVE CIInv'
  BY <1>3, EditConfigKeeps, RestoreConfigKeeps
<1>4. CASE UNCHANGED cvars
  <2> USE <1>4 DEF cvars, files, hookFiles, memory, history
  <2>1. Grows /\ \A j \in Call : Same(j)
    BY DEF Grows, Same
  <2>2. \A j \in Call : InHand(j)'
    BY <2>1, SameInHand DEF CIInv
  <2>3. CTypeOK' /\ Memory'
    BY DEF CIInv, CTypeOK, Memory
  <2>4. InOrder' /\ UsersKept' /\ CopiesKept' /\ Filling'
    BY <2>1, SameIsQuiet, KeptQuietly, UsersQuietly DEF CIInv
  <2>5. OneAtATime'
    BY DEF CIInv, OneAtATime, Untroubled, Connecting, Active, ByHand, Rewriting
  <2>6. Connected' /\ Sourced'
    <3>1. \A p \in Provider : Stays(p)
      BY DEF Stays, Clean
    <3> QED BY <2>1, <3>1, SameIsQuiet, HooksQuietly DEF CIInv, Sourced, Untroubled
  <2> QED BY <2>2, <2>3, <2>4, <2>5, <2>6 DEF CIInv
<1> QED BY <1>1, <1>2, <1>3, <1>4, QuitKeeps DEF CNext

(***************************************************************************)
(* Whatever agents there are, and however many handlers, commands, edits   *)
(* and quits interleave, the parts of the invariant above always hold:     *)
(* what calls have in hand, writes in turn, the user's groups in every     *)
(* configuration or in the copy beside it, and hooks and wrapper on the    *)
(* way to what is selected.                                                *)
(***************************************************************************)
THEOREM ConnectionsInvariance == CSpec => []CIInv
  BY ConnectionsInitially, ConnectionsInductive, PTL DEF CSpec

(***************************************************************************)
(* The settings file is missing, torn, as an older version left it or has  *)
(* every field; the configurations are lists of groups of known handlers.  *)
(***************************************************************************)
THEOREM ConnectionsTypes == CSpec => []CTypeOK
<1>1. CIInv => CTypeOK
  BY DEF CIInv
<1> QED BY <1>1, ConnectionsInvariance, PTL

(***************************************************************************)
(* "A write can never silently drop another feature's setting"             *)
(* (main.ts:158): true of any number of writes that neither overlap nor    *)
(* read the file while it is empty.                                        *)
(***************************************************************************)
THEOREM SettingsAreKept == CSpec => []SettingsKept
<1>1. CIInv => SettingsKept
  BY DEF CIInv, InOrder, InTurn, SettingsKept
<1> QED BY <1>1, ConnectionsInvariance, PTL

(***************************************************************************)
(* Hooks and wrapper are where the settings say, at rest and untroubled,   *)
(* for any agents, events, paths of the CLI and configurations the user    *)
(* starts with.  However calls fail and are cut short between the copy,    *)
(* the emptying and the filling of a configuration, the user's own groups  *)
(* are in the configuration or, if it is cut short, in the copy; both      *)
(* within the premises stated at HooksAsSelected.                          *)
(***************************************************************************)
THEOREM HooksWhereSelected == CSpec => []HooksAsSelected
<1>1. ASSUME CIInv PROVE HooksAsSelected
  <2> DEFINE agents == readIntegrationSettings.automatic_terminal_agents
  <2>1. ASSUME Idle, Untroubled
        PROVE  /\ AsSelected(agents) /\ emptied \subseteq byHand
               /\ wrapper = {} \/ sourced \/ "unwrapped" \in trouble
    <3>1. \A i \in Call : at[i] \in {"new"} \cup Ended
      BY <2>1 DEF Idle, Active
    <3>2. settings # Torn
      BY <1>1, <2>1, <3>1 DEF CIInv, OneAtATime, Ended
    <3>3. InTurn
      BY <2>1 DEF Untroubled, InTurn
    <3>4. readIntegrationSettings = asked
      BY <1>1, <3>2, <3>3 DEF CIInv, InOrder
    <3>5. \A i \in Call : ~Installing(i) /\ ~Settling(i)
      BY <3>1 DEF Installing, Settling, Setting, Rewriting, Ended
    <3>6. AsSelected(agents)
      BY <1>1, <2>1, <3>4, <3>5 DEF CIInv, Connected
    <3>7. emptied \subseteq byHand
      BY <1>1, <2>1, <3>1 DEF CIInv, Filling, Ended
    <3>8. wrapper = {} \/ sourced \/ "unwrapped" \in trouble
      BY <1>1, <2>1, <3>1 DEF CIInv, Sourced, Ended
    <3> QED BY <3>6, <3>7, <3>8
  <2> HIDE DEF agents
  <2>2. ASSUME Idle, trouble \subseteq {"raced", "unwrapped"}
        PROVE  /\ \A p \in Provider \ byHand :
                    /\ p \notin emptied
                    /\ p \in agents => Valid(config[p], cliScript)
                    /\ p \notin agents => removeMemoraHooks(config[p]) = config[p]
               /\ wrapper \subseteq agents /\ (wrapper = {} \/ sourced \/ "unwrapped" \in trouble)
    BY <2>1, <2>2 DEF Untroubled, AsSelected, Right, Clean
  <2>3. ASSUME "raced" \notin trouble, NEW p \in Provider
        PROVE  IF p \notin emptied THEN removeMemoraHooks(config[p]) = users[p]
               ELSE "mingled" \notin trouble => p \notin miscopied /\ removeMemoraHooks(saved[p]) = users[p]
    BY <1>1, <2>3 DEF CIInv, UsersKept, CopiesKept
  <2> QED BY <2>2, <2>3 DEF HooksAsSelected, agents
<1> QED BY <1>1, ConnectionsInvariance, PTL
=============================================================================
