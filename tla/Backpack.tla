------------------------------ MODULE Backpack ------------------------------
(***************************************************************************)
(* The items of one role on the central server: the ItemInterface of its   *)
(* LuaPlayer, with the worn equipment, the backpack and the bank, and the  *)
(* documents of player_items.  The Lua code runs on one thread and changes *)
(* memory in one go; each SaveToDB or DeleteFromDB is a write of its own,  *)
(* and the server may stop between two of them.                            *)
(*                                                                         *)
(* A prototype is its stack size, its way of binding and, for equipment,   *)
(* its place on the body.  The order of pairs() is free.  How much of a    *)
(* blood pack is used depends on the role's pool and is free.  Coins,      *)
(* mounts and the pool belong to the role's own document.                  *)
(***************************************************************************)
EXTENDS Integers, Sequences, FiniteSets, FiniteSetsExt, SequencesExt, Functions, TLC

CONSTANTS
  Protos,      \* item prototypes
  Equipment,   \* those of main class EQUIPMENT
  MaxCount,    \* proto.max_count, the size of a stack
  BindType,    \* proto.bind_type
  SubClass,    \* proto.sub_class, the place equipment is worn at
  GridLimit,   \* enumItemPackGridLimit of the backpack and of the bank
  MaxGuid,     \* bound on the item guids handed out
  MaxGrant,    \* bound on the amount created at once
  MaxCrashes   \* bound on the crashes

ASSUME ConstantsAssumption ==
  /\ Equipment \subseteq Protos
  /\ MaxCount \in [Protos -> Nat \ {0}]
  /\ \A p \in Equipment : MaxCount[p] = 1
  /\ BindType \in [Protos -> {"DEFAULT_BIND", "USE_TO_BIND", "NOT_BIND"}]
  /\ GridLimit \in [{"NORMAL", "BANK"} -> Nat \ {0}] /\ MaxGuid \in Nat /\ MaxGrant \in Nat
  /\ MaxCrashes \in Nat

VARIABLES
  bag,      \* pack_items and its items; high is __itemGuidHigh
  db,       \* player_items: guid -> document
  writes,   \* the guids the running operation still has to write, in turn
  up,       \* is the role loaded?
  op,       \* the last operation
  crashes

vars == <<bag, db, writes, up, op, crashes>>

Worn == "EQUIPMENT"
Normal == "NORMAL"
Bank == "BANK"
Packs == {Worn, Normal, Bank}
Guids == 1..MaxGuid

Items == [proto : Protos, amount : Nat, bind : BOOLEAN, pack : Packs]

NoItems == [g \in {} |-> 0]
Empty == [k \in Packs |-> {}]

\* One entry, and a table with the entries of another put in.
Only(g, value) == [h \in {g} |-> value]
With(table, new) ==
  [g \in DOMAIN table \cup DOMAIN new |-> IF g \in DOMAIN new THEN new[g] ELSE table[g]]

Sum(f) == FoldFunction(+, 0, f)
Ceiling(a, b) == (a + b - 1) \div b
GuidOrZero(S) == Max(S \cup {0})

Init ==
  /\ bag = [item |-> NoItems, packs |-> Empty, high |-> 0]
  /\ db = NoItems /\ writes = <<>>
  /\ up = TRUE /\ op = "load" /\ crashes = 0

-----------------------------------------------------------------------------
(* Operations on the items in memory *)

Amount(b, g) == b.item[g].amount
Room(b, g) == MaxCount[b.item[g].proto] - Amount(b, g)
SetItemAmount(b, f) ==
  [b EXCEPT !.item = [g \in DOMAIN b.item |->
    IF g \in DOMAIN f THEN [b.item[g] EXCEPT !.amount = f[g]] ELSE b.item[g]]]

\* The table of the pack and the item's own pack_index.
AddItemToSpecifyPack(b, g, i, k) ==
  [b EXCEPT !.item = With(b.item, Only(g, [i EXCEPT !.pack = k])), !.packs[k] = @ \cup {g}]

Detached(b, g) == [b EXCEPT !.packs[b.item[g].pack] = @ \ {g}]
MoveItem(b, g, k) == AddItemToSpecifyPack(Detached(b, g), g, b.item[g], k)

\* Mutant: a removed item is left in the table of its pack.
RemoveItemsLoosely(b, S) ==
  [b EXCEPT !.item = Restrict(b.item, DOMAIN b.item \ S)]

\* RemoveItemFromSpecifyPack, from memory: the table of the pack and the item.
RemoveItems(b, S) ==
  [b EXCEPT !.item = Restrict(b.item, DOMAIN b.item \ S),
            !.packs = [k \in Packs |-> b.packs[k] \ S]]

Binds(p) == BindType[p] = "DEFAULT_BIND"

\* The stacks that may take more units of a prototype.
Stacks(b, p, k) ==
  {g \in b.packs[k] : b.item[g].proto = p /\ b.item[g].bind = Binds(p) /\ Room(b, g) > 0}

\* At most one of them is filled or emptied in part.
AllButOne(f, whole) == \A g, h \in DOMAIN f :
  f[g] < whole[g] /\ f[h] < whole[h] => g = h

\* GetItemObjectCanContainItem: what each existing stack takes of n units.
ContainItem(b, p, n, k) ==
  LET S == IF MaxCount[p] <= 1 THEN {} ELSE Stacks(b, p, k)
      all == [g \in S |-> Room(b, g)]
  IN  IF Sum(all) <= n THEN {all}
      ELSE {f \in UNION {[T -> 1..n] : T \in SUBSET S} :
              /\ Sum(f) = n /\ \A g \in DOMAIN f : f[g] <= Room(b, g)
              /\ AllButOne(f, all)}

Remaining(b, p, n, k) ==
  n - Sum(CHOOSE f \in ContainItem(b, p, n, k) : TRUE)

Filled(b, f) == SetItemAmount(b, [g \in DOMAIN f |-> Amount(b, g) + f[g]])

\* GetItemObjectCanRemoveAmount: what is taken of each stack of the backpack.
RemoveAmount(b, p, n, bindFirst) ==
  LET S == {g \in b.packs[Normal] : b.item[g].proto = p}
      Bound == {g \in S : b.item[g].bind}
  IN  {f \in UNION {[T -> 1..n] : T \in SUBSET S} :
         /\ Sum(f) = n /\ \A g \in DOMAIN f : f[g] <= Amount(b, g)
         /\ AllButOne(f, [g \in S |-> Amount(b, g)])
         /\ bindFirst /\ ~(DOMAIN f \subseteq Bound)
              => \A g \in Bound : g \in DOMAIN f /\ f[g] = Amount(b, g)}

\* The bag after the units of f are taken, and the writes that go with it.
Taken(b, f) ==
  LET rest == [g \in DOMAIN f |-> Amount(b, g) - f[g]]
  IN  RemoveItems(SetItemAmount(b, rest), {g \in DOMAIN f : rest[g] = 0})

-----------------------------------------------------------------------------
(* Creation *)

\* The writes of one loop, if it has any to make.
Loop(S) == IF S = {} THEN <<>> ELSE <<S>>

CreateItemToBackpackCheck(b, p, n) ==
  LET remain == Remaining(b, p, n, Normal)
  IN  remain > 0 =>
        Cardinality(b.packs[Normal]) + Ceiling(remain, MaxCount[p]) <= GridLimit[Normal]

\* Every entry is checked against the same bag; the free slots are shared.
CanCreateItemListToBackpack(b, list) ==
  LET slots == [i \in DOMAIN list |->
                 Ceiling(Remaining(b, list[i][1], list[i][2], Normal), MaxCount[list[i][1]])]
  IN  Sum(slots) > 0 => Cardinality(b.packs[Normal]) + Sum(slots) <= GridLimit[Normal]

\* CreateItemToBackpack: fill the stacks, then put the rest into new ones.
\* Gives the bags it may lead to, each with the writes it makes.
CreateItemToBackpack(b, p, n) ==
  {LET remain == n - Sum(f)
       new == Ceiling(remain, MaxCount[p])
       stack(i) == [proto |-> p, bind |-> Binds(p), pack |-> Normal,
                    amount |-> IF i < new THEN MaxCount[p]
                                          ELSE remain - (new - 1) * MaxCount[p]]
       made == [g \in b.high + 1 .. b.high + new |-> stack(g - b.high)]
   IN  [bag |-> [item |-> With(Filled(b, f).item, made),
                 packs |-> With(b.packs, Only(Normal, b.packs[Normal] \cup DOMAIN made)),
                 high |-> b.high + new],
        writes |-> Loop(DOMAIN f) \o [i \in 1..new |-> {b.high + i}]]
   : f \in ContainItem(b, p, n, Normal)}

-----------------------------------------------------------------------------
(* The client's requests and the GM commands *)

Ready == up /\ writes = <<>>

Perform(name, b, w) ==
  /\ b.high <= MaxGuid
  /\ bag' = b /\ writes' = w
  /\ op' = name /\ UNCHANGED <<db, up, crashes>>

\* __gmGetItem
GetItem(p, n) ==
  /\ Ready /\ CreateItemToBackpackCheck(bag, p, n)
  /\ \E r \in CreateItemToBackpack(bag, p, n) : Perform("get", r.bag, r.writes)

\* HandleUseItem and __gmUseItem: some units of the stack are used.
HandleUseItem(g, n) ==
  LET i == bag.item[g]
      binds == BindType[i.proto] = "USE_TO_BIND"
  IN  /\ Ready /\ g \in bag.packs[Normal] /\ i.proto \notin Equipment
      /\ IF n = i.amount
           THEN Perform("use", RemoveItems(bag, {g}), <<{g}>>)
           ELSE /\ n < i.amount
                /\ Perform("use", [bag EXCEPT !.item[g].amount = @ - n,
                                              !.item[g].bind = @ \/ binds], <<{g}>>)

\* HandleSellItem: the coins are added once the item is written.
HandleSellItem(g, n) ==
  /\ Ready /\ g \in bag.packs[Normal] /\ n <= Amount(bag, g)
  /\ Perform("sell", Taken(bag, Only(g, n)), <<{g}>>)

Amounts == 1..MaxGrant
Grants == {<<>>} \cup {<<<<p, 1>>, <<p, n>>>> : p \in Protos, n \in Amounts}

\* One entry of a bonus, after what the entries before it led to.
Granted(r, e) ==
  IF CreateItemToBackpackCheck(r.bag, e[1], e[2])
    THEN {[bag |-> y.bag, writes |-> r.writes \o y.writes] :
            y \in CreateItemToBackpack(r.bag, e[1], e[2])}
    ELSE {r}

\* HandleDoMountAdvance: the needed items go, a level gained pays a bonus if
\* it fits into the backpack.
Bonus(r, list) ==
  LET granted[i \in 0..Len(list)] ==
        IF i = 0 THEN {r} ELSE UNION {Granted(x, list[i]) : x \in granted[i - 1]}
  IN  IF CanCreateItemListToBackpack(r.bag, list) THEN granted[Len(list)] ELSE {r}

HandleDoMountAdvance(p, n) ==
  /\ Ready
  /\ \E f \in RemoveAmount(bag, p, n, TRUE), list \in Grants :
       \E r \in Bonus([bag |-> Taken(bag, f), writes |-> Loop(DOMAIN f)], list) :
         Perform("mount", r.bag, r.writes)

\* __gmClearItemPack
ClearAllPackItems(S) ==
  LET gone == UNION {bag.packs[k] : k \in S}
  IN  Ready /\ Perform("clear", RemoveItems(bag, gone), Loop(gone))

-----------------------------------------------------------------------------
(* Moving an item to another pack *)

\* The item worn at the place an item goes to.
ExistItems(g, k) ==
  IF k # Worn THEN {}
  ELSE {h \in bag.packs[Worn] : SubClass[bag.item[h].proto] = SubClass[bag.item[g].proto]}

\* Mutant: a full pack takes any stack.
CanSwapStack(g, k) ==
  /\ bag.item[g].pack # k
  /\ k = Worn => bag.item[g].proto \in Equipment

CanSwapItemToSpecifyPack(g, k) ==
  LET i == bag.item[g]
  IN  /\ i.pack # k
      /\ k = Worn => i.proto \in Equipment
      /\ k # Worn /\ Remaining(bag, i.proto, i.amount, k) > 0
           => Cardinality(bag.packs[k]) < GridLimit[k]

SwapWrites(f, g) == Loop(DOMAIN f) \o <<{g}>>

\* Mutant: an item that was moved in part keeps its amount.
SwappedWhole(g, k, f) ==
  LET b == Filled(bag, f)
  IN  IF Amount(bag, g) > Sum(f) THEN MoveItem(b, g, k) ELSE RemoveItems(b, {g})

\* The item's units go to stacks of the other pack, the rest goes along.
Swapped(g, k, f) ==
  LET b == Filled(bag, f)
      remain == Amount(bag, g) - Sum(f)
  IN  IF remain > 0 THEN MoveItem(SetItemAmount(b, Only(g, remain)), g, k)
                    ELSE RemoveItems(b, {g})

\* Mutant: the item taken off is not saved.
PutBackUnsaved(r, h, src) == [bag |-> MoveItem(r.bag, h, src), writes |-> r.writes]

\* The item that was worn there is put into the pack the other came from.
PutBack(r, h, src) == [bag |-> MoveItem(r.bag, h, src), writes |-> Append(r.writes, {h})]

HandleSwapItem(g, k) ==
  LET i == bag.item[g]
      old == ExistItems(g, k)
  IN  /\ Ready /\ g \in DOMAIN bag.item
      /\ CanSwapItemToSpecifyPack(g, k)
      /\ \E f \in ContainItem(bag, i.proto, i.amount, k) :
           LET r == [bag |-> Swapped(g, k, f), writes |-> SwapWrites(f, g)]
           IN  IF old = {} THEN Perform("swap", r.bag, r.writes)
               ELSE \E h \in old : LET s == PutBack(r, h, i.pack)
                                   IN  Perform("swap", s.bag, s.writes)

-----------------------------------------------------------------------------
(* Tidying a pack up *)

MergedAmount(full, front, current) == Min({full, front + current})

\* The stacks of a prototype with room, of whatever binding, and the orders
\* that pairs() may find them in.
Mergeable(p, k) ==
  {g \in bag.packs[k] : bag.item[g].proto = p /\ MaxCount[p] > 1 /\ Room(bag, g) > 0}
Orders(k) ==
  {o \in [Protos -> UNION {SetToSeqs(Mergeable(p, k)) : p \in Protos}] :
     \A p \in Protos : o[p] \in SetToSeqs(Mergeable(p, k))}

\* The first stack with room.
NextFront(full, order, amount) ==
  SelectInSeq(order, LAMBDA g : amount[g] \in 1 .. full - 1)

\* The turn of one stack: it goes to the front one, and a full front is
\* replaced by the first with room.
MergeTurn(full, order, m, g) ==
  IF m.front = 0 \/ g = order[m.front] \/ m.amount[g] = full THEN m
  ELSE LET front == order[m.front]
           sum == MergedAmount(full, m.amount[front], m.amount[g])
           a == [m.amount EXCEPT ![front] = sum, ![g] = @ + m.amount[front] - sum]
       IN  [front |-> IF sum = full THEN NextFront(full, order, a) ELSE m.front,
            amount |-> a]

MergedStacks(full, order) ==
  LET start == [front |-> 1, amount |-> [g \in ToSet(order) |-> Amount(bag, g)]]
      merge[i \in 0..Len(order)] ==
        IF i = 0 THEN start ELSE MergeTurn(full, order, merge[i - 1], order[i])
  IN  merge[Len(order)].amount

\* MergePacketItems: the changed stacks are saved, then the empty ones deleted.
HandleMergePacketItems(k) ==
  /\ Ready /\ k # Worn
  /\ \E orders \in Orders(k) :
       LET new == [g \in UNION {Mergeable(p, k) : p \in Protos} |->
                    LET p == bag.item[g].proto
                    IN  MergedStacks(MaxCount[p], orders[p])[g]]
           changed == {g \in DOMAIN new : new[g] # Amount(bag, g)}
           gone == {g \in changed : new[g] = 0}
       IN  Perform("merge", RemoveItems(SetItemAmount(bag, new), gone),
                   Loop(changed \ gone) \o Loop(gone))

-----------------------------------------------------------------------------
(* The documents, the end of the session and the crash of the server *)

\* SaveToDB or DeleteFromDB: the items of one loop are written in any order.
Write(g) ==
  /\ writes # <<>> /\ g \in Head(writes)
  /\ db' = IF g \in DOMAIN bag.item THEN With(db, Only(g, bag.item[g]))
                                    ELSE Restrict(db, DOMAIN db \ {g})
  /\ writes' = IF Head(writes) = {g} THEN Tail(writes)
                                     ELSE <<Head(writes) \ {g}>> \o Tail(writes)
  /\ UNCHANGED <<bag, up, op, crashes>>

\* LuaPlayer:Logout; SaveItemsToDB has nothing dirty left to write.
Logout ==
  /\ Ready
  /\ up' = FALSE /\ op' = "logout"
  /\ bag' = [bag EXCEPT !.item = NoItems, !.packs = Empty]
  /\ UNCHANGED <<db, writes, crashes>>

\* LoadItemsFromDB, when the role is chosen.
LoadItemsFromDB ==
  /\ ~up
  /\ up' = TRUE /\ op' = "load"
  /\ bag' = [bag EXCEPT !.item = db,
                        !.packs = [k \in Packs |-> {g \in DOMAIN db : db[g].pack = k}]]
  /\ UNCHANGED <<db, writes, crashes>>

\* The server stops; __loadItemMaxGuid finds the greatest guid at the restart.
Crash ==
  /\ crashes < MaxCrashes
  /\ crashes' = crashes + 1
  /\ up' = FALSE /\ op' = "crash" /\ writes' = <<>>
  /\ bag' = [item |-> NoItems, packs |-> Empty, high |-> GuidOrZero(DOMAIN db)]
  /\ UNCHANGED db

Next ==
  \/ \E p \in Protos, n \in Amounts : GetItem(p, n)
  \/ \E g \in Guids, n \in Amounts : HandleUseItem(g, n) \/ HandleSellItem(g, n)
  \/ \E p \in Protos, n \in Amounts : HandleDoMountAdvance(p, n)
  \/ \E S \in {{Normal}, {Bank}, {Normal, Bank}} : ClearAllPackItems(S)
  \/ \E g \in Guids, k \in Packs : HandleSwapItem(g, k)
  \/ \E k \in Packs : HandleMergePacketItems(k)
  \/ \E g \in Guids : Write(g)
  \/ Logout \/ LoadItemsFromDB \/ Crash

Spec == Init /\ [][Next]_vars

-----------------------------------------------------------------------------
(* Properties *)

Units(items, p) ==
  Sum([g \in {h \in DOMAIN items : items[h].proto = p} |-> items[g].amount])

\* The table an item is in is the one its pack_index names, it is in one
\* table only, and no stack is empty or over its size.
Placed ==
  /\ db \in [DOMAIN db -> Items] /\ DOMAIN db \subseteq Guids
  /\ writes \in Seq(SUBSET Guids) /\ up \in BOOLEAN /\ crashes \in 0..MaxCrashes
  /\ DOMAIN bag.item = UNION {bag.packs[k] : k \in Packs}
  /\ \A k \in Packs : \A g \in bag.packs[k] :
       /\ bag.item[g] \in Items /\ bag.item[g].pack = k
       /\ Amount(bag, g) \in 1..MaxCount[bag.item[g].proto]

\* The backpack and the bank never hold more than their grid limit, not even
\* after a crash; and as long as the server has not stopped between the two
\* writes of a change of equipment, one item is worn at each place.
WithinLimits ==
  /\ \A k \in {Normal, Bank} : Cardinality(bag.packs[k]) <= GridLimit[k]
  /\ crashes = 0 => \A g, h \in bag.packs[Worn] :
       SubClass[bag.item[g].proto] = SubClass[bag.item[h].proto] => g = h

\* Whenever an operation is over, the documents are the items in memory:
\* nothing is left to the save at logout, which is skipped when the scene
\* server has saved the role.  While a move is written, the documents hold at
\* least what the role owns: a crash may duplicate units but loses none.
DbAgrees ==
  /\ up /\ writes = <<>> => db = bag.item
  /\ op = "swap" => \A p \in Protos : Units(db, p) >= Units(bag.item, p)

\* A move or a tidying up neither creates nor destroys units of an item,
\* however the stacks are found and filled.
UnitsKept ==
  [][op' \in {"swap", "merge"} =>
       \A p \in Protos : Units(bag'.item, p) = Units(bag.item, p)]_vars

\* "Look for stacks that are bound or unbound alike": no unit loses its
\* binding by being moved or merged.
BoundUnits(items, p) ==
  Sum([g \in {h \in DOMAIN items : items[h].proto = p /\ items[h].bind} |-> items[g].amount])

BindKept ==
  [][op' \in {"swap", "merge"} =>
       \A p \in Protos : BoundUnits(bag'.item, p) >= BoundUnits(bag.item, p)]_vars
=============================================================================
