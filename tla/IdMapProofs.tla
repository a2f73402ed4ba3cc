------------------------------ MODULE IdMapProofs ------------------------------
(***************************************************************************)
(* Proofs about the identity-mapping policy of memory.rs, for every table  *)
(* geometry, every initial tree and every allocator budget: the state      *)
(* stays well typed, and whenever id_map or id_map_nocache returns Ok the  *)
(* frame it was given is mapped to itself with the flags asked for.        *)
(*                                                                         *)
(* Each call is modelled as a composition of mapper operations on a state  *)
(* value (Create3, Create2, MapToIn, UpdateFlagsIn, IdMapIn), so the       *)
(* proofs first show that each of them maps well-typed mapper states to    *)
(* well-typed mapper states, and then follow IdMapIn case by case.         *)
(***************************************************************************)
EXTENDS IdMap, TLAPS

\* the errors the mapper operations report
Errs == {"none", "FrameAllocationFailed", "PageAlreadyMapped",
         "ParentEntryHugePage", "PageNotMapped"}

\* well-typed mapper states, as Cur and the operations build them
MState ==
  [p3 : [Idx -> Entries], p2 : [Idx -> [Idx -> Entries]],
   p1 : [Idx -> [Idx -> [Idx -> Entries]]], free : 0 .. InitFree, err : Errs]

-----------------------------------------------------------------------------
(* Arithmetic of the page indices                                          *)

(* A page below N * M has a quotient by M below N.                         *)
LEMMA QuotBound ==
  ASSUME NEW M \in Nat \ {0}, NEW N \in Nat, NEW v \in 0 .. N * M - 1
  PROVE  v \div M \in 0 .. N - 1
BY SMT

(* The three indices of a page are table indices.                          *)
LEMMA IndicesInIdx ==
  ASSUME NEW v \in PageNo
  PROVE  I3(v) \in Idx /\ I2(v) \in Idx /\ I1(v) \in Idx
<1>1. K \in Nat \ {0, 1}
  BY GeometryAssumption
<1>2. K * K \in Nat \ {0} /\ v \in 0 .. K * (K * K) - 1
  BY <1>1, SMT DEF PageNo, NPages
<1>3. I3(v) \in Idx
  BY <1>1, <1>2, QuotBound DEF I3, Idx
<1>4. I2(v) \in Idx /\ I1(v) \in Idx
  BY <1>1, <1>2, SMT DEF I2, I1, Idx, PageNo
<1>. QED BY <1>3, <1>4

(* Reading a byte address gives a page no later than the page of a later   *)
(* address.                                                                *)
LEMMA DivMono ==
  ASSUME NEW M \in Nat \ {0}, NEW a \in Nat, NEW b \in Nat, a <= b
  PROVE  a \div M <= b \div M
BY SMT

-----------------------------------------------------------------------------
(* The mapper operations keep the mapper state well typed                  *)

(* Writing a level 1 entry leaves every other level 1 entry and the upper  *)
(* levels as they were.                                                    *)
LEMMA SetP1Other ==
  ASSUME NEW m \in MState, NEW i \in Idx, NEW j \in Idx, NEW k \in Idx, NEW e,
         NEW a \in Idx, NEW b \in Idx, NEW c \in Idx, <<a, b, c>> # <<i, j, k>>
  PROVE  /\ [m EXCEPT !.p1[i][j][k] = e].p3 = m.p3
         /\ [m EXCEPT !.p1[i][j][k] = e].p2 = m.p2
         /\ [m EXCEPT !.p1[i][j][k] = e].p1[a][b][c] = m.p1[a][b][c]
<1>1. m.p1[i] \in [Idx -> [Idx -> Entries]] /\ m.p1[i][j] \in [Idx -> Entries]
      /\ m.p1 \in [Idx -> [Idx -> [Idx -> Entries]]]
  BY DEF MState
<1>2. [m EXCEPT !.p1[i][j][k] = e].p1 =
        [m.p1 EXCEPT ![i] = [m.p1[i] EXCEPT ![j] = [m.p1[i][j] EXCEPT ![k] = e]]]
  BY DEF MState
<1>3. CASE a # i
  BY <1>1, <1>2, <1>3
<1>4. CASE a = i /\ b # j
  BY <1>1, <1>2, <1>4
<1>5. CASE a = i /\ b = j /\ c # k
  BY <1>1, <1>2, <1>5
<1>. QED BY <1>3, <1>4, <1>5 DEF MState

(* Writing an entry, or an entry's flags, at any level keeps the state     *)
(* well typed.                                                             *)
LEMMA SetP3Type ==
  ASSUME NEW m \in MState, NEW i \in Idx, NEW e \in Entries
  PROVE  [m EXCEPT !.p3[i] = e] \in MState
BY DEF MState

LEMMA SetP2Type ==
  ASSUME NEW m \in MState, NEW i \in Idx, NEW j \in Idx, NEW e \in Entries
  PROVE  [m EXCEPT !.p2[i][j] = e] \in MState
BY DEF MState

LEMMA SetP1Type ==
  ASSUME NEW m \in MState, NEW i \in Idx, NEW j \in Idx, NEW k \in Idx, NEW e \in Entries
  PROVE  [m EXCEPT !.p1[i][j][k] = e] \in MState
<1>1. m.p1[i] \in [Idx -> [Idx -> Entries]] /\ m.p1[i][j] \in [Idx -> Entries]
  BY DEF MState
<1>2. [m.p1[i] EXCEPT ![j] = [m.p1[i][j] EXCEPT ![k] = e]] \in [Idx -> [Idx -> Entries]]
  BY <1>1
<1>3. [m.p1 EXCEPT ![i] = [m.p1[i] EXCEPT ![j] = [m.p1[i][j] EXCEPT ![k] = e]]]
        \in [Idx -> [Idx -> [Idx -> Entries]]]
  BY <1>2 DEF MState
<1>4. [m EXCEPT !.p1[i][j][k] = e] =
      [m EXCEPT !.p1 = [m.p1 EXCEPT ![i] = [m.p1[i] EXCEPT ![j] = [m.p1[i][j] EXCEPT ![k] = e]]]]
  OBVIOUS
<1>. QED BY <1>3, <1>4 DEF MState

LEMMA SetFlags3Type ==
  ASSUME NEW m \in MState, NEW i \in Idx, NEW g \in SUBSET FlagBits
  PROVE  [m EXCEPT !.p3[i].flags = g] \in MState
<1>1. m.p3[i] \in Entries
  BY DEF MState
<1>2. [m.p3[i] EXCEPT !.flags = g] \in Entries
  BY <1>1 DEF Entries
<1>. QED BY <1>2 DEF MState

LEMMA SetFlags2Type ==
  ASSUME NEW m \in MState, NEW i \in Idx, NEW j \in Idx, NEW g \in SUBSET FlagBits
  PROVE  [m EXCEPT !.p2[i][j].flags = g] \in MState
<1>1. m.p2[i][j] \in Entries
  BY DEF MState
<1>2. [m.p2[i][j] EXCEPT !.flags = g] \in Entries
  BY <1>1 DEF Entries
<1>. QED BY <1>2 DEF MState

LEMMA SetFlags1Type ==
  ASSUME NEW m \in MState, NEW i \in Idx, NEW j \in Idx, NEW k \in Idx,
         NEW g \in SUBSET FlagBits
  PROVE  [m EXCEPT !.p1[i][j][k].flags = g] \in MState
<1>1. m.p1[i] \in [Idx -> [Idx -> Entries]] /\ m.p1[i][j] \in [Idx -> Entries]
  BY DEF MState
<1>2. m.p1[i][j][k] \in Entries
  BY <1>1
<1>3. [m.p1[i][j][k] EXCEPT !.flags = g] \in Entries
  BY <1>2 DEF Entries
<1>4. [m.p1[i][j] EXCEPT ![k] = [m.p1[i][j][k] EXCEPT !.flags = g]] \in [Idx -> Entries]
  BY <1>1, <1>3
<1>5. [m.p1[i] EXCEPT ![j] = [m.p1[i][j] EXCEPT ![k] = [m.p1[i][j][k] EXCEPT !.flags = g]]]
        \in [Idx -> [Idx -> Entries]]
  BY <1>1, <1>4
<1>6. [m.p1 EXCEPT ![i] = [m.p1[i] EXCEPT ![j] = [m.p1[i][j] EXCEPT ![k] =
          [m.p1[i][j][k] EXCEPT !.flags = g]]]] \in [Idx -> [Idx -> [Idx -> Entries]]]
  BY <1>5 DEF MState
<1>7. [m EXCEPT !.p1[i][j][k].flags = g] =
      [m EXCEPT !.p1 = [m.p1 EXCEPT ![i] = [m.p1[i] EXCEPT ![j] = [m.p1[i][j] EXCEPT ![k] =
          [m.p1[i][j][k] EXCEPT !.flags = g]]]]]
  OBVIOUS
<1>. QED BY <1>6, <1>7 DEF MState

(* Recording an error keeps the state well typed.                          *)
LEMMA SetErrType ==
  ASSUME NEW m \in MState, NEW x \in Errs
  PROVE  [m EXCEPT !.err = x] \in MState
BY DEF MState

(* The flags create_next_table gives an entry it keeps are flags.          *)
LEMMA MergedFlagsType ==
  ASSUME NEW e \in Entries, NEW pg \in SUBSET FlagBits
  PROVE  MergedFlags(e, pg) \in SUBSET FlagBits
BY DEF MergedFlags, Entries

(* create_next_table on a level 3 entry.                                   *)
LEMMA Create3Type ==
  ASSUME NEW m \in MState, NEW i3 \in Idx, NEW pg \in SUBSET FlagBits
  PROVE  Create3(m, i3, pg) \in MState
<1>1. TableAddr \in Nat /\ Entry(TableAddr, pg) \in Entries /\ ZeroTable \in [Idx -> Entries]
  BY GeometryAssumption DEF Entry, Entries, ZeroTable, UnusedEntry
<1>2. Entry(m.p3[i3].addr, MergedFlags(m.p3[i3], pg)) \in Entries
  BY MergedFlagsType DEF MState, Entry, Entries
<1>3. CASE IsUnused(m.p3[i3]) /\ m.free = 0
  BY <1>3 DEF Create3, MState, Errs
<1>4. CASE IsUnused(m.p3[i3]) /\ m.free # 0
  <2>0. m.free \in 0 .. InitFree
    BY DEF MState
  <2>1. m.free - 1 \in 0 .. InitFree
    BY <1>4, <2>0, InitAssumption
  <2>. QED BY <1>1, <1>4, <2>1 DEF Create3, MState
<1>5. CASE ~IsUnused(m.p3[i3])
  <2>1. WalkResult(Entry(m.p3[i3].addr, MergedFlags(m.p3[i3], pg))) \in
          {"NotMapped", "MappedToHugePage", "Ok"}
    BY DEF WalkResult
  <2>. QED BY <1>2, <1>5 DEF Create3, MState, Errs
<1>. QED BY <1>3, <1>4, <1>5

(* create_next_table on a level 2 entry.                                   *)
LEMMA Create2Type ==
  ASSUME NEW m \in MState, NEW i3 \in Idx, NEW i2 \in Idx, NEW pg \in SUBSET FlagBits
  PROVE  Create2(m, i3, i2, pg) \in MState
<1>1. TableAddr \in Nat /\ Entry(TableAddr, pg) \in Entries /\ ZeroTable \in [Idx -> Entries]
  BY GeometryAssumption DEF Entry, Entries, ZeroTable, UnusedEntry
<1>2. Entry(m.p2[i3][i2].addr, MergedFlags(m.p2[i3][i2], pg)) \in Entries
  <2>1. m.p2[i3][i2] \in Entries
    BY DEF MState
  <2>. QED BY <2>1, MergedFlagsType DEF Entry, Entries
<1>3. CASE IsUnused(m.p2[i3][i2]) /\ m.free = 0
  BY <1>3 DEF Create2, MState, Errs
<1>4. CASE IsUnused(m.p2[i3][i2]) /\ m.free # 0
  <2>0. m.free \in 0 .. InitFree
    BY DEF MState
  <2>1. m.free - 1 \in 0 .. InitFree
    BY <1>4, <2>0, InitAssumption
  <2>. QED BY <1>1, <1>4, <2>1 DEF Create2, MState
<1>5. CASE ~IsUnused(m.p2[i3][i2])
  BY <1>2, <1>5 DEF Create2, MState, Errs
<1>. QED BY <1>3, <1>4, <1>5

(* Mapper::map_to_with_table_flags.                                        *)
LEMMA MapToType ==
  ASSUME NEW m \in MState, NEW s \in Sizes, NEW v \in PageNo, NEW f \in Nat,
         NEW g \in SUBSET FlagBits, NEW pg \in SUBSET FlagBits
  PROVE  MapToIn(m, s, v, f, g, pg) \in MState
<1>1. I3(v) \in Idx /\ I2(v) \in Idx /\ I1(v) \in Idx
  BY IndicesInIdx
<1>2. Entry(f, g \cup {HUGE_PAGE}) \in Entries /\ Entry(f, g) \in Entries
  BY DEF Entry, Entries, FlagBits, HUGE_PAGE
<1>3. "PageAlreadyMapped" \in Errs
  BY DEF Errs
<1>4. CASE s = "1GiB"
  BY <1>1, <1>2, <1>3, <1>4, SetP3Type, SetErrType DEF MapToIn
<1>5. CASE s = "2MiB"
  <2>1. Create3(m, I3(v), pg) \in MState
    BY <1>1, Create3Type
  <2>. QED BY <1>1, <1>2, <1>3, <1>5, <2>1, SetP2Type, SetErrType DEF MapToIn
<1>6. CASE s = "4KiB"
  <2>1. Create3(m, I3(v), pg) \in MState
    BY <1>1, Create3Type
  <2>2. Create2(Create3(m, I3(v), pg), I3(v), I2(v), pg) \in MState
    BY <1>1, <2>1, Create2Type
  <2>. QED BY <1>1, <1>2, <1>3, <1>6, <2>1, <2>2, SetP1Type, SetErrType DEF MapToIn
<1>. QED BY <1>4, <1>5, <1>6 DEF Sizes

(* Mapper::update_flags.                                                   *)
LEMMA UpdateFlagsType ==
  ASSUME NEW m \in MState, NEW s \in Sizes, NEW v \in PageNo,
         NEW g \in SUBSET FlagBits
  PROVE  UpdateFlagsIn(m, s, v, g) \in MState
<1>1. I3(v) \in Idx /\ I2(v) \in Idx /\ I1(v) \in Idx
  BY IndicesInIdx
<1>2. g \cup {HUGE_PAGE} \in SUBSET FlagBits
  BY DEF FlagBits, HUGE_PAGE
<1>3. /\ \A w \in {"NotMapped", "MappedToHugePage", "Ok"} : WalkError(w) \in Errs
      /\ "PageNotMapped" \in Errs
  BY DEF WalkError, Errs
<1>4. \A e : WalkResult(e) \in {"NotMapped", "MappedToHugePage", "Ok"}
  BY DEF WalkResult
<1>. QED BY <1>1, <1>2, <1>3, <1>4, SetFlags3Type, SetFlags2Type, SetFlags1Type,
            SetErrType DEF UpdateFlagsIn

(* id_map's core returns a well-typed mapper state and one of its results. *)
LEMMA IdMapInType ==
  ASSUME NEW m \in MState, NEW s \in Sizes, NEW v \in PageNo, NEW add \in SUBSET FlagBits
  PROVE  /\ IdMapIn(m, s, v, add).m \in MState
         /\ IdMapIn(m, s, v, add).res \in Results
<1>1. {PRESENT} \cup add \in SUBSET FlagBits
     /\ ({PRESENT} \cup add) \cap {PRESENT, WRITABLE} \in SUBSET FlagBits
  BY DEF FlagBits, PRESENT, WRITABLE
<1>2. v \in Nat
  BY DEF PageNo
<1>3. MapToIn(m, s, v, v, {PRESENT} \cup add, ({PRESENT} \cup add) \cap {PRESENT, WRITABLE})
        \in MState
  BY <1>1, <1>2, MapToType
<1>4. [MapToIn(m, s, v, v, {PRESENT} \cup add, ({PRESENT} \cup add) \cap {PRESENT, WRITABLE})
         EXCEPT !.err = "none"] \in MState
  BY <1>3, SetErrType DEF Errs
<1>. QED BY <1>4 DEF IdMapIn, Result, Results

(* Cur is a well-typed mapper state in every well-typed state.             *)
LEMMA CurType == TypeOK => Cur \in MState
BY DEF TypeOK, Cur, Trees, MState, Errs

(* Committing a well-typed mapper state gives well-typed tables.           *)
LEMMA CommitType ==
  ASSUME NEW m \in MState, Commit(m)
  PROVE  [p3 |-> p3', p2 |-> p2', p1 |-> p1'] \in Trees /\ free' \in 0 .. InitFree
BY DEF Commit, MState, Trees

-----------------------------------------------------------------------------
(* TypeOK is inductive                                                     *)

\* the record ret ranges over
RetType == [op : Ops, size : Sizes \cup {"none"}, page : PageNo,
            add : SUBSET FlagBits, res : Results, addr : Nat, len : Nat]

(* The state a call leaves is well typed when the mapper state it commits  *)
(* and the record it stores are.                                           *)
LEMMA CallType ==
  ASSUME NEW m \in MState, Commit(m), ret' \in RetType, panicked' \in BOOLEAN,
         calls' \in 0 .. MaxCalls
  PROVE  TypeOK'
BY CommitType DEF TypeOK, RetType

(* id_map and id_map_nocache.                                              *)
LEMMA IdMapTypeStep ==
  ASSUME TypeOK, NEW s \in Sizes, NEW v \in Frames(s), NEW add \in SUBSET FlagBits,
         IdMap(s, v, add), calls' \in 0 .. MaxCalls
  PROVE  TypeOK'
<1>1. v \in PageNo
  BY DEF Frames
<1>2. IdMapIn(Cur, s, v, add).m \in MState /\ IdMapIn(Cur, s, v, add).res \in Results
  BY <1>1, CurType, IdMapInType
<1>3. ret' \in RetType
  BY <1>1, <1>2 DEF IdMap, Rec, RetType, Ops, Sizes
<1>. QED BY <1>2, <1>3, CallType DEF IdMap, TypeOK

(* id_map_nocache_update_flags.                                            *)
LEMMA UpdateTypeStep ==
  ASSUME TypeOK, NEW s \in Sizes, NEW v \in Frames(s), NEW add \in SUBSET FlagBits,
         IdMapNocacheUpdateFlags(s, v, add), calls' \in 0 .. MaxCalls
  PROVE  TypeOK'
<1>1. v \in PageNo /\ {NO_CACHE} \cup add \in SUBSET FlagBits
     /\ {PRESENT} \cup ({NO_CACHE} \cup add) \in SUBSET FlagBits
  BY DEF Frames, FlagBits, NO_CACHE, PRESENT
<1>2. /\ IdMapIn(Cur, s, v, {NO_CACHE} \cup add).m \in MState
      /\ IdMapIn(Cur, s, v, {NO_CACHE} \cup add).res \in Results
  BY <1>1, CurType, IdMapInType
<1>3. UpdateFlagsIn(IdMapIn(Cur, s, v, {NO_CACHE} \cup add).m, s, v,
                    {PRESENT} \cup ({NO_CACHE} \cup add)) \in MState
  BY <1>1, <1>2, UpdateFlagsType
<1>4. {"panic", "Ok"} \subseteq Results
  BY DEF Results
<1>5. ret'.op = "id_map_update" /\ ret'.size = s /\ ret'.page = v
      /\ ret'.add = {NO_CACHE} \cup add /\ ret'.addr = 0 /\ ret'.len = 0
      /\ ret' = [op |-> ret'.op, size |-> ret'.size, page |-> ret'.page, add |-> ret'.add,
                 res |-> ret'.res, addr |-> ret'.addr, len |-> ret'.len]
  BY DEF IdMapNocacheUpdateFlags, Rec
<1>6. ret'.res \in Results
  BY <1>2, <1>4 DEF IdMapNocacheUpdateFlags, Rec
<1>7. ret' \in RetType
  BY <1>1, <1>5, <1>6 DEF RetType, Ops, Sizes
<1>8. panicked' \in BOOLEAN
  BY DEF IdMapNocacheUpdateFlags, TypeOK
<1>9. \E m \in MState : Commit(m)
  BY <1>2, <1>3 DEF IdMapNocacheUpdateFlags
<1>. QED BY <1>7, <1>8, <1>9, CallType

(* map_and_read_phys.                                                      *)
LEMMA ReadTypeStep ==
  ASSUME TypeOK, NEW q \in ReadRequests, MapAndReadPhys(q[1], q[2]),
         calls' \in 0 .. MaxCalls
  PROVE  TypeOK'
<1>1. q[1] \in Nat /\ q[2] \in 1 .. B /\ (q[1] + q[2]) \div B \in PageNo /\ B \in Nat \ {0}
  BY InitAssumption, GeometryAssumption
<1>2. q[1] \div B \in PageNo
  <2>1. q[1] \div B <= (q[1] + q[2]) \div B
    BY <1>1, DivMono
  <2>2. q[1] \div B \in Nat
    BY <1>1
  <2>3. \A x \in Nat, y \in PageNo : x <= y => x \in PageNo
    BY GeometryAssumption DEF PageNo, NPages
  <2>. QED BY <1>1, <2>1, <2>2, <2>3
<1>3. /\ IdMapIn(Cur, "4KiB", q[1] \div B, {}).m \in MState
      /\ IdMapIn(IdMapIn(Cur, "4KiB", q[1] \div B, {}).m, "4KiB", (q[1] + q[2]) \div B, {}).m
           \in MState
  BY <1>1, <1>2, CurType, IdMapInType DEF Sizes
<1>4. ret' \in RetType
  BY <1>1, <1>2 DEF MapAndReadPhys, Rec, RetType, Ops, Sizes, Results
<1>5. panicked' \in BOOLEAN
  BY DEF MapAndReadPhys, TypeOK
<1>6. \E m \in MState : Commit(m)
  BY <1>3 DEF MapAndReadPhys
<1>. QED BY <1>4, <1>5, <1>6, CallType

(* The tables, the allocator budget, the last call's record, the panic     *)
(* flag and the call count keep their types in every reachable state.      *)
THEOREM TypeCorrect == Spec => []TypeOK
<1>1. Init => TypeOK
  <2> SUFFICES ASSUME Init PROVE TypeOK
    OBVIOUS
  <2>1. 0 \in PageNo /\ MaxCalls \in Nat
    BY GeometryAssumption, InitAssumption, SMT DEF PageNo, NPages
  <2>2. [p3 |-> p3, p2 |-> p2, p1 |-> p1] \in Trees
    <3>1. PICK t \in InitTrees : p3 = t.p3 /\ p2 = t.p2 /\ p1 = t.p1
      BY DEF Init
    <3>2. t \in Trees
      BY InitAssumption
    <3>. QED BY <3>1, <3>2 DEF Trees
  <2>3. ret \in RetType
    BY <2>1 DEF Init, RetType, Ops, Results
  <2>4. free \in 0 .. InitFree /\ panicked \in BOOLEAN /\ calls \in 0 .. MaxCalls
    <3>1. free \in 0 .. InitFree /\ panicked = FALSE /\ calls = 0
      BY DEF Init
    <3>2. panicked \in BOOLEAN
      BY <3>1, Zenon
    <3>3. free \in 0 .. InitFree /\ calls \in 0 .. MaxCalls
      BY <2>1, <3>1
    <3>. QED BY <3>2, <3>3
  <2>. QED BY <2>2, <2>3, <2>4 DEF TypeOK, RetType
<1>2. TypeOK /\ [Next]_vars => TypeOK'
  <2> SUFFICES ASSUME TypeOK, [Next]_vars PROVE TypeOK'
    OBVIOUS
  <2>1. CASE Next
    <3>1. calls' \in 0 .. MaxCalls
      BY <2>1, InitAssumption DEF Next, TypeOK
    <3>2. AddFlagSets \subseteq SUBSET FlagBits
      BY InitAssumption
    <3>3. \A add \in AddFlagSets : {NO_CACHE} \cup add \in SUBSET FlagBits
      BY <3>2 DEF FlagBits, NO_CACHE
    <3>. QED BY <2>1, <3>1, <3>2, <3>3, IdMapTypeStep, UpdateTypeStep, ReadTypeStep
             DEF Next, IdMapNocache
  <2>2. CASE UNCHANGED vars
    BY <2>2 DEF vars, TypeOK
  <2>. QED BY <2>1, <2>2
<1>. QED BY <1>1, <1>2, PTL DEF Spec

-----------------------------------------------------------------------------
(* A successful map installs an identity mapping                           *)

\* the table flags map_to_with_table_flags is given: present, and no huge bit
TableFlagsOK(pg) == pg \in SUBSET FlagBits /\ PRESENT \in pg /\ HUGE_PAGE \notin pg

(* The flags create_next_table merges into a used entry include the        *)
(* parent flags it is given.                                               *)
LEMMA MergedKeepsParent ==
  ASSUME NEW e, NEW pg, PRESENT \in pg
  PROVE  pg \subseteq MergedFlags(e, pg) /\ e.flags \subseteq MergedFlags(e, pg)
BY DEF MergedFlags

(* When create_next_table on a level 3 entry succeeds, the entry leads to  *)
(* a table: it is present and not huge.                                    *)
LEMMA Create3Ok ==
  ASSUME NEW m \in MState, NEW i3 \in Idx, NEW pg, TableFlagsOK(pg), m.err = "none",
         Create3(m, i3, pg).err = "none"
  PROVE  /\ PRESENT \in Create3(m, i3, pg).p3[i3].flags
         /\ HUGE_PAGE \notin Create3(m, i3, pg).p3[i3].flags
<1>1. CASE IsUnused(m.p3[i3])
  <2>1. m.free # 0
    BY <1>1 DEF Create3
  <2>2. Create3(m, i3, pg).p3[i3] = Entry(TableAddr, pg)
    BY <1>1, <2>1 DEF Create3, MState
  <2>. QED BY <2>2 DEF TableFlagsOK, Entry
<1>2. CASE ~IsUnused(m.p3[i3])
  <2>1. Create3(m, i3, pg).p3[i3] = Entry(m.p3[i3].addr, MergedFlags(m.p3[i3], pg))
    BY <1>2 DEF Create3, MState
  <2>2. WalkResult(Entry(m.p3[i3].addr, MergedFlags(m.p3[i3], pg))) # "MappedToHugePage"
    BY <1>2 DEF Create3
  <2>3. PRESENT \in MergedFlags(m.p3[i3], pg)
    BY MergedKeepsParent DEF TableFlagsOK
  <2>. QED BY <2>1, <2>2, <2>3 DEF WalkResult, Entry
<1>. QED BY <1>1, <1>2

(* The same for a level 2 entry; the level 3 table is left as it was.      *)
LEMMA Create2Ok ==
  ASSUME NEW m \in MState, NEW i3 \in Idx, NEW i2 \in Idx, NEW pg, TableFlagsOK(pg),
         m.err = "none", Create2(m, i3, i2, pg).err = "none"
  PROVE  /\ PRESENT \in Create2(m, i3, i2, pg).p2[i3][i2].flags
         /\ HUGE_PAGE \notin Create2(m, i3, i2, pg).p2[i3][i2].flags
         /\ Create2(m, i3, i2, pg).p3 = m.p3
<1>1. CASE IsUnused(m.p2[i3][i2])
  <2>1. m.free # 0
    BY <1>1 DEF Create2
  <2>2. Create2(m, i3, i2, pg).p2[i3][i2] = Entry(TableAddr, pg)
        /\ Create2(m, i3, i2, pg).p3 = m.p3
    BY <1>1, <2>1 DEF Create2, MState
  <2>. QED BY <2>2 DEF TableFlagsOK, Entry
<1>2. CASE ~IsUnused(m.p2[i3][i2])
  <2>1. Create2(m, i3, i2, pg).p2[i3][i2]
          = Entry(m.p2[i3][i2].addr, MergedFlags(m.p2[i3][i2], pg))
        /\ Create2(m, i3, i2, pg).p3 = m.p3
    BY <1>2 DEF Create2, MState
  <2>2. WalkResult(Entry(m.p2[i3][i2].addr, MergedFlags(m.p2[i3][i2], pg)))
          # "MappedToHugePage"
    BY <1>2 DEF Create2
  <2>3. PRESENT \in MergedFlags(m.p2[i3][i2], pg)
    BY MergedKeepsParent DEF TableFlagsOK
  <2>. QED BY <2>1, <2>2, <2>3 DEF WalkResult, Entry
<1>. QED BY <1>1, <1>2

\* the map id_map makes of frame v with flags my
IdMapTo(m, s, v, my) == MapToIn(m, s, v, v, my, my \cap {PRESENT, WRITABLE})

\* page v reaches itself through a mapping with at least the flags my
MapsToSelf(m, v, my) ==
  /\ TranslateIn(m, v).kind = "Mapped"
  /\ Target(TranslateIn(m, v), v) = v
  /\ my \subseteq TranslateIn(m, v).flags

(* An aligned frame maps to itself through an entry holding its address.   *)
LEMMA AlignedSelf ==
  ASSUME NEW s \in Sizes, NEW v \in Frames(s), NEW g
  PROVE  /\ MappedR(s, Entry(v, g)) = [kind |-> "Mapped", size |-> s, frame |-> v, flags |-> g]
         /\ Target(MappedR(s, Entry(v, g)), v) = v
<1>1. SizePages(s) \in Nat \ {0} /\ v \in Nat /\ v % SizePages(s) = 0
  BY GeometryAssumption, SMT DEF Frames, SizePages, Sizes, PageNo
<1>. QED BY <1>1 DEF MappedR, Entry, Target

\* the state after the level 3 and the level 2 create_next_table of that map
M3(m, v, my) == Create3(m, I3(v), my \cap {PRESENT, WRITABLE})
M2(m, v, my) == Create2(M3(m, v, my), I3(v), I2(v), my \cap {PRESENT, WRITABLE})

(* When map_to_with_table_flags maps frame v at page v without an error,   *)
(* page v then reaches itself with the flags asked for, at every size.     *)
LEMMA MapToOk ==
  ASSUME NEW m \in MState, m.err = "none", NEW s \in Sizes, NEW v \in Frames(s),
         NEW my \in SUBSET FlagBits, PRESENT \in my, IdMapTo(m, s, v, my).err = "none"
  PROVE  MapsToSelf(IdMapTo(m, s, v, my), v, my)
<1>1. I3(v) \in Idx /\ I2(v) \in Idx /\ I1(v) \in Idx
  BY IndicesInIdx DEF Frames
<1>2. TableFlagsOK(my \cap {PRESENT, WRITABLE})
  BY DEF TableFlagsOK, FlagBits, PRESENT, WRITABLE, HUGE_PAGE
<1>3. CASE s = "1GiB"
  <2>1. IsUnused(m.p3[I3(v)])
    BY <1>3 DEF IdMapTo, MapToIn, MState
  <2>2. IdMapTo(m, s, v, my).p3[I3(v)] = Entry(v, my \cup {HUGE_PAGE})
    BY <1>1, <1>3, <2>1 DEF IdMapTo, MapToIn, MState
  <2>3. TranslateIn(IdMapTo(m, s, v, my), v) = MappedR("1GiB", Entry(v, my \cup {HUGE_PAGE}))
    BY <2>2 DEF TranslateIn, Entry, PRESENT, HUGE_PAGE
  <2>. QED BY <1>3, <2>3, AlignedSelf DEF MapsToSelf
\* both smaller sizes start with create_next_table on the level 3 entry
<1>4. CASE s # "1GiB"
  <2>1. M3(m, v, my).err = "none"
    BY <1>4 DEF IdMapTo, MapToIn, M3
  <2>2. M3(m, v, my) \in MState
    BY <1>1, <1>2, Create3Type DEF TableFlagsOK, M3
  <2>3. /\ PRESENT \in M3(m, v, my).p3[I3(v)].flags
        /\ HUGE_PAGE \notin M3(m, v, my).p3[I3(v)].flags
    BY <1>1, <1>2, <2>1, Create3Ok DEF M3
  <2>4. CASE s = "2MiB"
    <3>1. IsUnused(M3(m, v, my).p2[I3(v)][I2(v)])
      BY <2>1, <2>4 DEF IdMapTo, MapToIn, M3
    <3>2. /\ IdMapTo(m, s, v, my).p2[I3(v)][I2(v)] = Entry(v, my \cup {HUGE_PAGE})
          /\ IdMapTo(m, s, v, my).p3 = M3(m, v, my).p3
      BY <1>1, <2>1, <2>2, <2>4, <3>1 DEF IdMapTo, MapToIn, MState, M3
    <3>3. TranslateIn(IdMapTo(m, s, v, my), v) = MappedR("2MiB", Entry(v, my \cup {HUGE_PAGE}))
      BY <2>3, <3>2 DEF TranslateIn, Entry, PRESENT, HUGE_PAGE
    <3>. QED BY <2>4, <3>3, AlignedSelf DEF MapsToSelf
  <2>5. CASE s = "4KiB"
    <3>1. M2(m, v, my).err = "none"
      BY <2>1, <2>5 DEF IdMapTo, MapToIn, M3, M2
    <3>2. M2(m, v, my) \in MState
      BY <1>1, <1>2, <2>2, Create2Type DEF TableFlagsOK, M2
    <3>3. /\ PRESENT \in M2(m, v, my).p2[I3(v)][I2(v)].flags
          /\ HUGE_PAGE \notin M2(m, v, my).p2[I3(v)][I2(v)].flags
          /\ M2(m, v, my).p3 = M3(m, v, my).p3
      BY <1>1, <1>2, <2>1, <2>2, <3>1, Create2Ok DEF M2
    <3>4. IsUnused(M2(m, v, my).p1[I3(v)][I2(v)][I1(v)])
      BY <2>1, <2>5, <3>1 DEF IdMapTo, MapToIn, M3, M2
    <3>5. IdMapTo(m, s, v, my) = [M2(m, v, my) EXCEPT !.p1[I3(v)][I2(v)][I1(v)] = Entry(v, my)]
      BY <2>1, <2>5, <3>1, <3>4 DEF IdMapTo, MapToIn, M3, M2
    <3>6. /\ IdMapTo(m, s, v, my).p1[I3(v)][I2(v)][I1(v)] = Entry(v, my)
          /\ IdMapTo(m, s, v, my).p2 = M2(m, v, my).p2
          /\ IdMapTo(m, s, v, my).p3 = M2(m, v, my).p3
      BY <1>1, <3>2, <3>5 DEF MState
    <3>7. ~IsUnused(Entry(v, my))
      BY DEF IsUnused, UnusedEntry, Entry
    <3>8. TranslateIn(IdMapTo(m, s, v, my), v) = MappedR("4KiB", Entry(v, my))
      BY <2>3, <3>3, <3>6, <3>7 DEF TranslateIn
    <3>. QED BY <2>5, <3>8, AlignedSelf DEF MapsToSelf
  <2>. QED BY <1>4, <2>4, <2>5 DEF Sizes
<1>. QED BY <1>3, <1>4

(* translate reads only the tables.                                        *)
LEMMA TranslateReadsTables ==
  ASSUME NEW m, NEW n, m.p3 = n.p3, m.p2 = n.p2, m.p1 = n.p1, NEW v
  PROVE  TranslateIn(m, v) = TranslateIn(n, v)
BY DEF TranslateIn

(* translate reports a mapping, an invalid frame address or no mapping.    *)
LEMMA TranslateKinds ==
  ASSUME NEW m, NEW v
  PROVE  TranslateIn(m, v).kind \in {"Mapped", "InvalidFrameAddress", "NotMapped"}
BY DEF TranslateIn, MappedR, NotMappedR, InvalidR

(* Every frame size is a positive number of pages.                         *)
LEMMA SizePagesPos ==
  ASSUME NEW s
  PROVE  SizePages(s) \in Nat \ {0}
BY GeometryAssumption, SMT DEF SizePages

(* id_map's core: when it returns Ok, the frame's own address is mapped to *)
(* itself with PRESENT and every flag asked for, whether it mapped the     *)
(* frame now or found a mapping there (of any size and target).            *)
LEMMA IdMapInOk ==
  ASSUME NEW m \in MState, m.err = "none", NEW s \in Sizes, NEW v \in Frames(s),
         NEW add \in SUBSET FlagBits, IdMapIn(m, s, v, add).res = "Ok"
  PROVE  MapsToSelf(IdMapIn(m, s, v, add).m, v, {PRESENT} \cup add)
<1>1. v \in Nat /\ {PRESENT} \cup add \in SUBSET FlagBits
  BY DEF Frames, PageNo, FlagBits, PRESENT
<1>2. CASE TranslateIn(m, v).kind = "NotMapped"
  <2>1. IdMapTo(m, s, v, {PRESENT} \cup add).err = "none"
    BY <1>2 DEF IdMapIn, IdMapTo, Result
  <2>2. MapsToSelf(IdMapTo(m, s, v, {PRESENT} \cup add), v, {PRESENT} \cup add)
    BY <1>1, <2>1, MapToOk
  <2>3. IdMapIn(m, s, v, add).m = [IdMapTo(m, s, v, {PRESENT} \cup add) EXCEPT !.err = "none"]
    BY <1>2 DEF IdMapIn, IdMapTo, Result
  <2>4. IdMapTo(m, s, v, {PRESENT} \cup add) \in MState
    BY <1>1, MapToType DEF IdMapTo, Frames, FlagBits, PRESENT, WRITABLE
  <2>5. TranslateIn(IdMapIn(m, s, v, add).m, v) = TranslateIn(IdMapTo(m, s, v, {PRESENT} \cup add), v)
    <3>1. /\ IdMapIn(m, s, v, add).m.p3 = IdMapTo(m, s, v, {PRESENT} \cup add).p3
          /\ IdMapIn(m, s, v, add).m.p2 = IdMapTo(m, s, v, {PRESENT} \cup add).p2
          /\ IdMapIn(m, s, v, add).m.p1 = IdMapTo(m, s, v, {PRESENT} \cup add).p1
      BY <2>3, <2>4 DEF MState
    <3>. QED BY <3>1, TranslateReadsTables
  <2>. QED BY <2>2, <2>5 DEF MapsToSelf
<1>3. CASE TranslateIn(m, v).kind = "InvalidFrameAddress"
  BY <1>3 DEF IdMapIn, Result
<1>4. CASE TranslateIn(m, v).kind = "Mapped"
  <2>1. IdMapIn(m, s, v, add).m = m
    BY <1>4 DEF IdMapIn, Result
  <2>2. {PRESENT} \cup add \subseteq TranslateIn(m, v).flags
    BY <1>4 DEF IdMapIn, Result
  <2>4. CASE TranslateIn(m, v).size = "4KiB"
    <3>1. TranslateIn(m, v).frame = v
      BY <1>4, <2>4 DEF IdMapIn, Result
    <3>. QED BY <1>1, <1>4, <2>1, <2>2, <2>4, <3>1 DEF MapsToSelf, Target, SizePages
  <2>5. CASE TranslateIn(m, v).size # "4KiB"
    <3>1. Containing(TranslateIn(m, v).size, v) = TranslateIn(m, v).frame
      BY <1>4, <2>5 DEF IdMapIn, Result
    <3>2. SizePages(TranslateIn(m, v).size) \in Nat \ {0}
      BY SizePagesPos
    <3>. QED BY <1>1, <1>4, <2>1, <2>2, <3>1, <3>2 DEF MapsToSelf, Target, Containing
  <2>. QED BY <2>4, <2>5
<1>. QED BY <1>2, <1>3, <1>4, TranslateKinds

-----------------------------------------------------------------------------
(* IdMapOkMeansIdentity                                                    *)

\* the step IdMapOkMeansIdentity constrains
IdMapOkStep ==
  \A r \in {ret'} : (r.op = "id_map" /\ r.res = "Ok") => IdentityWithFlags(r)'

(* A call of id_map (or id_map_nocache, which is id_map with NO_CACHE      *)
(* added) that returns Ok leaves its frame mapped to itself with the flags *)
(* asked for.                                                              *)
LEMMA IdMapStepOk ==
  ASSUME TypeOK, NEW s \in Sizes, NEW v \in Frames(s), NEW add \in SUBSET FlagBits,
         IdMap(s, v, add)
  PROVE  IdMapOkStep
<1> SUFFICES ASSUME NEW r, r = ret', r.res = "Ok" PROVE IdentityWithFlags(r)'
  BY DEF IdMapOkStep
<1>1. Cur \in MState /\ Cur.err = "none"
  BY CurType DEF Cur
<1>2. IdMapIn(Cur, s, v, add).res = "Ok" /\ r.page = v /\ r.add = add
  BY DEF IdMap, Rec
<1>3. MapsToSelf(IdMapIn(Cur, s, v, add).m, v, {PRESENT} \cup add)
  BY <1>1, <1>2, IdMapInOk
<1>4. TranslateIn(Cur, v)' = TranslateIn(IdMapIn(Cur, s, v, add).m, v)
  <2>1. /\ Cur'.p3 = IdMapIn(Cur, s, v, add).m.p3
        /\ Cur'.p2 = IdMapIn(Cur, s, v, add).m.p2
        /\ Cur'.p1 = IdMapIn(Cur, s, v, add).m.p1
    BY DEF IdMap, Commit, Cur
  <2>2. TranslateIn(Cur', v) = TranslateIn(IdMapIn(Cur, s, v, add).m, v)
    BY <2>1, TranslateReadsTables
  <2>. QED BY <2>2 DEF Cur
<1>. QED BY <1>2, <1>3, <1>4 DEF IdentityWithFlags, IsIdentity, MapsToSelf

(* Whenever id_map or id_map_nocache returns Ok, the frame's own address   *)
(* is mapped to itself with PRESENT and every flag the caller asked for,   *)
(* whatever mapping of whatever size and target was there before and      *)
(* whatever tables had to be created (memory.rs:138-185), for every table  *)
(* geometry, initial tree and allocator budget.                            *)
THEOREM IdMapOk == Spec => IdMapOkMeansIdentity
<1>1. TypeOK /\ [Next]_vars => [IdMapOkStep]_vars
  <2> SUFFICES ASSUME TypeOK, Next PROVE IdMapOkStep
    OBVIOUS
  <2>1. AddFlagSets \subseteq SUBSET FlagBits
    BY InitAssumption
  <2>2. ASSUME NEW s \in Sizes, NEW add \in AddFlagSets, NEW v \in Frames(s),
               IdMapNocache(s, v, add)
        PROVE  IdMapOkStep
    <3>1. {NO_CACHE} \cup add \in SUBSET FlagBits
      BY <2>1 DEF FlagBits, NO_CACHE
    <3>. QED BY <2>2, <3>1, IdMapStepOk DEF IdMapNocache
  <2>3. ASSUME NEW s \in Sizes, NEW add \in AddFlagSets, NEW v \in Frames(s),
               IdMapNocacheUpdateFlags(s, v, add)
        PROVE  IdMapOkStep
    <3>1. ret'.op = "id_map_update"
      BY <2>3 DEF IdMapNocacheUpdateFlags, Rec
    <3>. QED BY <3>1 DEF IdMapOkStep
  <2>4. ASSUME NEW q \in ReadRequests, MapAndReadPhys(q[1], q[2])
        PROVE  IdMapOkStep
    <3>1. ret'.op = "map_and_read"
      BY <2>4 DEF MapAndReadPhys, Rec
    <3>. QED BY <3>1 DEF IdMapOkStep
  <2>. QED BY <2>1, <2>2, <2>3, <2>4, IdMapStepOk DEF Next
<1>. QED BY <1>1, TypeCorrect, PTL DEF Spec, IdMapOkMeansIdentity, IdMapOkStep

-----------------------------------------------------------------------------
(* Mapping one 4 KiB frame leaves the translation of every other page      *)
(* that is mapped                                                          *)

(* Two pages with the same three indices are the same page.               *)
LEMMA SamePage ==
  ASSUME NEW u \in Nat, NEW w \in Nat, I3(u) = I3(w), I2(u) = I2(w), I1(u) = I1(w)
  PROVE  u = w
<1>1. K \in Nat \ {0, 1}
  BY GeometryAssumption
<1>. QED BY <1>1, SMT DEF I3, I2, I1

(* translate of u reads only the three entries on u's path.                *)
LEMMA TranslateLocal ==
  ASSUME NEW m, NEW n, NEW u,
         n.p3[I3(u)] = m.p3[I3(u)], n.p2[I3(u)][I2(u)] = m.p2[I3(u)][I2(u)],
         n.p1[I3(u)][I2(u)][I1(u)] = m.p1[I3(u)][I2(u)][I1(u)]
  PROVE  TranslateIn(n, u) = TranslateIn(m, u)
BY DEF TranslateIn

(* A page that translates to a mapping has a present entry at every level  *)
(* its walk passes.                                                        *)
LEMMA MappedPath ==
  ASSUME NEW m, NEW u, TranslateIn(m, u).kind = "Mapped"
  PROVE  /\ PRESENT \in m.p3[I3(u)].flags
         /\ HUGE_PAGE \notin m.p3[I3(u)].flags => PRESENT \in m.p2[I3(u)][I2(u)].flags
BY DEF TranslateIn, NotMappedR

(* Merging PRESENT into an entry that has it changes nothing.              *)
LEMMA MergePresent ==
  ASSUME NEW e \in Entries, PRESENT \in e.flags
  PROVE  Entry(e.addr, MergedFlags(e, {PRESENT})) = e
BY DEF MergedFlags, Entry, Entries

(* create_next_table on a level 3 entry with the parent flags PRESENT      *)
(* leaves the translation of every mapped page as it was.                  *)
LEMMA Create3Keeps ==
  ASSUME NEW m \in MState, NEW i3 \in Idx, NEW u \in PageNo,
         TranslateIn(m, u).kind = "Mapped"
  PROVE  TranslateIn(Create3(m, i3, {PRESENT}), u) = TranslateIn(m, u)
<1>1. I3(u) \in Idx /\ I2(u) \in Idx /\ I1(u) \in Idx
  BY IndicesInIdx
<1>2. CASE i3 # I3(u)
  <2>1. /\ Create3(m, i3, {PRESENT}).p3[I3(u)] = m.p3[I3(u)]
        /\ Create3(m, i3, {PRESENT}).p2[I3(u)] = m.p2[I3(u)]
        /\ Create3(m, i3, {PRESENT}).p1 = m.p1
    BY <1>1, <1>2 DEF Create3, MState
  <2>. QED BY <2>1, TranslateLocal
<1>3. CASE i3 = I3(u)
  <2>1. PRESENT \in m.p3[i3].flags /\ m.p3[i3] \in Entries
    BY <1>3, MappedPath DEF MState
  <2>2. ~IsUnused(m.p3[i3])
    BY <2>1 DEF IsUnused, UnusedEntry, Entry
  <2>3. Create3(m, i3, {PRESENT}).p3 = m.p3 /\ Create3(m, i3, {PRESENT}).p2 = m.p2
        /\ Create3(m, i3, {PRESENT}).p1 = m.p1
    BY <2>1, <2>2, MergePresent DEF Create3, MState
  <2>. QED BY <2>3, TranslateReadsTables
<1>. QED BY <1>2, <1>3

(* The same for a level 2 entry, below a level 3 entry that is not huge    *)
(* where the page's walk and the new table's path meet.                    *)
LEMMA Create2Keeps ==
  ASSUME NEW m \in MState, NEW i3 \in Idx, NEW i2 \in Idx, NEW u \in PageNo,
         TranslateIn(m, u).kind = "Mapped",
         i3 = I3(u) => HUGE_PAGE \notin m.p3[i3].flags
  PROVE  TranslateIn(Create2(m, i3, i2, {PRESENT}), u) = TranslateIn(m, u)
<1>1. I3(u) \in Idx /\ I2(u) \in Idx /\ I1(u) \in Idx
  BY IndicesInIdx
<1>2. CASE <<i3, i2>> # <<I3(u), I2(u)>>
  <2>1. /\ Create2(m, i3, i2, {PRESENT}).p3 = m.p3
        /\ Create2(m, i3, i2, {PRESENT}).p2[I3(u)][I2(u)] = m.p2[I3(u)][I2(u)]
        /\ Create2(m, i3, i2, {PRESENT}).p1[I3(u)][I2(u)] = m.p1[I3(u)][I2(u)]
    BY <1>1, <1>2 DEF Create2, MState
  <2>. QED BY <2>1, TranslateLocal
<1>3. CASE <<i3, i2>> = <<I3(u), I2(u)>>
  <2>1. PRESENT \in m.p2[i3][i2].flags /\ m.p2[i3][i2] \in Entries
    BY <1>3, MappedPath DEF MState
  <2>2. ~IsUnused(m.p2[i3][i2])
    BY <2>1 DEF IsUnused, UnusedEntry, Entry
  <2>3. Entry(m.p2[i3][i2].addr, MergedFlags(m.p2[i3][i2], {PRESENT})) = m.p2[i3][i2]
    BY <2>1, MergePresent
  <2>4. Create2(m, i3, i2, {PRESENT}).p3 = m.p3 /\ Create2(m, i3, i2, {PRESENT}).p2 = m.p2
        /\ Create2(m, i3, i2, {PRESENT}).p1 = m.p1
    BY <2>2, <2>3 DEF Create2, MState
  <2>. QED BY <2>4, TranslateReadsTables
<1>. QED BY <1>2, <1>3

(* map_to_with_table_flags of a 4 KiB frame w at w, as id_map calls it     *)
(* with no extra flags, leaves the translation of every other mapped page  *)
(* as it was, whether it succeeds or fails.                                *)
LEMMA MapToKeeps ==
  ASSUME NEW m \in MState, m.err = "none", NEW w \in PageNo, NEW u \in PageNo, u # w,
         TranslateIn(m, u).kind = "Mapped"
  PROVE  TranslateIn(IdMapTo(m, "4KiB", w, {PRESENT}), u) = TranslateIn(m, u)
<1>1. I3(w) \in Idx /\ I2(w) \in Idx /\ I1(w) \in Idx
  BY IndicesInIdx
<1>2. {PRESENT} \cap {PRESENT, WRITABLE} = {PRESENT} /\ TableFlagsOK({PRESENT})
  BY DEF PRESENT, WRITABLE, TableFlagsOK, FlagBits, HUGE_PAGE
<1>3. /\ M3(m, w, {PRESENT}) = Create3(m, I3(w), {PRESENT})
      /\ M2(m, w, {PRESENT}) = Create2(M3(m, w, {PRESENT}), I3(w), I2(w), {PRESENT})
  BY <1>2 DEF M3, M2
<1>4. TranslateIn(M3(m, w, {PRESENT}), u) = TranslateIn(m, u)
  BY <1>1, <1>3, Create3Keeps
<1>5. CASE M3(m, w, {PRESENT}).err # "none"
  BY <1>2, <1>4, <1>5 DEF IdMapTo, MapToIn, M3
<1>6. CASE M3(m, w, {PRESENT}).err = "none"
  <2>1. M3(m, w, {PRESENT}) \in MState
    BY <1>1, <1>3, Create3Type DEF FlagBits, PRESENT
  <2>2. HUGE_PAGE \notin M3(m, w, {PRESENT}).p3[I3(w)].flags
    BY <1>1, <1>2, <1>3, <1>6, Create3Ok
  <2>3. TranslateIn(M2(m, w, {PRESENT}), u) = TranslateIn(m, u)
    BY <1>1, <1>3, <1>4, <2>1, <2>2, Create2Keeps
  <2>4. M2(m, w, {PRESENT}) \in MState
    BY <1>1, <1>3, <2>1, Create2Type DEF FlagBits, PRESENT
  <2>5. CASE M2(m, w, {PRESENT}).err # "none"
    BY <1>2, <1>6, <2>3, <2>5 DEF IdMapTo, MapToIn, M3, M2
  <2>6. CASE M2(m, w, {PRESENT}).err = "none"
          /\ ~IsUnused(M2(m, w, {PRESENT}).p1[I3(w)][I2(w)][I1(w)])
    <3>1. IdMapTo(m, "4KiB", w, {PRESENT}) = [M2(m, w, {PRESENT}) EXCEPT !.err = "PageAlreadyMapped"]
      BY <1>2, <1>6, <2>6 DEF IdMapTo, MapToIn, M3, M2
    <3>2. /\ IdMapTo(m, "4KiB", w, {PRESENT}).p3 = M2(m, w, {PRESENT}).p3
          /\ IdMapTo(m, "4KiB", w, {PRESENT}).p2 = M2(m, w, {PRESENT}).p2
          /\ IdMapTo(m, "4KiB", w, {PRESENT}).p1 = M2(m, w, {PRESENT}).p1
      BY <2>4, <3>1 DEF MState
    <3>. QED BY <2>3, <3>2, TranslateReadsTables
  <2>7. CASE M2(m, w, {PRESENT}).err = "none"
          /\ IsUnused(M2(m, w, {PRESENT}).p1[I3(w)][I2(w)][I1(w)])
    <3>1. IdMapTo(m, "4KiB", w, {PRESENT})
            = [M2(m, w, {PRESENT}) EXCEPT !.p1[I3(w)][I2(w)][I1(w)] = Entry(w, {PRESENT})]
      BY <1>2, <1>6, <2>7 DEF IdMapTo, MapToIn, M3, M2
    <3>2. <<I3(u), I2(u), I1(u)>> # <<I3(w), I2(w), I1(w)>>
      BY SamePage DEF PageNo
    <3>3. I3(u) \in Idx /\ I2(u) \in Idx /\ I1(u) \in Idx
      BY IndicesInIdx
    <3>4. /\ IdMapTo(m, "4KiB", w, {PRESENT}).p3 = M2(m, w, {PRESENT}).p3
          /\ IdMapTo(m, "4KiB", w, {PRESENT}).p2 = M2(m, w, {PRESENT}).p2
          /\ IdMapTo(m, "4KiB", w, {PRESENT}).p1[I3(u)][I2(u)][I1(u)]
               = M2(m, w, {PRESENT}).p1[I3(u)][I2(u)][I1(u)]
      <4>1. LET n == [M2(m, w, {PRESENT}) EXCEPT !.p1[I3(w)][I2(w)][I1(w)] = Entry(w, {PRESENT})]
            IN  /\ n.p3 = M2(m, w, {PRESENT}).p3
                /\ n.p2 = M2(m, w, {PRESENT}).p2
                /\ n.p1[I3(u)][I2(u)][I1(u)] = M2(m, w, {PRESENT}).p1[I3(u)][I2(u)][I1(u)]
        BY <1>1, <2>4, <3>2, <3>3, SetP1Other
      <4>. QED BY <3>1, <4>1
    <3>. QED BY <2>3, <3>4, TranslateLocal
  <2>. QED BY <2>5, <2>6, <2>7
<1>. QED BY <1>5, <1>6

(* id_map of a 4 KiB frame w with no extra flags keeps every other page    *)
(* that was mapped to itself mapped to itself.                             *)
LEMMA IdMapInKeeps ==
  ASSUME NEW m \in MState, m.err = "none", NEW w \in PageNo, NEW u \in PageNo, u # w,
         IsIdentity(m, u)
  PROVE  IsIdentity(IdMapIn(m, "4KiB", w, {}).m, u)
<1>1. {PRESENT} \cup {} = {PRESENT}
  OBVIOUS
<1>2. CASE TranslateIn(m, w).kind = "NotMapped"
  <2>1. IdMapIn(m, "4KiB", w, {}).m = [IdMapTo(m, "4KiB", w, {PRESENT}) EXCEPT !.err = "none"]
    BY <1>1, <1>2 DEF IdMapIn, IdMapTo, Result
  <2>2. IdMapTo(m, "4KiB", w, {PRESENT}) \in MState
    BY MapToType DEF IdMapTo, PageNo, Sizes, FlagBits, PRESENT, WRITABLE
  <2>3. /\ IdMapIn(m, "4KiB", w, {}).m.p3 = IdMapTo(m, "4KiB", w, {PRESENT}).p3
        /\ IdMapIn(m, "4KiB", w, {}).m.p2 = IdMapTo(m, "4KiB", w, {PRESENT}).p2
        /\ IdMapIn(m, "4KiB", w, {}).m.p1 = IdMapTo(m, "4KiB", w, {PRESENT}).p1
    BY <2>1, <2>2 DEF MState
  <2>4. TranslateIn(IdMapTo(m, "4KiB", w, {PRESENT}), u) = TranslateIn(m, u)
    BY MapToKeeps DEF IsIdentity
  <2>. QED BY <2>3, <2>4, TranslateReadsTables DEF IsIdentity
<1>3. CASE TranslateIn(m, w).kind # "NotMapped"
  BY <1>3 DEF IdMapIn, Result
<1>. QED BY <1>2, <1>3

(* id_map leaves no error recorded in the mapper state it returns.         *)
LEMMA IdMapInErr ==
  ASSUME NEW m \in MState, m.err = "none", NEW s \in Sizes, NEW v \in PageNo,
         NEW add \in SUBSET FlagBits
  PROVE  IdMapIn(m, s, v, add).m.err = "none"
<1>1. MapToIn(m, s, v, v, {PRESENT} \cup add, ({PRESENT} \cup add) \cap {PRESENT, WRITABLE})
        \in MState
  BY MapToType DEF PageNo, FlagBits, PRESENT, WRITABLE
<1>. QED BY <1>1 DEF IdMapIn, Result, MState

(* Every page is a 4 KiB frame.                                            *)
LEMMA PagesAre4KiBFrames ==
  ASSUME NEW v \in PageNo
  PROVE  v \in Frames("4KiB")
BY SMT DEF Frames, SizePages, PageNo

(* The bytes of an object of at most one page lie in the page of its first *)
(* byte or in the page of the byte after it.                               *)
LEMMA BytePages ==
  ASSUME NEW M \in Nat \ {0}, NEW a \in Nat, NEW n \in 1 .. M, NEW b \in a .. a + n - 1
  PROVE  b \div M \in {a \div M, (a + n) \div M}
<1>1. PICK q \in Nat, r \in 0 .. M - 1 : a = q * M + r /\ q = a \div M
  BY SMT
<1>2. b \div M >= q /\ b \div M <= q + 1
  BY <1>1, SMT
<1>3. b \div M = q + 1 => (a + n) \div M = q + 1
  BY <1>1, SMT
<1>. QED BY <1>1, <1>2, <1>3, SMT

-----------------------------------------------------------------------------
(* ReadsAreIdentity                                                        *)

\* the step ReadsAreIdentity constrains
ReadsStep ==
  \A r \in {ret'} : (r.op = "map_and_read" /\ r.res = "Ok") =>
     \A b \in r.addr .. (r.addr + r.len - 1) : IsIdentity(Cur, b \div B)'

(* A call of map_and_read_phys that returns leaves every page its read     *)
(* touches mapped to itself: id_map of the second frame does not disturb   *)
(* the first.                                                              *)
LEMMA ReadStepOk ==
  ASSUME TypeOK, NEW q \in ReadRequests, MapAndReadPhys(q[1], q[2])
  PROVE  ReadsStep
<1> SUFFICES ASSUME NEW r, r = ret', r.op = "map_and_read", r.res = "Ok",
                    NEW b \in r.addr .. (r.addr + r.len - 1)
             PROVE  IsIdentity(Cur, b \div B)'
  BY DEF ReadsStep
\* the two frames and the two calls of id_map, as in MapAndReadPhys
<1>1. q[1] \in Nat /\ q[2] \in 1 .. B /\ B \in Nat \ {0} /\ (q[1] + q[2]) \div B \in PageNo
  BY InitAssumption, GeometryAssumption
<1>2. q[1] \div B \in PageNo
  <2>1. q[1] \div B <= (q[1] + q[2]) \div B /\ q[1] \div B \in Nat
    BY <1>1, DivMono
  <2>2. \A x \in Nat, y \in PageNo : x <= y => x \in PageNo
    BY GeometryAssumption DEF PageNo, NPages
  <2>. QED BY <1>1, <2>1, <2>2
<1>3. Cur \in MState /\ Cur.err = "none"
  BY CurType DEF Cur
<1>4. /\ IdMapIn(Cur, "4KiB", q[1] \div B, {}).res = "Ok"
      /\ q[1] \div B # (q[1] + q[2]) \div B =>
           IdMapIn(IdMapIn(Cur, "4KiB", q[1] \div B, {}).m, "4KiB", (q[1] + q[2]) \div B, {}).res
             = "Ok"
      /\ r.addr = q[1] /\ r.len = q[2]
  BY DEF MapAndReadPhys, Rec
<1>5. b \div B \in {q[1] \div B, (q[1] + q[2]) \div B}
  BY <1>1, <1>4, BytePages
\* the first frame after the first call
<1>6. /\ IdMapIn(Cur, "4KiB", q[1] \div B, {}).m \in MState
      /\ IdMapIn(Cur, "4KiB", q[1] \div B, {}).m.err = "none"
      /\ IsIdentity(IdMapIn(Cur, "4KiB", q[1] \div B, {}).m, q[1] \div B)
  <2>1. IdMapIn(Cur, "4KiB", q[1] \div B, {}).m \in MState
    BY <1>2, <1>3, IdMapInType DEF Sizes
  <2>2. IdMapIn(Cur, "4KiB", q[1] \div B, {}).m.err = "none"
    BY <1>2, <1>3, IdMapInErr DEF Sizes
  <2>3. MapsToSelf(IdMapIn(Cur, "4KiB", q[1] \div B, {}).m, q[1] \div B, {PRESENT} \cup {})
    BY <1>2, <1>3, <1>4, PagesAre4KiBFrames, IdMapInOk DEF Sizes
  <2>. QED BY <2>1, <2>2, <2>3 DEF IsIdentity, MapsToSelf
<1>7. CASE q[1] \div B = (q[1] + q[2]) \div B
  <2>1. /\ p3' = IdMapIn(Cur, "4KiB", q[1] \div B, {}).m.p3
        /\ p2' = IdMapIn(Cur, "4KiB", q[1] \div B, {}).m.p2
        /\ p1' = IdMapIn(Cur, "4KiB", q[1] \div B, {}).m.p1
    BY <1>4, <1>7 DEF MapAndReadPhys, Commit
  <2>2. TranslateIn(Cur', b \div B) = TranslateIn(IdMapIn(Cur, "4KiB", q[1] \div B, {}).m, b \div B)
    BY <2>1, TranslateReadsTables DEF Cur
  <2>. QED BY <1>5, <1>6, <1>7, <2>2 DEF IsIdentity, Cur
<1>8. CASE q[1] \div B # (q[1] + q[2]) \div B
  <2>1. /\ p3' = IdMapIn(IdMapIn(Cur, "4KiB", q[1] \div B, {}).m, "4KiB", (q[1] + q[2]) \div B, {}).m.p3
        /\ p2' = IdMapIn(IdMapIn(Cur, "4KiB", q[1] \div B, {}).m, "4KiB", (q[1] + q[2]) \div B, {}).m.p2
        /\ p1' = IdMapIn(IdMapIn(Cur, "4KiB", q[1] \div B, {}).m, "4KiB", (q[1] + q[2]) \div B, {}).m.p1
    BY <1>4, <1>8 DEF MapAndReadPhys, Commit
  <2>2. TranslateIn(Cur', b \div B) =
          TranslateIn(IdMapIn(IdMapIn(Cur, "4KiB", q[1] \div B, {}).m, "4KiB",
                              (q[1] + q[2]) \div B, {}).m, b \div B)
    BY <2>1, TranslateReadsTables DEF Cur
  \* the second frame is mapped to itself by the second call
  <2>3. IsIdentity(IdMapIn(IdMapIn(Cur, "4KiB", q[1] \div B, {}).m, "4KiB",
                           (q[1] + q[2]) \div B, {}).m, (q[1] + q[2]) \div B)
    <3>1. MapsToSelf(IdMapIn(IdMapIn(Cur, "4KiB", q[1] \div B, {}).m, "4KiB",
                             (q[1] + q[2]) \div B, {}).m, (q[1] + q[2]) \div B, {PRESENT} \cup {})
      BY <1>1, <1>4, <1>6, <1>8, PagesAre4KiBFrames, IdMapInOk DEF Sizes
    <3>. QED BY <3>1 DEF IsIdentity, MapsToSelf
  \* and the first stays mapped to itself
  <2>4. IsIdentity(IdMapIn(IdMapIn(Cur, "4KiB", q[1] \div B, {}).m, "4KiB",
                           (q[1] + q[2]) \div B, {}).m, q[1] \div B)
    BY <1>1, <1>2, <1>6, <1>8, IdMapInKeeps
  <2>. QED BY <1>5, <2>2, <2>3, <2>4 DEF IsIdentity, Cur
<1>. QED BY <1>7, <1>8

(* Whenever map_and_read_phys returns, every byte it read lies in a page   *)
(* that is mapped to itself: the frames of the first byte and of the byte  *)
(* after the object are both identity mapped, the second call of id_map    *)
(* leaving the first frame's mapping alone (memory.rs, map_and_read_phys), *)
(* for every table geometry, initial tree and object within a page.        *)
THEOREM ReadsOk == Spec => ReadsAreIdentity
<1>1. TypeOK /\ [Next]_vars => [ReadsStep]_vars
  <2> SUFFICES ASSUME TypeOK, Next PROVE ReadsStep
    OBVIOUS
  <2>1. ASSUME NEW s \in Sizes, NEW add \in AddFlagSets, NEW v \in Frames(s),
               IdMap(s, v, add) \/ IdMapNocache(s, v, add) \/ IdMapNocacheUpdateFlags(s, v, add)
        PROVE  ReadsStep
    <3>1. ret'.op \in {"id_map", "id_map_update"}
      BY <2>1 DEF IdMap, IdMapNocache, IdMapNocacheUpdateFlags, Rec
    <3>. QED BY <3>1 DEF ReadsStep
  <2>. QED BY <2>1, ReadStepOk DEF Next
<1>. QED BY <1>1, TypeCorrect, PTL DEF Spec, ReadsAreIdentity, ReadsStep
====
