---------------------------- MODULE VendorCache -----------------------------
(***************************************************************************)
(* The weight cache that the ROCm and MLX backends share (vendor.c): a     *)
(* list of expanded matrices, the most recently used first, whose bytes    *)
(* stay within the budget that the scratch buffers leave.                  *)
(***************************************************************************)
EXTENDS Integers, Sequences, FiniteSets, SequencesExt

CONSTANTS MaxSize,   \* SIZE_MAX
          MaxInt,    \* INT_MAX
          Blocks,    \* [block, storage] of each tensor type known
          Reserved   \* the floor of what is left to other users of the device

\* nya_vendor_matrix: the bytes of the expanded weights, of one input and of
\* one output, or what says that they cannot be counted.
MatrixFits(m) ==
  /\ m.type \in DOMAIN Blocks
  /\ {m.rows, m.columns, m.batch} \subseteq 1 .. MaxInt
  /\ m.columns % Blocks[m.type].block = 0
  /\ m.columns \div Blocks[m.type].block <= (MaxSize \div Blocks[m.type].storage) \div m.rows
  /\ m.columns <= (MaxSize \div 4) \div m.rows
  /\ m.columns <= (MaxSize \div 4) \div m.batch
  /\ m.rows <= (MaxSize \div 4) \div m.batch

WeightBytes(m) == m.rows * m.columns * 4
InputBytes(m)  == m.batch * m.columns * 4
OutputBytes(m) == m.batch * m.rows * 4

\* nya_vendor_budget: a tenth, but no less than the floor, is left free; the
\* environment may ask for less (0: it says nothing, -1: it is no number).
Budget(available, wanted) ==
  LET reserve == IF available \div 10 < Reserved THEN Reserved ELSE available \div 10
      budget  == available - reserve
  IN  IF available <= reserve \/ wanted = -1 THEN 0
      ELSE IF wanted # 0 /\ wanted < budget THEN wanted
      ELSE budget

-----------------------------------------------------------------------------
(* The list.  An entry has a key (source, rows, columns, type) and bytes.  *)

Key(m) == <<m.source, m.rows, m.columns, m.type>>

Position(list, key) == {i \in 1 .. Len(list) : list[i].key = key}
Cached(list, key)   == Position(list, key) # {}

\* nya_vendor_find moves what it finds to the front.
Found(list, key) ==
  LET i == CHOOSE j \in Position(list, key) : TRUE
  IN  <<list[i]>> \o RemoveAt(list, i)

\* nya_vendor_reserve: how many entries stay when the last ones go, one after
\* the other, until the bytes fit.
Room(limit, wanted, scratch) == limit - scratch - wanted

MayReserve(limit, wanted, scratch) == scratch <= limit /\ wanted <= limit - scratch

Kept(list, bytes, room) ==
  LET \* the bytes left when the last i entries are gone
      left[i \in 0 .. Len(list)] ==
        IF i = 0 THEN bytes ELSE left[i - 1] - list[Len(list) - i + 1].bytes
      gone == CHOOSE i \in 0 .. Len(list) :
                /\ left[i] <= room
                /\ \A j \in 0 .. i - 1 : left[j] > room
  IN  [list |-> SubSeq(list, 1, Len(list) - gone), bytes |-> left[gone]]

Keys(list)  == {list[i].key : i \in 1 .. Len(list)}
Total(list) ==
  LET sum[i \in 0 .. Len(list)] == IF i = 0 THEN 0 ELSE sum[i - 1] + list[i].bytes
  IN  sum[Len(list)]

(* The bytes counted are those of the list, no matrix is there twice, and  *)
(* with the scratch buffers they stay within the budget.                   *)
CacheIsExact(list, bytes, limit, scratch) ==
  /\ bytes = Total(list)
  /\ Cardinality(Keys(list)) = Len(list)
  /\ bytes + scratch <= limit
=============================================================================
