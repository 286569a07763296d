---------------------------- MODULE FrameIdWrap ----------------------------
(***************************************************************************)
(* FrameIdWrapHelper (src/cast/net/cast_transport_defines.h): expands the  *)
(* 8-bit frame id carried over the wire into a 32-bit frame id, using a    *)
(* three-zone state machine (Low / Middle / High) to tell a straggler from *)
(* before a wrap apart from a new frame that causes one.                   *)
(*                                                                         *)
(* The helper is driven by an environment that delivers the acknowledged   *)
(* frame ids of one stream: each delivery carries a true frame id that is  *)
(* at most Fwd ahead of, and at most Back behind, the highest id delivered *)
(* so far.  The wire carries the true id modulo 256.                       *)
(*                                                                         *)
(* uint32 values are represented by their two's-complement reading, so    *)
(* kStartFrameId = 0xffffffff is -1 and a wrap count decremented below 0   *)
(* is -1 as well; this reading is exact while |value| < 2^31, which        *)
(* MaxFrameId keeps.                                                       *)
(***************************************************************************)
EXTENDS Integers

CONSTANTS
  Fwd,          \* how far ahead of the highest delivered id a delivery may be
  Back,         \* how far behind it a (reordered or repeated) delivery may be
  MaxFrameId,   \* bound on the true frame ids the environment produces
  FirstIds      \* true ids the first delivery of a stream may carry

ASSUME Fwd \in Nat /\ Back \in Nat /\ MaxFrameId \in Nat /\ MaxFrameId < 2^22

ASSUME FirstIds \subseteq -1 .. MaxFrameId

kLowRangeThreshold  == 63
kHighRangeThreshold == 192
kStartFrameId       == -1       \* UINT32_C(0xffffffff)
Ranges == {"kLowRange", "kMiddleRange", "kHighRange"}
NoId == -2                      \* before the first call: nothing returned yet

VARIABLES
  first_,                 \* helper: no call made yet
  frame_id_wrap_count_,   \* helper: wraps counted so far (uint32)
  range_,                 \* helper: zone of the last in-order id
  hi,                     \* environment: highest true id delivered so far
  last_true,              \* environment: true id of the last delivery
  last_out,               \* id returned by the last MapTo32bitsFrameId call
  late_start,             \* environment: the first true id is >= kHighRangeThreshold
  in_order                \* environment: no delivery so far was behind hi

vars == <<first_, frame_id_wrap_count_, range_, hi, last_true, last_out,
          late_start, in_order>>

(* uint32 (wrap_count << 8): exact in the two's-complement reading while   *)
(* |wrap_count| < 2^23.                                                    *)
Shl8(w) == w * 256

(* Mutant: the straggler test with > for >=.                               *)
IsStaleStrict(v) == range_ = "kLowRange" /\ v > kHighRangeThreshold

(* The kLowRange case: an id in the High zone is a straggler from before   *)
(* the wrap that was last counted.                                         *)
IsStale(v) == range_ = "kLowRange" /\ v >= kHighRangeThreshold

(* The kHighRange case: an id in the Low zone is a wrap-around.            *)
IsWrap(v) == range_ = "kHighRange" /\ v <= kLowRangeThreshold

(* Mutant: the straggler decrement applied to the stored count.            *)
StoredWrapCountStale(v) ==
  frame_id_wrap_count_ + (IF IsWrap(v) THEN 1 ELSE 0) - (IF IsStale(v) THEN 1 ELSE 0)

(* The stored count after the call: only a wrap-around changes it.         *)
StoredWrapCount(v) == frame_id_wrap_count_ + (IF IsWrap(v) THEN 1 ELSE 0)

(***************************************************************************)
(* MapTo32bitsFrameId(over_the_wire_frame_id): the whole method.  The      *)
(* local wrap_count is the stored count, one less for a straggler, one     *)
(* more for the id that wraps from High to Low.                            *)
(***************************************************************************)
MapTo32bitsFrameId(v) ==
  IF first_ /\ v = 255
  THEN /\ first_' = FALSE
       /\ last_out' = kStartFrameId
       /\ UNCHANGED <<frame_id_wrap_count_, range_>>
  ELSE
    LET wrap_count == frame_id_wrap_count_ + (IF IsWrap(v) THEN 1 ELSE 0)
                                           - (IF IsStale(v) THEN 1 ELSE 0)
    IN /\ first_' = FALSE
       /\ range_' =
            CASE range_ = "kLowRange" /\ v > kLowRangeThreshold
                                      /\ v < kHighRangeThreshold -> "kMiddleRange"
              [] range_ = "kMiddleRange" /\ v >= kHighRangeThreshold -> "kHighRange"
              [] IsWrap(v) -> "kLowRange"
              [] OTHER -> range_
       /\ frame_id_wrap_count_' = StoredWrapCount(v)
       /\ last_out' = Shl8(wrap_count) + v

Init ==
  /\ first_ = TRUE
  /\ frame_id_wrap_count_ = 0
  /\ range_ = "kLowRange"
  /\ hi = NoId
  /\ last_true = NoId
  /\ last_out = NoId
  /\ late_start = FALSE
  /\ in_order = TRUE

(* True ids the environment may deliver next: the first delivery carries   *)
(* one of FirstIds, later ones stay within the window of the highest id.   *)
Candidates ==
  IF hi = NoId THEN FirstIds
  ELSE { t \in (hi - Back) .. (hi + Fwd) : kStartFrameId <= t /\ t <= MaxFrameId }

Deliver ==
  \E t \in Candidates :
    /\ MapTo32bitsFrameId(t % 256)
    /\ last_true' = t
    /\ hi' = IF t > hi THEN t ELSE hi
    /\ late_start' = IF hi = NoId THEN t >= kHighRangeThreshold ELSE late_start
    /\ in_order' = (in_order /\ t >= hi)

Next == Deliver

Spec == Init /\ [][Next]_vars

-----------------------------------------------------------------------------
TypeOK ==
  /\ first_ \in BOOLEAN
  /\ frame_id_wrap_count_ \in Nat
  /\ range_ \in Ranges
  /\ hi \in {NoId} \cup (kStartFrameId .. MaxFrameId)
  /\ last_true \in {NoId} \cup (kStartFrameId .. MaxFrameId)
  /\ last_out \in Int
  /\ late_start \in BOOLEAN
  /\ in_order \in BOOLEAN

(* Every call returns the true 32-bit id of the frame whose 8-bit id it    *)
(* was given (MapTo32bitsFrameId), as long as deliveries stay within the   *)
(* Fwd / Back window of the highest id seen and the stream started at the  *)
(* startup id 0xff or below the High zone.                                 *)
ResolvesTrueId == ~late_start => last_out = last_true

(* A stream joined late, whose first wire id is in the High zone, is taken *)
(* for a straggler from before wrap 0 (the kLowRange case of               *)
(* MapTo32bitsFrameId).  While deliveries come in order, every id is then  *)
(* shifted by the same amount, so the ids returned still compare and       *)
(* subtract like the true ones.                                            *)
ShiftStableInOrder ==
  [][in_order' /\ last_true # NoId => last_out' - last_true' = last_out - last_true]_vars

(* For a stream delivered in order, the ids returned strictly increase     *)
(* across 8-bit wraps.                                                     *)
IncreasingInOrder == [][last_true' > last_true => last_out' > last_out]_vars
=============================================================================
