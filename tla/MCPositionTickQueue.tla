------------------------ MODULE MCPositionTickQueue ------------------------
(***************************************************************************)
(* Small instances of the tick queue for TLC.  Four row contents: a1 and   *)
(* a2 carry the same payload under different identities (they differ in a  *)
(* column that is not uploaded), x conflicts with them under the same      *)
(* trade_id|tick_ts, and bad is a row of another trade.                    *)
(***************************************************************************)
EXTENDS PositionTickQueue

CONSTANTS a1, a2, x, bad

MCPayloadOf == [r \in Rows |-> CASE r \in {a1, a2} -> "pa" [] r = x -> "px" [] OTHER -> "pb"]
MCKeyOf == [r \in Rows |-> IF r = bad THEN "kb" ELSE "ka"]
=============================================================================
