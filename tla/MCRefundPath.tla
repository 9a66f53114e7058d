---------------------------- MODULE MCRefundPath ----------------------------
(***************************************************************************)
(* RefundPath on small amounts.  The rates are 1 to 2 per vbyte, the sizes *)
(* 2 and 3, dust is 2 and 3, and the amnesty may be a fifth of the lock.   *)
(***************************************************************************)
EXTENDS RefundPath

(* A lock that pays for everything, and one whose full refund is dust; with *)
(* and without an amnesty, its children and each encsig.                    *)
MCTerms ==
  {[lock |-> size[1], refund |-> size[2], cancel |-> 2, punish |-> 2,
    amnesty |-> extra[1], partial |-> extra[2], mercy |-> mercy,
    reclaim |-> 2, withhold |-> 2, remaining |-> 1,
    cancelAfter |-> 5, punishAfter |-> 5,
    full |-> encsig[1], part |-> encsig[2]] :
      size \in {<<6, 4>>, <<30, 2>>, <<30, 5>>},
      extra \in {<<Undefined, Undefined>>, <<0, 3>>, <<6, 3>>, <<6, 9>>, <<7, 3>>},
      mercy \in {Undefined, 2},
      encsig \in {<<"sound", Undefined>>, <<"sound", Null>>, <<Null, "sound">>,
                  <<"bad", Undefined>>}}
=============================================================================
