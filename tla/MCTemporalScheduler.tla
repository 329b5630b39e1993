------------------------ MODULE MCTemporalScheduler ------------------------
(***************************************************************************)
(* Small instances of TemporalScheduler.  The requests cover each policy,  *)
(* a coalesce group of two with a lone row of another kind, an insert      *)
(* without a dedup prefix and the payload without a policy.                *)
(***************************************************************************)
EXTENDS TemporalScheduler

Req(at, k, r, p, pol, g) ==
    [fire_at |-> at, kind |-> k, ref_id |-> r, dedup_prefix |-> p,
     misfire_policy |-> pol, grace |-> g]

MCTimes == 0..2
MCKinds == {"alarm", "checkin"}
MCRefs == {"task"}
MCPrefixes == {"p"}
MCGraces == {0}

MixedRequests ==
    { Req(1, "alarm", "task", "p", "strict", 0),
      Req(0, "alarm", "task", "p", None, None),
      Req(0, "alarm", "task", "p", "coalesce", None),
      Req(1, "alarm", "task", None, "coalesce", None),
      Req(1, "checkin", "task", "p", "coalesce", None) }
=============================================================================
