---------------------------- MODULE GuaranteeLife ----------------------------
(***************************************************************************)
(* The life of a guarantee request, as the routes promise it: an organiser *)
(* and a provider settle whether it stands, then the platform reviews it.  *)
(***************************************************************************)
VARIABLE life

LifeInit == life = "requested"

Respond == life = "requested"
           /\ life' \in {"accepted", "provider_rejected", "withdrawn"}

Review == life \in {"accepted", "pending"}
          /\ life' \in {"pending", "paid", "rejected"}

LifeSpec == LifeInit /\ [][Respond \/ Review]_life
=============================================================================
