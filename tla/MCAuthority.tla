------------------------------ MODULE MCAuthority ------------------------------
(* The policy, identity and vault layer.  The kernel, the vault broker, the        *)
(* override broker and the identity catalog share no state (the kernel is given    *)
(* hydrated contexts), so a behaviour runs one of them, chosen at the start.  The  *)
(* administrators of the kernel are interchangeable.                               *)
EXTENDS PolicyKernel, VaultBroker, OverrideBroker, IdentityCatalog, TLC

VARIABLE client

\* The request is denied to agents.
MCHardDenied == {<<1, "agent">>}

MCSymmetry == Permutations(Admins)

OtherThan(c) ==
    /\ c # "policy" => UNCHANGED policyVars
    /\ c # "vault" => UNCHANGED vaultVars
    /\ c # "override" => UNCHANGED ovrVars
    /\ c # "identity" => UNCHANGED catVars

MCInit ==
    /\ PolicyInit /\ VaultInit /\ OverrideInit /\ CatalogInit
    /\ client \in {"policy", "vault", "override", "identity"}

MCNext ==
    /\ \/ client = "policy" /\ PolicyNext
       \/ client = "vault" /\ VaultNext
       \/ client = "override" /\ OverrideNext
       \/ client = "identity" /\ CatalogNext
    /\ OtherThan(client)
    /\ UNCHANGED client

MCSpec == MCInit /\ [][MCNext]_<<policyVars, vaultVars, ovrVars, catVars, client>>
================================================================================
