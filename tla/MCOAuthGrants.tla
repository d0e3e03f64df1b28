--------------------------- MODULE MCOAuthGrants ---------------------------
(* Two requests at a time; one client; one approval, beside authorizations *)
(* in the browser; two grants, one code and three pairs of tokens.        *)
EXTENDS OAuthGrants, TLC

CONSTANTS h1, h2, c1, a1, g1, g2, k1, t1, t2, t3

MCHandlers  == {h1, h2}
MCClients   == {c1}
MCApprovals == {a1}
MCGrants    == {g1, g2}
MCCodes     == {k1}
MCTokens    == {t1, t2, t3}
\* A bound: the approval is over when the first tokens are issued, for it has
\* no part in what happens to tokens.  One that expired is as good as none.
ApprovalFirst ==
    used \cap Tokens # {} =>
        prompt = {} /\ \A a \in Approvals : approval[a].at = "gone"
\* Nothing tells the places of requests apart.
Alike == Permutations(MCHandlers)
=============================================================================
