-------------------------- MODULE MCTenantBilling --------------------------
(* A small instance of TenantBilling for TLC.  A behaviour either lets two *)
(* people register and log in to two companies and open a checkout (focus  *)
(* "access"), or follows one person's company and its subscriptions (focus *)
(* "billing"), so that neither multiplies the other.                       *)
EXTENDS TenantBilling

CONSTANTS r1, r2, r3, r4, w1, w2, s1, s2, ana, ben, acme, beta
VARIABLE focus

MCChanges == {[price |-> "enterprise", status |-> "active"],
              [price |-> "yearly", status |-> "active"],
              [price |-> "pro", status |-> "past_due"],
              [price |-> "pro", status |-> "unpaid"],
              [price |-> "pro", status |-> "canceled"]}

\* The company of the second focus registers at once and gets its token.
OneCompany == /\ \A s \in Slugs \ {acme} : tenants'[s] = None
              /\ \A r \in Requests : req'[r].who \in {None, ana} /\ req'[r].slug \in {None, acme}
              /\ tenants'[acme] # None <=> tokens' # {}
              /\ tenants'[acme] = None => \A r, q \in Requests :
                   req'[r].pc # "new" /\ req'[q].pc # "new" => r = q
MCInit == Init /\ focus \in {"access", "billing"}
MCNext == /\ Next /\ UNCHANGED focus
          /\ IF focus = "billing" THEN OneCompany 
             ELSE subs' = <<>> /\ customers' <= 1
MCSpec == MCInit /\ [][MCNext]_<<vars, focus>>

Symmetry == Permutations(Production) \cup Permutations(Workers) \cup Permutations(Subscriptions)
=============================================================================
