------------------------------ MODULE MCMembers ------------------------------
(***************************************************************************)
(* Credits, Accounts, Reviews, Discovery and Invoicing in one run.         *)
(* They share no state, so a behaviour steps in one of them: its focus.    *)
(***************************************************************************)
EXTENDS Credits, Accounts, Reviews, Discovery, Invoicing, TLC

\* One traveller pays both groups; four listings, with tiers dearer and
\* cheaper than the base price and one that is not a number.
MCBuyer == [p \in Payments |-> Referrer]
\* Everyone but the one who stayed at home went on every trip.
MCTravelled == (Reviewers \ {Referrer}) \X Groups
Listing(kind, type, owner, price, tiers) ==
  [kind |-> kind, type |-> type, owner |-> owner, price |-> price, tiers |-> tiers]
MCStock ==
  << Listing("package", "STANDARD", "a", 9, {[minPax |-> 1, price |-> 7], [minPax |-> 2, price |-> 11]}),
     Listing("plan", "CORPORATE", "u", 9, {}),
     Listing("plan", "STANDARD", "u", 8, {}),
     Listing("package", "STANDARD", "a", 8, {[minPax |-> 0, price |-> 5]}) >>

\* The whole trip free up to 250 paise, of trips dear enough.
MCCodes == {[percent |-> TRUE, value |-> 100, cap |-> 250, least |-> 220]}

VARIABLE focus
membersVars == <<focus, creditsVars, accountsVars, reviewsVars, discoveryVars, invoicingVars>>

\* Out of its focus a component is in one of its initial states.
MembersInit ==
  /\ focus \in {"credits", "accounts", "reviews", "discovery", "invoicing"}
  /\ CreditsInit /\ AccountsInit /\ ReviewsInit /\ DiscoveryInit /\ InvoicingInit
  /\ focus # "invoicing" =>
       rate = Max(Rates) /\ bill = BillRow("PENDING", "HELD", Charge(rate, 0, Nothing))

MembersNext ==
  /\ UNCHANGED focus
  /\ \/ focus = "credits" /\ CreditsNext
        /\ UNCHANGED <<accountsVars, reviewsVars, discoveryVars, invoicingVars>>
     \/ focus = "accounts" /\ AccountsNext
        /\ UNCHANGED <<creditsVars, reviewsVars, discoveryVars, invoicingVars>>
     \/ focus = "reviews" /\ ReviewsNext
        /\ UNCHANGED <<creditsVars, accountsVars, discoveryVars, invoicingVars>>
     \/ focus = "discovery" /\ DiscoveryNext
        /\ UNCHANGED <<creditsVars, accountsVars, reviewsVars, invoicingVars>>
     \/ focus = "invoicing" /\ InvoicingNext
        /\ UNCHANGED <<creditsVars, accountsVars, reviewsVars, discoveryVars>>

MembersSpec == MembersInit /\ [][MembersNext]_membersVars

\* The two people, addresses and requests are the same values everywhere.
Symmetry == Permutations(Newcomers) \cup Permutations(Emails) \cup Permutations(Callers)

-----------------------------------------------------------------------------
\* Every component's state is well typed.
MembersTypeOK == CreditsTypeOK /\ AccountsTypeOK /\ ReviewsTypeOK /\ DiscoveryTypeOK /\ InvoicingTypeOK
=============================================================================
