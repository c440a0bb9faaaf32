---------------------------- MODULE MCMarketplace ----------------------------
(***************************************************************************)
(* Marketplace, Catalogue and Mail in one model-checking run.  They share  *)
(* no state, so a behaviour steps in one of them: its focus.  A component  *)
(* that is out of focus has nothing to be fair about.                      *)
(***************************************************************************)
EXTENDS Marketplace, Catalogue, Mail

VARIABLE focus
vars == <<focus, marketVars, catalogueVars, mailVars>>

Init ==
  /\ focus \in {"market", "catalogue", "mail"}
  /\ MarketInit /\ CatalogueInit /\ MailInit
  /\ focus # "market" => plan.status = "OPEN"
  /\ focus # "catalogue" => pkg.max = 1
  /\ focus # "mail" => routes = 1 /\ kind = "push"

Next ==
  /\ UNCHANGED focus
  /\ \/ focus = "market" /\ MarketNext /\ UNCHANGED <<catalogueVars, mailVars>>
     \/ focus = "catalogue" /\ CatalogueNext /\ UNCHANGED <<marketVars, mailVars>>
     \/ focus = "mail" /\ MailNext /\ UNCHANGED <<marketVars, catalogueVars>>

\* MarketFairness, CatalogueFairness and MailFairness, each in its focus.
Fairness ==
  /\ WF_marketVars(focus = "market" /\ CheckExpiredPlans)
  /\ WF_marketVars(focus = "market" /\ CommitExpired)
  /\ WF_catalogueVars(focus = "catalogue" /\ SetCached)
  /\ WF_catalogueVars(focus = "catalogue" /\ TtlExpires)
  /\ WF_mailVars(focus = "mail" /\ LookUp)
  /\ WF_mailVars(focus = "mail" /\ SendMail)
  /\ WF_mailVars(focus = "mail" /\ SendWhatsappNotification)
  /\ WF_mailVars(focus = "mail" /\ EndRequest)

Spec == Init /\ [][Next]_vars /\ Fairness

-----------------------------------------------------------------------------
\* Every component's state is well typed.
MarketplaceTypeOK == MarketTypeOK /\ CatalogueTypeOK /\ MailTypeOK

\* What the workers must get done: plans past their time are closed
\* (check_expired_plans), queued mails leave the queue (the mail tasks), and a
\* stale cached detail goes once writes stop (the entry's time to live).
WorkersDeliver == DuePlanCloses /\ TaskSettles /\ DetailConverges
=============================================================================
