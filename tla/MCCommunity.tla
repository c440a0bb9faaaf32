----------------------------- MODULE MCCommunity -----------------------------
(***************************************************************************)
(* Agencies, Chat, Posts and Social in one model-checking run.  They share *)
(* no state, so a behaviour steps in one of them: its focus.               *)
(***************************************************************************)
EXTENDS Agencies, Chat, Posts, Social, TLC

VARIABLE focus
communityVars == <<focus, agenciesVars, chatVars, postsVars, socialVars>>

CommunityInit ==
  /\ focus \in {"agencies", "chat", "posts", "social"}
  /\ AgenciesInit /\ ChatInit /\ PostsInit /\ SocialInit

CommunityNext ==
  /\ UNCHANGED focus
  /\ \/ focus = "agencies" /\ AgenciesNext /\ UNCHANGED <<chatVars, postsVars, socialVars>>
     \/ focus = "chat" /\ ChatNext /\ UNCHANGED <<agenciesVars, postsVars, socialVars>>
     \/ focus = "posts" /\ PostsNext /\ UNCHANGED <<agenciesVars, chatVars, socialVars>>
     \/ focus = "social" /\ SocialNext /\ UNCHANGED <<agenciesVars, chatVars, postsVars>>

CommunitySpec == CommunityInit /\ [][CommunityNext]_communityVars

Symmetry == Permutations(Workers) \cup Permutations(Gstins) \cup Permutations(Numbers) \cup Permutations(Branches)

-----------------------------------------------------------------------------
\* Every component's state is well typed.
CommunityTypeOK == AgenciesTypeOK /\ ChatTypeOK /\ PostsTypeOK /\ SocialTypeOK
=============================================================================
