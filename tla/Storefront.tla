----------------------------- MODULE Storefront -----------------------------
(***************************************************************************)
(* The parts of the shop that keep no state in common, side by side in one *)
(* process: photos, the listing of categories, the search with its         *)
(* patterns, and mail.                                                     *)
(***************************************************************************)
EXTENDS PhotoStore, Sequences

CONSTANTS
    TreeNames, Listings, MaxCategories, MaxFeatures, MaxTreeEdits,  \* CategoryTree
    Stock, ArticleNames, Categories, Tags, Prices, Stamps,          \* ArticleSearch
    Queries, Searches, Null, MaxChanges,
    Characters, MinLength, MaxLength, MaxText,                      \* LikePattern
    Partials, Templates, Addresses, Hardcoded, Sends                \* Mail

VARIABLES
    categories, features, listings, edits, moved,   \* CategoryTree
    shop, searches, changes,                        \* ArticleSearch
    text, keyword, answer,                          \* LikePattern
    registered, sends, outbox                       \* Mail

tree == <<categories, features, listings, edits, moved>>
catalogue == <<shop, searches, changes>>
pattern == <<text, keyword, answer>>
post == <<registered, sends, outbox>>

Tree == INSTANCE CategoryTree WITH Names <- TreeNames, MaxEdits <- MaxTreeEdits

Find == INSTANCE ArticleSearch WITH
            requests <- searches, edits <- changes, Requests <- Searches,
            Names <- ArticleNames, MaxEdits <- MaxChanges

Like == INSTANCE LikePattern

Post == INSTANCE Mail

ASSUME StorefrontAssumption ==
    /\ Tree!TreeAssumption /\ Find!SearchAssumption
    /\ Like!LikeAssumption /\ Post!MailAssumption

-----------------------------------------------------------------------------
PhotosMove == Next /\ UNCHANGED <<tree, catalogue, pattern, post>>
TreeMoves == Tree!Next /\ UNCHANGED <<vars, catalogue, pattern, post>>
SearchMoves == Find!Next /\ UNCHANGED <<vars, tree, pattern, post>>
PatternMoves == Like!Next /\ UNCHANGED <<vars, tree, catalogue, post>>
MailMoves == Post!Next /\ UNCHANGED <<vars, tree, catalogue, pattern>>

StoreInit == Init /\ Tree!Init /\ Find!Init /\ Like!Init /\ Post!Init

StoreNext == PhotosMove \/ TreeMoves \/ SearchMoves \/ PatternMoves \/ MailMoves

StoreSpec == StoreInit /\ [][StoreNext]_<<vars, tree, catalogue, pattern, post>>

-----------------------------------------------------------------------------
(* The properties of the parts, stated in their modules.                   *)

(* Names are unique, and but for a category that is its own parent only an *)
(* edit of a category closes a cycle.                                      *)
TreeHolds == Tree!TreeHolds

(* A listing shows a category under one parent, a feature under one        *)
(* category; rows that disagree were changed while it ran.                 *)
ListingsHold == Tree!ListingsHold

(* An answer is the page of one instant of the search.                     *)
AnswerIsOneInstant == Find!AnswerIsOneInstant

(* Pages of one catalogue neither overlap nor leave an article out.        *)
PagesPartition == Find!PagesPartition

(* A keyword finds the texts it is part of.                                *)
FindsWhatWasTyped == Like!FindsWhatWasTyped

(* A call that returns has sent its mail, whole and once.                  *)
ToldWhatWasSent == Post!ToldWhatWasSent
=============================================================================
