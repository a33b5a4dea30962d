----------------------------- MODULE MCWebPages -----------------------------
(* The pages of the application have nothing in common but the server: each is   *)
(* checked from its own initial states while the others stay in theirs.          *)
EXTENDS WebAuth, CollectionPage, ImportPage, DeckPage, AdminAccounts, AdminCatalog, Invitations, TradingPage,
        Preferences, TLC

CONSTANT Two  \* the model values every page has its two of

PageSymmetry == Permutations(Two)

VARIABLE part

pageVars == <<part, authVars, listVars, importVars, deckVars, adminVars, catalogVars, scheduleVars, inviteVars,
              tradesVars, preferenceVars>>

\* An initial value that differs does so only in the part it belongs to; one account at
\* least is past its first sign-in.
WebPagesInit ==
  /\ part \in {"auth", "list", "import", "deck", "accounts", "catalog", "schedule", "invitations", "trades", "tabs"}
  /\ AuthInit /\ ListInit /\ ImportPageInit /\ DeckPageInit /\ AdminInit /\ CatalogInit /\ ScheduleInit
  /\ InviteInit /\ TradingPageInit /\ PreferencesInit
  /\ \E a \in Accounts : wants[a] = {}
  /\ part # "auth" => session = NoAccount /\ at = "home" /\ wants = [a \in Accounts |-> {}]
  /\ part # "catalog" => failing = {}
  /\ part # "invitations" => invited = NoInvitations
  /\ part # "trades" => ~barred
  /\ part # "tabs" => savedAppearance = NotSaved /\ legacy = NotSaved /\ savedDisplay = NotSaved
  /\ savedDisplay # NotSaved => savedAppearance = NotSaved /\ legacy = NotSaved

StaysAuth == UNCHANGED authVars
StaysList == UNCHANGED listVars
StaysImport == UNCHANGED importVars
StaysDeck == UNCHANGED deckVars
StaysAdmin == UNCHANGED <<adminVars, catalogVars, scheduleVars, inviteVars>>
StaysOther == UNCHANGED <<tradesVars, preferenceVars>>

WebPagesNext ==
  /\ UNCHANGED part
  /\ \/ part = "auth" /\ AuthNext /\ StaysList /\ StaysImport /\ StaysDeck /\ StaysAdmin /\ StaysOther
     \/ part = "list" /\ ListNext /\ StaysAuth /\ StaysImport /\ StaysDeck /\ StaysAdmin /\ StaysOther
     \/ part = "import" /\ ImportPageNext /\ StaysAuth /\ StaysList /\ StaysDeck /\ StaysAdmin /\ StaysOther
     \/ part = "deck" /\ DeckPageNext /\ StaysAuth /\ StaysList /\ StaysImport /\ StaysAdmin /\ StaysOther
     \/ /\ StaysAuth /\ StaysList /\ StaysImport /\ StaysDeck /\ StaysOther
        /\ \/ part = "accounts" /\ AdminNext /\ UNCHANGED <<catalogVars, scheduleVars, inviteVars>>
           \/ part = "catalog" /\ CatalogNext /\ UNCHANGED <<adminVars, scheduleVars, inviteVars>>
           \/ part = "schedule" /\ ScheduleNext /\ UNCHANGED <<adminVars, catalogVars, inviteVars>>
           \/ part = "invitations" /\ InviteNext /\ UNCHANGED <<adminVars, catalogVars, scheduleVars>>
     \/ /\ StaysAuth /\ StaysList /\ StaysImport /\ StaysDeck /\ StaysAdmin
        /\ \/ part = "trades" /\ TradingPageNext /\ UNCHANGED preferenceVars
           \/ part = "tabs" /\ PreferencesNext /\ UNCHANGED tradesVars

WebPagesSpec == WebPagesInit /\ [][WebPagesNext]_pageVars

-----------------------------------------------------------------------------
(* Properties.                                                             *)

\* Each page is well typed.
WebPagesTypeOK ==
  /\ part = "auth" => AuthTypeOK
  /\ part = "list" => ListTypeOK
  /\ part = "import" => ImportPageTypeOK
  /\ part = "deck" => DeckPageTypeOK
  /\ part = "accounts" => AdminTypeOK
  /\ part \in {"catalog", "schedule"} => CatalogTypeOK
  /\ part = "invitations" => InviteTypeOK
  /\ part = "trades" => TradingPageTypeOK
  /\ part = "tabs" => PreferencesTypeOK

\* A page that was told of its own change shows it once it is at rest, whichever loads
\* were under way: the accounts, the catalog and its schedule, the invitations with the
\* link of a new one, and the trades.
OwnChangesShown == AccountsCurrent /\ CatalogCurrent /\ LinkKept /\ TradesCurrent
=============================================================================
