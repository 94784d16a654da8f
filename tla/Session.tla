------------------------------- MODULE Session ------------------------------
(***************************************************************************)
(* The administrator's session in the tabs of one browser: AuthContext,       *)
(* RequireAuth, Login and the auth controller.  The token in localStorage and *)
(* the cookie are shared by the tabs; what a tab believes is its own.        *)
(***************************************************************************)
EXTENDS Naturals

CONSTANTS
  Tabs,
  MaxLogins   \* bound on the tokens issued

ASSUME LoginAssumption == MaxLogins \in Nat

VARIABLES
  token,     \* localStorage: the number of the token, or None
  cookie,    \* likewise
  issued,    \* how many tokens were issued
  expired,   \* those that have expired
  tab,       \* what each tab shows and believes, and what it waits for
  signedOut  \* has a logout been carried out, and no login since it began?

sessionVars == <<token, cookie, issued, expired, tab, signedOut>>

None == 0
Tokens == None..MaxLogins
Valid(k) == k # None /\ k \notin expired

SessionTypeOK ==
  /\ token \in Tokens /\ cookie \in Tokens /\ issued \in Tokens /\ expired \subseteq Tokens
  /\ signedOut \in BOOLEAN
  /\ \A x \in Tabs :
       /\ tab[x].path \in {"closed", "login", "admin"}
       /\ tab[x].check \in {"none", "asked", "found", "refused"}
       /\ tab[x].leaving \in {"none", "sent", "cleared", "lost"}
       /\ tab[x].loading => tab[x].check # "none"

SessionInit ==
  /\ token = None /\ cookie = None /\ issued = 0 /\ expired = {} /\ signedOut = FALSE
  /\ tab = [x \in Tabs |->
       [path |-> "closed", loggedIn |-> FALSE, loading |-> FALSE, check |-> "none",
        submitting |-> FALSE, denied |-> FALSE, leaving |-> "none", renewed |-> FALSE]]

Update(x, t) == tab' = [tab EXCEPT ![x] = t]
-----------------------------------------------------------------------------
(* AuthProvider mounts: a token is believed, without one the cookie is asked   *)
(* about.  A reload mounts again; the requests under way are forgotten.       *)
Mount(x, path) ==
  /\ path \in {"login", "admin"}
  /\ Update(x, [tab[x] EXCEPT
       !.path = path, !.loggedIn = token # None, !.loading = token = None,
       !.check = IF token = None THEN "asked" ELSE "none",
       !.submitting = FALSE, !.denied = FALSE, !.leaving = "none"])
  /\ UNCHANGED <<token, cookie, issued, expired, signedOut>>

(* GET session: the cookie decides, no token is sent.                        *)
SessionAsked(x) ==
  /\ tab[x].check = "asked"
  /\ \E answer \in {"refused"} \union {a \in {"found"} : Valid(cookie)} :
       Update(x, [tab[x] EXCEPT !.check = answer])
  /\ UNCHANGED <<token, cookie, issued, expired, signedOut>>

(* The answer is believed whatever happened since: a login may be undone.     *)
Checked(t) ==
  [t EXCEPT !.loggedIn = t.check = "found", !.loading = FALSE, !.check = "none"]

SessionChecked(x) ==
  /\ tab[x].check \in {"found", "refused"}
  /\ Update(x, Checked(tab[x]))
  /\ UNCHANGED <<token, cookie, issued, expired, signedOut>>

(* RequireAuth: its effect.                                                 *)
RequireAuth(x) ==
  /\ tab[x].path = "admin" /\ ~ tab[x].loading /\ ~ tab[x].loggedIn
  /\ Update(x, [tab[x] EXCEPT !.path = "login"])
  /\ UNCHANGED <<token, cookie, issued, expired, signedOut>>
-----------------------------------------------------------------------------
HandleSubmit(x) ==
  /\ tab[x].path = "login" /\ ~ tab[x].submitting
  /\ Update(x, [tab[x] EXCEPT !.submitting = TRUE])
  /\ UNCHANGED <<token, cookie, issued, expired, signedOut>>

(* The answer sets the cookie; the context's login the token; the form goes   *)
(* back to where the administrator came from.                               *)
LoggedIn(x) ==
  /\ tab[x].submitting /\ issued < MaxLogins
  /\ issued' = issued + 1 /\ cookie' = issued' /\ token' = issued'
  /\ signedOut' = FALSE
  /\ tab' = [y \in Tabs |->
       IF y = x THEN [tab[x] EXCEPT !.submitting = FALSE, !.loggedIn = TRUE,
                        !.loading = FALSE, !.path = "admin", !.renewed = TRUE]
                ELSE [tab[y] EXCEPT !.renewed = TRUE]]
  /\ UNCHANGED expired

LoginRefused(x) ==
  /\ tab[x].submitting
  /\ Update(x, [tab[x] EXCEPT !.submitting = FALSE])
  /\ UNCHANGED <<token, cookie, issued, expired, signedOut>>
-----------------------------------------------------------------------------
(* request sends the token, if there is one, beside the cookie, and the        *)
(* strategy looks at the cookie only when there is no token.                 *)
Authorised == IF token # None THEN Valid(token) ELSE Valid(cookie)

(* A page's request is refused.                                             *)
RequestDenied(x) ==
  /\ tab[x].path = "admin" /\ tab[x].loggedIn /\ ~ Authorised
  /\ Update(x, [tab[x] EXCEPT !.denied = TRUE])
  /\ UNCHANGED <<token, cookie, issued, expired, signedOut>>

(* The context's logout, of the menu or of a page that was refused: it waits   *)
(* for the server, while the tab shows the login page already.  A second one  *)
(* while it waits would change nothing else.                                *)
Logout(x) ==
  /\ tab[x].path = "admin" /\ (tab[x].loggedIn \/ tab[x].denied)
  /\ tab[x].leaving = "none"
  /\ Update(x, [tab[x] EXCEPT !.leaving = "sent", !.path = "login", !.denied = FALSE,
                              !.renewed = FALSE])
  /\ UNCHANGED <<token, cookie, issued, expired, signedOut>>

LogoutAnswered(x) ==
  /\ tab[x].leaving = "sent"
  /\ \/ cookie' = None /\ Update(x, [tab[x] EXCEPT !.leaving = "cleared"])
     \/ UNCHANGED cookie /\ Update(x, [tab[x] EXCEPT !.leaving = "lost"])
  /\ UNCHANGED <<token, issued, expired, signedOut>>

RemovedNot == token   \* mutant: the token stays in localStorage

(* It goes on whether the server answered or not, and whoever is logged in.   *)
Removed == None

LogoutEnds(x) ==
  /\ tab[x].leaving \in {"cleared", "lost"}
  /\ token' = Removed
  /\ signedOut' = (signedOut \/ (tab[x].leaving = "cleared" /\ ~ tab[x].renewed))
  /\ Update(x, [tab[x] EXCEPT !.leaving = "none", !.loggedIn = FALSE])
  /\ UNCHANGED <<cookie, issued, expired>>

Expire(k) ==
  /\ k \in 1..issued \ expired
  /\ expired' = expired \union {k}
  /\ UNCHANGED <<token, cookie, issued, tab, signedOut>>

Tab(x) ==
  \/ \E path \in {"login", "admin"} : Mount(x, path)
  \/ SessionAsked(x)
  \/ SessionChecked(x)
  \/ RequireAuth(x)
  \/ HandleSubmit(x)
  \/ LoggedIn(x)
  \/ LoginRefused(x)
  \/ RequestDenied(x)
  \/ Logout(x)
  \/ LogoutAnswered(x)
  \/ LogoutEnds(x)

SessionNext ==
  \/ \E x \in Tabs : Tab(x)
  \/ \E k \in Tokens : Expire(k)

SessionSpec == SessionInit /\ [][SessionNext]_sessionVars
-----------------------------------------------------------------------------
(* After a logout that the server carried out, with no login since it began   *)
(* in any tab, nothing is left in the browser that a request could be made    *)
(* with, in whatever order tabs are opened, reloaded, refused and logged out. *)
NothingLeft == signedOut => token = None /\ cookie = None
=============================================================================
