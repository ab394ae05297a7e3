------------------------------- MODULE Session -------------------------------
(* Refresh tokens of the API and the portal session that holds one of them.   *)
(*   apps/api/src/auth/auth.service.ts                                        *)
(*   apps/portal/src/lib/auth.ts, lib/session.ts, app/dashboard/layout.tsx    *)
(* A dashboard page asks for the session in its layout and in the page itself;*)
(* each of these views runs the jwt callback on the same cookie. NextAuth     *)
(* writes the callback's result back in those responses that can set cookies. *)
EXTENDS Naturals

CONSTANTS
  Tokens,   \* rows of RefreshToken
  Views,    \* callers of auth(): layout and page
  NoToken

ASSUME SessionConstants == NoToken \notin Tokens

VARIABLES
  token,    \* RefreshToken: unissued, live, revoked
  cookie,   \* portal session: its refresh token, and whether access has expired
  view,     \* a getSession() in progress
  parent,   \* observed: the token a token was traded for
  raced,    \* observed: tokens that two views found live before one revoked them
  out,      \* observed: tokens logged out
  ended,    \* observed: those logged out while no refresh had found them live
  lost,     \* observed: tokens traded for a pair that never reached the cookie
  restored  \* observed: spent tokens that a late response put back into the cookie

seenTokens == <<parent, raced, out, ended, lost, restored>>
sessionVars == <<token, cookie, view, seenTokens>>

NoCookie == [token |-> NoToken, expired |-> FALSE]
NoView == [pc |-> "idle", used |-> NoToken, got |-> NoToken]
Live == {t \in Tokens : token[t] = "live"}
Trading(t, pcs) == {v \in Views : view[v].used = t /\ view[v].pc \in pcs}

ViewSteps == {"idle", "keep", "find", "revoke", "issue", "answer", "failed"}

SessionTypeOK ==
  /\ token \in [Tokens -> {"unissued", "live", "revoked"}]
  /\ cookie \in [token : Tokens \cup {NoToken}, expired : BOOLEAN]
  /\ view \in [Views -> [pc : ViewSteps,
       used : Tokens \cup {NoToken}, got : Tokens \cup {NoToken}]]
  /\ parent \in [Tokens -> Tokens \cup {NoToken}]
  /\ raced \subseteq Tokens /\ ended \subseteq out /\ out \subseteq Tokens
  /\ lost \subseteq Tokens /\ restored \subseteq Tokens

SessionInit ==
  /\ token = [t \in Tokens |-> "unissued"]
  /\ cookie = NoCookie
  /\ view = [v \in Views |-> NoView]
  /\ parent = [t \in Tokens |-> NoToken]
  /\ raced = {} /\ out = {} /\ ended = {} /\ lost = {} /\ restored = {}

-----------------------------------------------------------------------------
issueTokens(t, from) ==
  /\ token[t] = "unissued"
  /\ token' = [token EXCEPT ![t] = "live"]
  /\ parent' = [parent EXCEPT ![t] = from]

\* authorize: log in and keep the pair in the session.
authorize ==
  /\ cookie = NoCookie
  /\ \E t \in Tokens : /\ issueTokens(t, NoToken)
                       /\ cookie' = [token |-> t, expired |-> FALSE]
  /\ UNCHANGED <<view, raced, out, ended, lost, restored>>

\* The portal signs out by dropping its cookie; the API is not told.
signOut ==
  /\ cookie # NoCookie
  /\ cookie' = NoCookie
  /\ UNCHANGED <<token, view, seenTokens>>

\* POST /auth/logout, by whoever holds the token: one guarded update.
logout(t) ==
  /\ token[t] = "live"
  /\ token' = [token EXCEPT ![t] = "revoked"]
  /\ out' = out \cup {t}
  /\ ended' = IF Trading(t, {"revoke"}) = {} THEN ended \cup {t} ELSE ended
  /\ UNCHANGED <<cookie, view, parent, raced, lost, restored>>

accessExpires ==
  /\ cookie # NoCookie /\ ~cookie.expired
  /\ cookie' = [cookie EXCEPT !.expired = TRUE]
  /\ UNCHANGED <<token, view, seenTokens>>

-----------------------------------------------------------------------------
\* The jwt callback of a view returns the tokens it was given, until the access
\* token has expired.
jwt(v) ==
  /\ view[v].pc = "idle" /\ cookie # NoCookie
  /\ view' = [view EXCEPT ![v] = [pc |-> IF cookie.expired THEN "find" ELSE "keep",
                                   used |-> cookie.token, got |-> NoToken]]
  /\ UNCHANGED <<token, cookie, seenTokens>>

\* What it returned is written back too, over whatever the cookie holds by then.
jwtReturn(v) ==
  /\ view[v].pc = "keep"
  /\ LET t == view[v].used IN
     /\ \E e \in BOOLEAN :
          /\ cookie.token = t => e = cookie.expired
          /\ cookie' = [token |-> t, expired |-> e]
     /\ restored' = IF t \in Live \cup {cookie.token} THEN restored ELSE restored \cup {t}
  /\ view' = [view EXCEPT ![v] = NoView]
  /\ UNCHANGED <<token, parent, raced, out, ended, lost>>

NoteRace(v) ==
  raced' = IF Trading(view[v].used, {"revoke"}) # {} /\ view'[v].pc = "revoke"
           THEN raced \cup {view[v].used} ELSE raced

\* Plausible bug: revokedAt is not looked at.
refresh_bug(v) ==
  /\ view[v].pc = "find"
  /\ view' = [view EXCEPT ![v].pc = "revoke"]
  /\ NoteRace(v)
  /\ UNCHANGED <<token, cookie, parent, out, ended, lost, restored>>

refresh(v) ==
  /\ view[v].pc = "find"
  /\ view' = [view EXCEPT ![v].pc =
       IF view[v].used \in Live THEN "revoke" ELSE "failed"]
  /\ NoteRace(v)
  /\ UNCHANGED <<token, cookie, parent, out, ended, lost, restored>>

\* The update is by id: it does not ask whether the token is still live.
refreshRevoke(v) ==
  /\ view[v].pc = "revoke"
  /\ token' = [token EXCEPT ![view[v].used] = "revoked"]
  /\ view' = [view EXCEPT ![v].pc = "issue"]
  /\ UNCHANGED <<cookie, seenTokens>>

refreshIssue(v) ==
  /\ view[v].pc = "issue"
  /\ \E t \in Tokens : /\ issueTokens(t, view[v].used)
                       /\ view' = [view EXCEPT ![v] =
                            [pc |-> "answer", used |-> view[v].used, got |-> t]]
  /\ UNCHANGED <<cookie, raced, out, ended, lost, restored>>

\* Plausible bug: the callback keeps the refresh token it has used.
jwtStore_bug(v) ==
  /\ view[v].pc = "answer"
  /\ cookie' = [token |-> view[v].used, expired |-> FALSE]
  /\ view' = [view EXCEPT ![v] = NoView]
  /\ UNCHANGED <<token, seenTokens>>

jwtStore(v) ==
  /\ view[v].pc = "answer"
  /\ cookie' = [token |-> view[v].got, expired |-> FALSE]
  /\ view' = [view EXCEPT ![v] = NoView]
  /\ UNCHANGED <<token, seenTokens>>

\* A refused refresh: the tokens are dropped from the session.
jwtDrop(v) ==
  /\ view[v].pc = "failed"
  /\ cookie' = NoCookie
  /\ view' = [view EXCEPT ![v] = NoView]
  /\ UNCHANGED <<token, seenTokens>>

\* The call or its answer is lost, or the response cannot set a cookie.
answerLost(v) ==
  /\ view[v].pc # "idle"
  /\ view' = [view EXCEPT ![v] = NoView]
  /\ lost' = IF view[v].pc \in {"issue", "answer"} THEN lost \cup {view[v].used} ELSE lost
  /\ UNCHANGED <<token, cookie, parent, raced, out, ended, restored>>

SessionNext ==
  \/ authorize \/ signOut \/ accessExpires
  \/ \E t \in Tokens : logout(t)
  \/ \E v \in Views : jwt(v) \/ refresh(v) \/ refreshRevoke(v) \/ refreshIssue(v)
                      \/ jwtReturn(v) \/ jwtStore(v) \/ jwtDrop(v) \/ answerLost(v)

SessionSpec == SessionInit /\ [][SessionNext]_sessionVars

-----------------------------------------------------------------------------
\* A refresh token buys two pairs only when two requests had both found it live
\* before either had revoked it (auth.service.ts:101).
TradedTwiceOnlyWhenRaced ==
  \A s, t \in Tokens : s # t /\ parent[s] # NoToken /\ parent[s] = parent[t]
    => parent[s] \in raced

\* Nothing is ever traded for a token that was logged out while no refresh was
\* between its check and its write (auth.service.ts:108).
LoggedOutForGood == \A t \in Tokens : parent[t] \notin ended

\* A token that was traded or logged out buys nothing more, but for the trades
\* that were already between their check and their write (auth.service.ts:101).
TokensSpentOnce == TradedTwiceOnlyWhenRaced /\ LoggedOutForGood

\* The refresh token in the session is good, or being traded, unless it was logged
\* out, or the pair it was traded for got lost, or the response of a view that
\* began before the access token expired came late (portal auth.ts:97, :111).
CookieUsable ==
  cookie # NoCookie /\ cookie.token \notin Live =>
    \/ Trading(cookie.token, {"issue", "answer"}) # {}
    \/ cookie.token \in lost \cup out \cup restored

\* "rotated automatically in the jwt() callback when the access token expires"
\* (session.ts:25): of two views that refresh, the slower one drops the session.
SessionNotDropped ==
  [][cookie.token \in Live /\ cookie' = NoCookie => view' = view]_sessionVars
=============================================================================
