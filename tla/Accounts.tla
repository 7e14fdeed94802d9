------------------------------ MODULE Accounts ------------------------------
(***************************************************************************)
(* How one user signs in: the password, the linked identities of other     *)
(* providers, the second factor, the letters with links in them, and the   *)
(* credentials (sessions and API tokens) that come of it.  A request first *)
(* finds out who asks, in statements of their own, then runs a transaction *)
(* (READ COMMITTED) that locks rows as it goes: the profile, a letter, the *)
(* account.  What it writes is there for others when it commits; a         *)
(* connection may be lost before that and leaves nothing.                  *)
(***************************************************************************)
EXTENDS Null, Integers, FiniteSets

CONSTANTS
  Connection,    \* connections that serve requests
  Letter,        \* ids of the links that are sent by mail
  Credential,    \* ids of sessions and API tokens
  Identity,      \* accounts at providers, [provider, subject]
  Offers,        \* bounds the kinds of requests an instance mixes, a set of sets
  MaxSecrets,    \* bounds the second factors that are set up
  MaxTime        \* bounds the clock, in steps of 30 seconds

VARIABLES
  password,    \* "none" without an account, "empty" or "chosen" as its hash is
  verified,    \* email_verified_at IS NOT NULL
  profile,     \* product_profiles, None before the INSERT
  letter,      \* the unused rows of password_resets and email_verifications, and the
               \* profile's email_token_hash: what each is for
  credential,  \* the rows of sessions and api_tokens that are not revoked
  link,        \* oauth_accounts: whose an identity is
  doing,       \* the request of each connection
  accepted,    \* the codes of the secret that committed transactions accepted
  chosen,      \* the secrets generated so far
  now,         \* the step of 30 seconds
  offered      \* the kinds of requests, one of Offers

accountVars ==
  <<password, verified, profile, letter, credential, link, doing, accepted, chosen, now, offered>>

HasAccount == password # "none"
HasPassword == password = "chosen"
Protected == profile # None /\ profile.secret > 0
Live == {c \in Credential : credential[c] # None}
Unused(kind) == {l \in Letter : letter[l] = kind}
Linked == {i \in Identity : link[i] = "user"}

\* A code is one of a secret's recovery codes or the one of a step.
Recovery == -1
Code == [secret : 1..MaxSecrets, of : Recovery..MaxTime + 1]

\* The row locks a transaction takes, in their order, and the statements that
\* void letters and revoke credentials.
Path(kind) ==
  CASE kind \in {"login", "setup", "email"} -> <<"profile", "commit">>
    [] kind \in {"revoke", "enable"} -> <<"profile", "revoke", "commit">>
    [] kind = "disable" -> <<"profile", "clear", "revoke", "commit">>
    [] kind \in {"password", "confirm"} -> <<"profile", "account", "void", "revoke", "commit">>
    [] kind = "reset"   -> <<"letter", "account", "void", "revoke", "commit">>
    [] kind = "verify"  -> <<"letter", "account", "commit">>
    [] kind = "forgot"  -> <<"void", "commit">>
    [] kind = "resend"  -> <<"replace", "commit">>
    [] kind = "unlink"  -> <<"count", "commit">>
    [] kind = "oauth"   -> <<"link", "look", "commit">>
    [] OTHER            -> <<"commit">>
Revokes(kind) == \E n \in DOMAIN Path(kind) : Path(kind)[n] = "revoke"

SignInRequest ==
  [kind : {"login", "setup", "email", "disable", "revoke", "enable", "password", "confirm",
           "reset", "verify", "forgot", "resend", "unlink", "oauth", "connect", "token"},
   at : 1..5, row : BOOLEAN, letter : Letter \cup {None}, identity : Identity \cup {None},
   code : Code \cup {None}, secret : 0..MaxSecrets,
   voids : SUBSET Letter, ends : SUBSET Credential, before : SUBSET Credential,
   late : BOOLEAN]
ProfileRow == [secret : 0..MaxSecrets, pending : 0..MaxSecrets, last : -1..MaxTime + 1,
               recovery : BOOLEAN, letter : Letter \cup {None}]
CredentialRow == [kind : {"session", "token"}, secret : 0..MaxSecrets, late : BOOLEAN]

AccountsAssumption ==
  /\ MaxSecrets \in Nat /\ MaxTime \in Nat
  /\ \A i \in Identity : DOMAIN i = {"provider", "subject"}
  /\ None \notin Connection \cup Letter \cup Credential \cup Identity
  /\ None \notin {"reset", "verify", "email", "user"}
  /\ None \notin Code /\ None \notin SignInRequest
  /\ None \notin ProfileRow /\ None \notin CredentialRow

AccountTypes ==
  /\ password \in {"none", "empty", "chosen"} /\ verified \in BOOLEAN
  /\ profile \in ProfileRow \cup {None}
  /\ letter \in [Letter -> {None, "reset", "verify", "email"}]
  /\ credential \in [Credential -> CredentialRow \cup {None}]
  /\ link \in [Identity -> {None, "user", "other"}]
  /\ doing \in [Connection -> SignInRequest \cup {None}]
  /\ accepted \subseteq Code /\ chosen \in 0..MaxSecrets /\ now \in 0..MaxTime
  /\ offered \in Offers

AccountsInit ==
  /\ password = "none" /\ verified = FALSE /\ profile = None
  /\ letter = [l \in Letter |-> None] /\ credential = [c \in Credential |-> None]
  /\ link = [i \in Identity |-> None] /\ doing = [w \in Connection |-> None]
  /\ accepted = {} /\ chosen = 0 /\ now = 0 /\ offered \in Offers
-----------------------------------------------------------------------------
(* Before the transaction *)

rowVars == <<password, verified, profile, letter, credential, link, accepted, chosen, now>>

\* An API token is as good as the credential it is asked for with.
Begins(w, kind, l, i, by) ==
  /\ doing[w] = None /\ kind \in offered
  /\ doing' = [doing EXCEPT ![w] =
       [kind |-> kind, at |-> 1, row |-> FALSE, letter |-> l, identity |-> i, code |-> None,
        secret |-> IF kind = "token" THEN credential[by].secret ELSE 0,
        voids |-> {}, ends |-> {}, before |-> IF Revokes(kind) THEN Live ELSE {},
        late |-> kind = "token" /\ credential[by].late]]
  /\ UNCHANGED rowVars

\* The hash is read and the password checked before the transaction begins.
Login(w) == HasPassword /\ Begins(w, "login", None, None, None)

\* The actor is looked up by its session or token, then asked for the password.
Settings(w, kind, c) == c \in Live /\ HasPassword /\ Begins(w, kind, None, None, c)

\* An actor's requests that need no password.
Enable(w, c) == c \in Live /\ Begins(w, "enable", None, None, c)
CreateApiToken(w, c) == c \in Live /\ Begins(w, "token", None, None, c)
RequestEmailVerification(w, c) == c \in Live /\ ~verified /\ Begins(w, "resend", None, None, c)
ConfirmEmail(w, c, l) == c \in Live /\ Begins(w, "confirm", l, None, c)
Unlink(w, c, i) == c \in Live /\ Begins(w, "unlink", None, i, c)
Connect(w, c, i) == c \in Live /\ link[i] = None /\ Begins(w, "connect", None, i, c)

\* A link in a letter needs no actor, and neither does an identity.
Follow(w, kind, l) == Begins(w, kind, l, None, None)
Forgot(w) == HasAccount /\ Begins(w, "forgot", None, None, None)
OAuth(w, i) == link[i] # "other" /\ Begins(w, "oauth", None, i, None)
-----------------------------------------------------------------------------
(* The statements of a transaction *)

At(w, step) == doing[w] # None /\ Path(doing[w].kind)[doing[w].at] = step

Held(w, step) ==
  doing[w] # None /\ \E n \in 1..doing[w].at - 1 : Path(doing[w].kind)[n] = step

\* The row of the profile, also one that is inserted and not committed.
ProfileFree(w) == \A v \in Connection \ {w} : doing[v] # None => ~doing[v].row
AccountFree(w) == \A v \in Connection \ {w} : ~Held(v, "account")
LetterFree(w, l) ==
  \A v \in Connection \ {w} : ~(Held(v, "letter") /\ doing[v].letter = l)
                          /\ ~(Held(v, "void") /\ l \in doing[v].voids)

Goes(w, request) ==
  /\ doing' = [doing EXCEPT ![w] = [request EXCEPT !.at = @ + 1]]
  /\ UNCHANGED rowVars

\* Mutant: a code is good for as long as its step is near.
AcceptsAgain(code) ==
  /\ code.secret = profile.secret
  /\ IF code.of = Recovery THEN profile.recovery ELSE code.of \in now - 1..now + 1

\* The code of a step around now that is newer than the last one, or a
\* recovery code that is left.
Accepts(code) ==
  /\ code.secret = profile.secret
  /\ IF code.of = Recovery THEN profile.recovery
     ELSE code.of \in now - 1..now + 1 /\ code.of > profile.last

VerifyMfa(w, request) ==
  IF ~Protected THEN Goes(w, request)
  ELSE \E code \in Code :
         Accepts(code) /\ Goes(w, [request EXCEPT !.code = code, !.secret = profile.secret])

\* SELECT ... FOR UPDATE locks nothing while there is no row; the row that
\* setting up inserts first keeps out only who would insert it too.
LockProfile(w) ==
  LET row == profile # None \/ doing[w].kind = "setup"
      request == [doing[w] EXCEPT !.row = row]
  IN  /\ At(w, "profile") /\ (row => ProfileFree(w))
      /\ CASE doing[w].kind \in {"login", "email", "disable", "revoke", "password"} ->
                VerifyMfa(w, request)
           [] doing[w].kind = "setup"   -> ~Protected /\ Goes(w, request)
           [] doing[w].kind = "enable"  ->
                /\ profile # None /\ profile.secret = 0 /\ profile.pending > 0
                /\ \E step \in (now - 1..now + 1) \cap 0..MaxTime + 1 :
                     Goes(w, [request EXCEPT !.code = [secret |-> profile.pending, of |-> step],
                                             !.secret = profile.pending])
           [] doing[w].kind = "confirm" ->
                profile # None /\ profile.letter = doing[w].letter /\ Goes(w, request)

\* The UPDATE that turns the second factor off finds the row, or none.
ClearFactor(w) ==
  /\ At(w, "clear") /\ (profile # None => ProfileFree(w))
  /\ Goes(w, [doing[w] EXCEPT !.row = profile # None])

LockLetter(w) ==
  /\ At(w, "letter") /\ LetterFree(w, doing[w].letter)
  /\ doing[w].letter \in Unused(doing[w].kind)
  /\ Goes(w, doing[w])

LockAccount(w) == At(w, "account") /\ AccountFree(w) /\ Goes(w, doing[w])

\* UPDATE ... SET used_at WHERE used_at IS NULL
VoidLetters(w) ==
  /\ At(w, "void") /\ \A l \in Unused("reset") : LetterFree(w, l)
  /\ Goes(w, [doing[w] EXCEPT !.voids = Unused("reset")])

\* A reset ends the sessions, the settings end the API tokens as well.
Ends(kind) ==
  {c \in Live : (kind = "reset" => credential[c].kind = "session")}

Revoke(w) == At(w, "revoke") /\ Goes(w, [doing[w] EXCEPT !.ends = Ends(doing[w].kind)])

\* How many logins are left is read without a lock.
LastLogin == Cardinality(Linked) <= 1 /\ password = "empty"
CountLogins(w) == At(w, "count") /\ HasAccount /\ ~LastLogin /\ Goes(w, doing[w])

\* Mutant: an identity of a provider needs no second factor.
LookAway(w) == At(w, "look") /\ Goes(w, doing[w])

\* The protection of the account is read in a statement of its own.
LookProtected(w) == At(w, "look") /\ ~Protected /\ Goes(w, doing[w])

-----------------------------------------------------------------------------
(* The ends of requests *)

\* The transactions that enable the second factor and have revoked already.
Enabling == {w \in Connection : doing[w] # None /\ doing[w].kind = "enable" /\ Held(w, "revoke")}

Row(w, kind) ==
  [kind |-> kind, secret |-> doing[w].secret,
   late |-> doing[w].late \/ Enabling \ {w} # {}]
\* Ids are random: none that a request still speaks of is taken again.
NewCredentials ==
  {c \in Credential \ Live : \A v \in Connection : doing[v] # None => c \notin doing[v].before}
NewLetters ==
  {l \in Letter : letter[l] = None
     /\ \A v \in Connection : doing[v] # None => l # doing[v].letter /\ l \notin doing[v].voids}
Inserts(w, kind) ==
  \E c \in NewCredentials : credential' = [credential EXCEPT ![c] = Row(w, kind)]

Revoked(w) ==
  [c \in Credential |-> IF c \in doing[w].ends THEN None ELSE credential[c]]

Voided(letters) ==
  [l \in Letter |-> IF l \in letters THEN None ELSE letter[l]]
WritesLetter(kind, letters) ==
  \E l \in NewLetters : letter' = [Voided(letters) EXCEPT ![l] = kind]

\* What the accepted code leaves of the profile.
Spent(w) ==
  IF doing[w].code = None THEN profile
  ELSE IF doing[w].code.of = Recovery THEN [profile EXCEPT !.recovery = FALSE]
  ELSE [profile EXCEPT !.last = doing[w].code.of]

Blank == [secret |-> 0, pending |-> 0, last |-> -1, recovery |-> FALSE, letter |-> None]
Ensured == IF profile = None THEN Blank ELSE profile

\* What has found the second factor off, or its actor, before it is enabled.
Checked(v) ==
  \/ doing[v].kind = "login" /\ Held(v, "profile")
  \/ doing[v].kind = "oauth" /\ Held(v, "look")
  \/ doing[v].kind = "token"
Done(w) ==
  doing' = [v \in Connection |->
    IF v = w \/ doing[v] = None THEN None
    ELSE [doing[v] EXCEPT !.late = @ \/ (doing[w].kind = "enable" /\ Checked(v))]]

Finishes(w, kind) ==
  /\ At(w, "commit") /\ doing[w].kind = kind /\ Done(w)
  /\ accepted' = IF kind = "disable" /\ doing[w].row THEN {}
                 ELSE accepted \cup ({doing[w].code} \ {None})
  /\ UNCHANGED now

CommitLogin(w) ==
  /\ Finishes(w, "login") /\ Inserts(w, "session") /\ profile' = Spent(w)
  /\ UNCHANGED <<password, verified, letter, link, chosen>>

\* Setting up asks for a new secret, enabling makes it count.
CommitSetup(w) ==
  /\ Finishes(w, "setup") /\ chosen < MaxSecrets
  /\ chosen' = chosen + 1 /\ profile' = [Ensured EXCEPT !.pending = chosen + 1]
  /\ UNCHANGED <<password, verified, letter, credential, link>>
CommitEnable(w) ==
  /\ Finishes(w, "enable")
  /\ profile' = [profile EXCEPT !.secret = doing[w].secret, !.pending = 0,
                                !.last = doing[w].code.of, !.recovery = TRUE]
  /\ \E c \in NewCredentials : credential' = [Revoked(w) EXCEPT ![c] = Row(w, "session")]
  /\ UNCHANGED <<password, verified, letter, link, chosen>>
CommitDisable(w) ==
  /\ Finishes(w, "disable")
  /\ profile' = IF ~doing[w].row THEN profile
                ELSE [profile EXCEPT !.secret = 0, !.pending = 0, !.last = -1, !.recovery = FALSE]
  /\ credential' = Revoked(w)
  /\ UNCHANGED <<password, verified, letter, link, chosen>>
CommitRevoke(w) ==
  /\ Finishes(w, "revoke") /\ credential' = Revoked(w) /\ profile' = Spent(w)
  /\ UNCHANGED <<password, verified, letter, link, chosen>>

CommitPassword(w) ==
  /\ Finishes(w, "password") /\ password' = "chosen"
  /\ credential' = Revoked(w) /\ letter' = Voided(doing[w].voids) /\ profile' = Spent(w)
  /\ UNCHANGED <<verified, link, chosen>>
CommitReset(w) ==
  /\ Finishes(w, "reset") /\ password' = "chosen"
  /\ credential' = Revoked(w) /\ letter' = Voided(doing[w].voids)
  /\ UNCHANGED <<verified, profile, link, chosen>>
CommitForgot(w) ==
  /\ Finishes(w, "forgot") /\ WritesLetter("reset", doing[w].voids)
  /\ UNCHANGED <<password, verified, profile, credential, link, chosen>>

\* The link to a new address is the profile's latest.
CommitEmail(w) ==
  /\ Finishes(w, "email") /\ ProfileFree(w)
  /\ \E l \in NewLetters :
       /\ letter' = [Voided(Unused("email")) EXCEPT ![l] = "email"]
       /\ profile' = [(IF profile = None THEN Blank ELSE Spent(w)) EXCEPT !.letter = l]
  /\ UNCHANGED <<password, verified, credential, link, chosen>>
CommitConfirm(w) ==
  /\ Finishes(w, "confirm") /\ verified' = TRUE /\ credential' = Revoked(w)
  /\ letter' = Voided(doing[w].voids \cup {doing[w].letter})
  /\ profile' = [profile EXCEPT !.letter = None]
  /\ UNCHANGED <<password, link, chosen>>

CommitVerify(w) ==
  /\ Finishes(w, "verify") /\ verified' = TRUE /\ letter' = Voided({doing[w].letter})
  /\ UNCHANGED <<password, profile, credential, link, chosen>>

\* A new verification deletes the unused ones, then inserts its own.
Replace(w) ==
  /\ At(w, "replace") /\ \A l \in Unused("verify") : LetterFree(w, l)
  /\ letter' = Voided(Unused("verify"))
  /\ doing' = [doing EXCEPT ![w].at = @ + 1]
  /\ UNCHANGED <<password, verified, profile, credential, link, accepted, chosen, now>>
CommitResend(w) ==
  /\ Finishes(w, "resend") /\ WritesLetter("verify", {})
  /\ UNCHANGED <<password, verified, profile, credential, link, chosen>>

CommitToken(w) ==
  /\ Finishes(w, "token") /\ Inserts(w, "token")
  /\ UNCHANGED <<password, verified, profile, letter, link, chosen>>

\* The primary key of oauth_accounts is the subject alone.
SubjectFree(i) == \A j \in Identity : j.subject = i.subject => link[j] = None
CommitConnect(w) ==
  /\ Finishes(w, "connect") /\ SubjectFree(doing[w].identity)
  /\ link' = [link EXCEPT ![doing[w].identity] = "user"]
  /\ UNCHANGED <<password, verified, profile, letter, credential, chosen>>
CommitUnlink(w) ==
  /\ Finishes(w, "unlink") /\ link[doing[w].identity] = "user"
  /\ link' = [i \in Identity |->
       IF i \in Linked /\ i.provider = doing[w].identity.provider THEN None ELSE link[i]]
  /\ UNCHANGED <<password, verified, profile, letter, credential, chosen>>

\* An unknown identity is linked to the account of its address, which is
\* created if need be, in one transaction.
FindIdentity(w) ==
  /\ At(w, "link") /\ link[doing[w].identity] = "user" /\ Goes(w, doing[w])
CreateIdentity(w) ==
  /\ At(w, "link") /\ SubjectFree(doing[w].identity)
  /\ link' = [link EXCEPT ![doing[w].identity] = "user"]
  /\ password' = IF HasAccount THEN password ELSE "empty"
  /\ verified' = (verified \/ ~HasAccount)
  /\ doing' = [doing EXCEPT ![w].at = @ + 1]
  /\ UNCHANGED <<profile, letter, credential, accepted, chosen, now>>
CommitOAuth(w) ==
  /\ Finishes(w, "oauth") /\ Inserts(w, "session")
  /\ UNCHANGED <<password, verified, profile, letter, link, chosen>>

\* The user, the account and the session are one transaction; the letter that
\* verifies the address is another request's work from there on.
Register(w) ==
  /\ doing[w] = None /\ ~HasAccount
  /\ password' = "chosen"
  /\ \E c \in NewCredentials :
       credential' = [credential EXCEPT ![c] = [kind |-> "session", secret |-> 0, late |-> FALSE]]
  /\ doing' = [doing EXCEPT ![w] =
       [kind |-> "resend", at |-> 1, row |-> FALSE, letter |-> None, identity |-> None,
        code |-> None, secret |-> 0, voids |-> {}, ends |-> {}, before |-> {}, late |-> FALSE]]
  /\ UNCHANGED <<verified, profile, letter, link, accepted, chosen, now>>

\* The request is refused, or its connection is lost.
Rollback(w) ==
  doing[w] # None /\ doing' = [doing EXCEPT ![w] = None] /\ UNCHANGED rowVars

\* Logging out and revoking a token are one statement.
End(c) ==
  /\ c \in Live /\ credential' = [credential EXCEPT ![c] = None]
  /\ UNCHANGED <<password, verified, profile, letter, link, doing, accepted, chosen, now>>
-----------------------------------------------------------------------------
(* The world *)

\* Somebody else links an identity.
Elsewhere(i) ==
  /\ "oauth" \in offered /\ SubjectFree(i) /\ link' = [link EXCEPT ![i] = "other"]
  /\ UNCHANGED <<password, verified, profile, letter, credential, doing, accepted, chosen, now>>

Tick ==
  /\ "login" \in offered /\ now < MaxTime /\ now' = now + 1
  /\ UNCHANGED <<password, verified, profile, letter, credential, link, doing, accepted, chosen>>

AskAsActor(w, c) ==
  \/ \E kind \in {"setup", "email", "disable", "revoke", "password"} : Settings(w, kind, c)
  \/ Enable(w, c) \/ CreateApiToken(w, c) \/ RequestEmailVerification(w, c)
  \/ \E l \in Unused("email") : ConfirmEmail(w, c, l)
  \/ \E i \in Identity : Unlink(w, c, i) \/ Connect(w, c, i)
AskAsAnyone(w) ==
  \/ Register(w) \/ Login(w) \/ Forgot(w)
  \/ \E kind \in {"reset", "verify"} : \E l \in Unused(kind) : Follow(w, kind, l)
  \/ \E i \in Identity : OAuth(w, i)

Statement(w) ==
  \/ LockProfile(w) \/ ClearFactor(w) \/ LockLetter(w) \/ LockAccount(w)
  \/ VoidLetters(w) \/ Revoke(w) \/ CountLogins(w) \/ LookProtected(w)
  \/ Replace(w) \/ FindIdentity(w) \/ CreateIdentity(w)
Commit(w) ==
  \/ CommitLogin(w) \/ CommitSetup(w) \/ CommitEnable(w) \/ CommitDisable(w) \/ CommitRevoke(w)
  \/ CommitPassword(w) \/ CommitReset(w) \/ CommitForgot(w) \/ CommitEmail(w) \/ CommitConfirm(w)
  \/ CommitVerify(w) \/ CommitResend(w) \/ CommitToken(w) \/ CommitConnect(w) \/ CommitUnlink(w)
  \/ CommitOAuth(w)

AccountsNext ==
  /\ \/ \E w \in Connection :
          \/ AskAsAnyone(w) \/ \E c \in Credential : AskAsActor(w, c)
          \/ Statement(w) \/ Commit(w) \/ Rollback(w)
     \/ \E c \in Credential : End(c)
     \/ \E i \in Identity : Elsewhere(i)
     \/ Tick
  /\ UNCHANGED offered

AccountsSpec == AccountsInit /\ [][AccountsNext]_accountVars
-----------------------------------------------------------------------------
(* Properties *)

\* While the second factor is enabled, whoever is signed in has proved it,
\* however sign-ins, tokens, enabling and disabling interleave; exempt is what
\* was checked before it was enabled and committed after (verify_mfa, enable_mfa,
\* oauth_callback).
SignedInWithSecondFactor ==
  /\ AccountTypes
  /\ Protected =>
       \A c \in Live : credential[c].secret = profile.secret \/ credential[c].late

\* A code signs in or changes a setting once, and a link in a letter is followed
\* once (verify_mfa, reset_password, verify_email and confirm_email lock and
\* check the row again).
UsesOnce(w) ==
  /\ doing[w].code \notin accepted
  /\ doing[w].letter # None => letter[doing[w].letter] # None

\* What changes how the user signs in ends every session there was when it
\* began, and all but a reset end the API tokens too (reset_password, revoke).
EndsWhatThereWas(w) ==
  Revokes(doing[w].kind) =>
    \A c \in doing[w].before :
      credential'[c] # None => doing[w].kind = "reset" /\ credential[c].kind = "token"

\* Both hold of every commit, whatever other transactions did since the request
\* began.
Commits(w) == At(w, "commit") /\ doing'[w] = None /\ ~UNCHANGED rowVars
SignInsAreFresh ==
  [][\A w \in Connection : Commits(w) => UsesOnce(w) /\ EndsWhatThereWas(w)]_accountVars
=============================================================================
