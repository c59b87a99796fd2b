--------------------------------- MODULE Settings ---------------------------------
(***************************************************************************)
(* The settings of the network (SettingsScreen.tsx), the main process      *)
(* behind them (ipc.ts), the row of the server (operatorNetwork.ts) and    *)
(* the configuration the sidecar runs.                                     *)
(*                                                                         *)
(* A configuration is a record of choices; of an address, a domain, a      *)
(* provider or a secret it matters whether there is one, and which.  The   *)
(* form never holds a stored secret: None in it is "untouched".            *)
(***************************************************************************)
EXTENDS Integers, Sequences, FiniteSets

CONSTANTS
    None,           \* nothing
    Hosts,          \* host names
    Name            \* the host name of the app's configuration
ASSUME SettingsAssumption == Name \in Hosts /\ None \notin Hosts

VARIABLES
    row,            \* network_config
    edge,           \* the configuration the sidecar runs
    form,           \* the mounted screen
    calls,          \* what is awaited: the handlers of the screen, and their stage
    raced,          \* an answer failed half-way, two handlers stored at once, or one whose screen has gone did
    spent           \* bound: user, faults

setVars == <<row, edge, form, calls, raced>>

Strategies == {"control-plane", "dns01", "external-proxy"}
Exposes    == {"tailnet", "funnel"}

Defaults == [mode |-> "default", url |-> None, expose |-> "tailnet", cert |-> "control-plane",
             domain |-> None, provider |-> None, host |-> Name, key |-> None, token |-> None]

\* networkConfigSchema.
Runnable(c) ==
    /\ c.url # "bad" /\ c.host # None
    /\ c.mode = "custom" => c.url # None /\ c.cert # "control-plane" /\ c.expose # "funnel"
    /\ c.cert = "dns01" => c.domain # None /\ c.provider # None /\ c.token # None
    /\ c.cert = "external-proxy" => c.domain # None

NoSecrets(c) == [c EXCEPT !.key = None, !.token = None]
Or(a, b) == IF a = None THEN b ELSE a

\* withStoredSecrets: what is not said of a secret is what is stored.
Effective(c) == [c EXCEPT !.key = Or(@, row.key), !.token = Or(@, row.token)]

\* buildPayload: what the choices make pointless is left out.
Payload(d) ==
    [d EXCEPT !.url      = IF d.mode = "custom" THEN @ ELSE None,
              !.domain   = IF d.cert # "control-plane" THEN @ ELSE None,
              !.provider = IF d.cert = "dns01" THEN @ ELSE None]

NoForm == [on |-> FALSE, draft |-> Defaults, has |-> [key |-> FALSE, token |-> FALSE],
           tested |-> "no", error |-> FALSE, wrong |-> FALSE, testing |-> FALSE,
           saving |-> FALSE, loaded |-> FALSE, fresh |-> FALSE,
           green |-> Defaults]              \* history: what last tested and worked

Spend(what) == spent[what] > 0 /\ spent' = [spent EXCEPT ![what] = @ - 1]

SettingsInit(r) ==
    row = r /\ edge = NoSecrets(r) /\ form = NoForm /\ calls = {} /\ raced = FALSE

---------------------------------------------------------------------------
Call(do, at, cfg) == [do |-> do, at |-> at, cfg |-> cfg, live |-> TRUE]

\* The screen comes, and reads; it goes, and what it awaits goes on without it.
Mounted ==
    /\ form' = [NoForm EXCEPT !.on = TRUE]
    /\ calls' = {[c EXCEPT !.live = FALSE] : c \in calls} \cup {Call("load", "get", Defaults)}

Unmounted ==
    /\ form' = NoForm /\ calls' = {[c EXCEPT !.live = FALSE] : c \in calls}

\* The radio buttons of the mode move what cannot stay with it.
WithMode(d, m) ==
    [d EXCEPT !.mode = m,
              !.cert = IF m = "default" THEN "control-plane" ELSE @,
              !.expose = IF m = "custom" THEN "tailnet" ELSE @]

Edited(d) ==
    {WithMode(d, m) : m \in {"default", "custom"}}
    \cup {[d EXCEPT !.url = u] : u \in {None, "bad", "good"}}
    \cup {[d EXCEPT !.host = h] : h \in Hosts \cup {None}}
    \cup {[d EXCEPT !.cert = s] : s \in Strategies} \cup {[d EXCEPT !.expose = x] : x \in Exposes}
    \cup {[d EXCEPT !.domain = "dom"], [d EXCEPT !.provider = "dns"],
          [d EXCEPT !.key = "new"], [d EXCEPT !.token = "new"]}

\* patch: any edit takes back what was said of the one before.
Patch ==
    /\ form.loaded /\ Spend("user")
    /\ \E d \in Edited(form.draft) \ {form.draft} :
          form' = [form EXCEPT !.draft = d, !.tested = "no", !.error = FALSE, !.wrong = FALSE,
                               !.fresh = FALSE]
    /\ UNCHANGED <<row, edge, calls, raced>>

\* validate: a stored secret stands for itself.
Valid(p) ==
    Runnable([p EXCEPT !.key = Or(@, IF form.has.key THEN "stored" ELSE None),
                       !.token = Or(@, IF form.has.token THEN "stored" ELSE None)])

\* The buttons; "test" is locked while a test is awaited, the others while a
\* handler stores, and neither by the other.
RunTest(do) ==
    /\ form.loaded /\ IF do = "test" THEN ~form.testing ELSE ~form.saving
    /\ Spend("user")
    /\ LET p == Payload(form.draft)
           c == Call(do, "test", p)
       IN IF Valid(p) /\ c \notin calls
          THEN /\ form' = [form EXCEPT !.testing = TRUE, !.error = FALSE, !.wrong = FALSE]
               /\ calls' = calls \cup {c}
          ELSE form' = [form EXCEPT !.wrong = TRUE] /\ UNCHANGED calls
    /\ UNCHANGED <<row, edge, raced>>

Restore ==
    /\ form.loaded /\ ~form.saving /\ Spend("user")
    /\ form' = [form EXCEPT !.saving = TRUE]
    /\ calls' = calls \cup {Call("restore", "post", Defaults)}
    /\ UNCHANGED <<row, edge, raced>>

---------------------------------------------------------------------------
(* What comes back. *)

Seen(c, f) == form' = IF c.live THEN f ELSE form
Goes(c, at) == calls' = (calls \ {c}) \cup {[c EXCEPT !.at = at]}
Ends(c) == calls' = calls \ {c}

\* edge.test: the main process wants the whole of it, the stored secrets
\* included; the sidecar says whether the control server answers and a
\* certificate can be had.
Tested(c) ==
    /\ c.at = "test"
    /\ \E ok \in IF Runnable(c.cfg) THEN {"ok", "not"} ELSE {"error"} :
          /\ Seen(c, [form EXCEPT !.testing = FALSE, !.error = ok = "error",
                        !.saving = @ \/ (c.do = "save" /\ ok = "ok"),
                        !.tested = IF ok = "error" THEN @ ELSE ok,
                        !.green = IF ok = "ok" THEN c.cfg ELSE @,
                        !.wrong = IF ok = "not" THEN TRUE ELSE @])
          /\ IF c.do = "save" /\ ok = "ok" THEN Goes(c, "apply") ELSE Ends(c)
    /\ UNCHANGED <<row, edge, raced, spent>>

GivesUp(c) == Ends(c) /\ Seen(c, [form EXCEPT !.saving = FALSE, !.error = TRUE])

\* edge:apply-config tests again.
Applies(c) ==
    /\ c.at = "apply"
    /\ \/ Goes(c, "post") /\ UNCHANGED form
       \/ GivesUp(c)
    /\ UNCHANGED <<row, edge, raced, spent>>

\* POST /network-config.
Posted(c) ==
    /\ c.at = "post"
    /\ IF Runnable(Effective(c.cfg))
       THEN /\ row' = Effective(c.cfg) /\ Goes(c, "put") /\ UNCHANGED form
            /\ raced' = (raced \/ (form.on /\ ~c.live) \/ \E x \in calls : x.at = "put")
       ELSE GivesUp(c) /\ UNCHANGED <<row, raced>>
    /\ UNCHANGED <<edge, spent>>

\* restartEdge: the sidecar is handed what was sent, not what was stored.
PutToEdge(c) ==
    /\ c.at = "put" /\ edge' = NoSecrets(c.cfg)
    /\ Goes(c, "get")
    /\ Seen(c, IF c.do = "restore"
               THEN [form EXCEPT !.tested = "no", !.error = FALSE, !.wrong = FALSE] ELSE form)
    /\ UNCHANGED <<row, raced, spent>>

LoadedKeepingTyped(c) ==                \* mutant: what was typed of the secrets stays in the form
    [form EXCEPT !.draft = [NoSecrets(c.cfg) EXCEPT !.key = form.draft.key,
                                                    !.token = form.draft.token],
                 !.has = [key |-> c.cfg.key # None, token |-> c.cfg.token # None],
                 !.loaded = TRUE, !.fresh = TRUE]

\* load: the form is what is stored; of the secrets, that there are some.
Loaded(c) ==
    [form EXCEPT !.draft = NoSecrets(c.cfg),
                 !.has = [key |-> c.cfg.key # None, token |-> c.cfg.token # None],
                 !.loaded = TRUE, !.fresh = TRUE]

\* edge:get-config, and its answer; after a handler its lock goes.
Gets(c) ==
    /\ c.at = "get"
    /\ calls' = (calls \ {c}) \cup {[c EXCEPT !.at = "got", !.cfg = row]}
    /\ UNCHANGED <<row, edge, form, raced, spent>>

Got(c) ==
    /\ c.at = "got" /\ Ends(c)
    /\ Seen(c, [Loaded(c) EXCEPT !.saving = @ /\ c.do = "load"])
    /\ raced' = (raced \/ c.cfg # row)
    /\ UNCHANGED <<row, edge, spent>>

\* A call that does not come through: load's own is a toast, under which the
\* form stays as it was.
CallFails(c) ==
    /\ Spend("faults") /\ Ends(c)
    /\ Seen(c, [form EXCEPT !.testing = @ /\ c.at # "test",
                            !.saving = @ /\ (c.at = "test" \/ c.do = "load"),
                            !.error = c.at \notin {"get", "got"},
                            !.loaded = @ \/ c.at \in {"get", "got"}])
    /\ raced' = (raced \/ c.at \in {"put", "get", "got"})
    /\ UNCHANGED <<row, edge>>

CallStep(c) == Tested(c) \/ Applies(c) \/ Posted(c) \/ PutToEdge(c) \/ Gets(c) \/ Got(c)

SettingsNext ==
    \/ Patch \/ RunTest("test") \/ RunTest("save") \/ Restore
    \/ \E c \in calls : CallStep(c) \/ CallFails(c)

---------------------------------------------------------------------------
(* Properties. *)

\* Once nothing is awaited the sidecar runs what is stored, but for a secret,
\* unless they raced: an answer was lost half-way, two handlers stored at
\* once, or one whose screen had gone stored behind another's back.
EdgeRunsWhatIsStored == (calls = {} /\ ~raced) => edge = NoSecrets(row)

\* A form that was loaded and not edited shows what is stored, and nothing
\* that was typed of a secret ("the fields go back to showing the stored
\* secrets as masked rather than keeping the plaintext on screen").
FormIsTheRow ==
    form.fresh =>
        /\ form.draft = NoSecrets(form.draft)
        /\ (calls = {} /\ ~raced) => /\ form.draft = NoSecrets(row)
                                     /\ form.has.key = (row.key # None)
                                     /\ form.has.token = (row.token # None)

\* Not so: "tested and works" stands beside what was tested (SettingsScreen.tsx:
\* "leaving a green 'tested and works' beside a changed field is how an untested
\* configuration gets saved").  An edit takes back the answer that is there, not
\* the one that is still to come; no field is locked meanwhile.
GreenIsOfTheDraft ==
    form.tested = "ok" /\ ~form.fresh => form.green = Payload(form.draft)

SettingsHold == EdgeRunsWhatIsStored /\ FormIsTheRow

\* A stored secret is replaced by what the operator typed, and by nothing else
\* ("saving a hostname change cannot overwrite the access key with an empty
\* string").
SecretsAreKept ==
    [][\A s \in {"key", "token"} :
          row'[s] # row[s] => \E c \in calls : c.do = "save" /\ c.cfg[s] = row'[s] /\ row'[s] # None]_row

\* The locks of the buttons go again.
ButtonsComeBack == []<>(~form.testing /\ ~form.saving)
=============================================================================
