-------------------------------- MODULE Mail --------------------------------
(***************************************************************************)
(* mail.service.ts: the partials it registers before the application       *)
(* listens, and the mails it renders and hands to the provider, which      *)
(* accepts or refuses them and whose answer may get lost.                  *)
(*                                                                         *)
(* Abstractions.  A mail is its template, the call whose context it shows  *)
(* and the partials it was rendered with; layout and wording are left out. *)
(***************************************************************************)
EXTENDS Naturals

CONSTANTS
    Partials,       \* of Handlebars
    Templates, Addresses,
    Hardcoded,      \* the address in the source
    Sends,          \* the calls
    None            \* absent value

MailAssumption == Hardcoded \in Addresses /\ None \notin Templates \cup Addresses

VARIABLES
    registered,     \* partials registered
    sends,          \* calls in progress and their outcome
    outbox          \* mails the provider accepted

vars == <<registered, sends, outbox>>

-----------------------------------------------------------------------------
Idle == [pc |-> "idle", template |-> None, to |-> None, with |-> {}]

Goes(k, pc) == [sends EXCEPT ![k].pc = pc]

-----------------------------------------------------------------------------
RegisterPartial(p) ==
    /\ p \notin registered
    /\ registered' = registered \cup {p}
    /\ UNCHANGED <<sends, outbox>>

(* Nest awaits onModuleInit of every module before it listens.             *)
Listening == registered = Partials

Send(k, template, to) ==
    /\ Listening
    /\ sends[k].pc = "idle"
    /\ sends' = [sends EXCEPT ![k] =
                    [Idle EXCEPT !.pc = "render", !.template = template, !.to = to]]
    /\ UNCHANGED <<registered, outbox>>

RenderTemplate(k) ==
    /\ sends[k].pc = "render"
    /\ \/ sends' = [sends EXCEPT ![k].pc = "post", ![k].with = registered]
       \/ sends' = Goes(k, "threw")     \* the template cannot be read
    /\ UNCHANGED <<registered, outbox>>

Mail(k, to) ==
    [call |-> k, template |-> sends[k].template, with |-> sends[k].with, to |-> to]

(* Faulty form: resend does not throw, and nobody looks at its error.      *)
ErrorIgnored(k) == Goes(k, "returned")

WithError(k) == Goes(k, "threw")

SendEmail(k) ==
    /\ sends[k].pc = "post"
    /\ \/ /\ outbox' = outbox \cup {Mail(k, Hardcoded)}
          /\ sends' = Goes(k, "returned")
       \/ /\ outbox' \in {outbox, outbox \cup {Mail(k, Hardcoded)}}
          /\ sends' = WithError(k)
    /\ UNCHANGED registered

-----------------------------------------------------------------------------
Init ==
    /\ registered = {}
    /\ sends = [k \in Sends |-> Idle]
    /\ outbox = {}

Next ==
    \/ \E p \in Partials : RegisterPartial(p)
    \/ \E k \in Sends :
          \/ \E template \in Templates, to \in Addresses : Send(k, template, to)
          \/ RenderTemplate(k) \/ SendEmail(k)

Spec == Init /\ [][Next]_vars

-----------------------------------------------------------------------------
(* Properties.                                                             *)

(* A caller that is told the mail was sent has one with the provider, of   *)
(* its own template and context and with the whole layout; a caller that   *)
(* is told otherwise has at most one there, and a whole one.               *)
ToldWhatWasSent ==
    \A k \in Sends :
        LET sent == {mail \in outbox : mail.call = k} IN
        /\ \A m1, m2 \in sent : m1 = m2
        /\ \A mail \in sent : mail.template = sends[k].template /\ mail.with = Partials
        /\ sends[k].pc = "returned" => sent # {}
=============================================================================
