---------------------------- MODULE MCCompromiseScan ----------------------------
(* Small instances of CompromiseScan for TLC.                              *)
EXTENDS CompromiseScan

\* One email, one breach that both free sources know.
MailTarget == {"mail"}
MailKind   == [t \in MailTarget |-> "email"]
MailLower  == [t \in MailTarget |-> t]
MailWorld  == {[provider |-> p, target |-> "mail", title |-> b] :
                 p \in {"xposedornot", "emailrep"}, b \in Breach}

\* One address that the user enters in two cases, one domain that the NPM logs may bring in or
\* the user may enter.
MixedTarget == {"IP6", "ip6", "site"}
MixedKind   == [t \in MixedTarget |-> IF t = "site" THEN "domain" ELSE "ip"]
MixedLower  == [t \in MixedTarget |-> IF t = "IP6" THEN "ip6" ELSE t]
MixedHost   == {"site"}
MixedWorld  == {[provider |-> "shodan", target |-> "ip6", title |-> "ports"],
                [provider |-> "shodan", target |-> "IP6", title |-> "ports"],
                [provider |-> "threatfox", target |-> "site", title |-> "only"]}

\* Two targets entered by the user, nothing automatic, nothing to report.
ListTarget == {"a", "b"}
ListKind   == [t \in ListTarget |-> "email"]
ListLower  == [t \in ListTarget |-> t]
=============================================================================
