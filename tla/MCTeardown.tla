----------------------------- MODULE MCTeardown -----------------------------
(* Small situations for model-checking Teardown: a site, and two resources under it. *)
EXTENDS Teardown

CONSTANTS site, child, leaf

\* Everything is deleted by its own user; the child is at the site.
Plain ==
  [refs |-> {<<child, site>>}, contains |-> {}, inline |-> {}, lossy |-> {}, human |-> {},
   targets |-> CRs, foreground |-> {FALSE}, env |-> {}]

\* A device at a site with an interface declared inline, deleted in the foreground.
Inline ==
  [Plain EXCEPT !.contains = {<<leaf, child>>}, !.inline = {<<leaf, child>>},
                !.targets = {site, child}, !.foreground = {TRUE}]

\* A VLAN and a prefix of one site: only the site is deleted, perhaps with the annotation.
Star ==
  [Plain EXCEPT !.refs = @ \cup {<<leaf, site>>}, !.targets = {site}, !.env = {<<"Annotate", site>>}]

\* Users change their minds while a row of a human references the site, and deleting the child
\* destroys data; the leaf is out of it.
Minds ==
  [Plain EXCEPT !.human = {site}, !.lossy = {child}, !.targets = {site, child},
                !.env = {<<"Annotate", site>>, <<"Retain", child>>,
                         <<"Clear", child>>, <<"AllowLoss", child>>}]

AllCases == {Inline, Star, Minds}

\* The same device, deleted the way kubectl does by default.
Background == {[Inline EXCEPT !.targets = {child}, !.foreground = {FALSE}]}
=============================================================================
