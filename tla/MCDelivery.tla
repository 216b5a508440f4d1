---------------------------- MODULE MCDelivery ----------------------------
(* The small instance TLC explores of Delivery: one application whose commits differ in *)
(* what a check could miss.                                                             *)
EXTENDS Delivery, TLC

CONSTANTS r1, h1

Manifest ==
  [schema |-> TRUE, project |-> "shop", environment |-> "lab", repository |-> "r",
   web |-> "web", port |-> 80, metrics |-> [path |-> <<"metrics">>, port |-> 80],
   domains |-> <<[host |-> "shop.example", service |-> None, paths |-> {<<"admin">>}, hostFits |-> TRUE],
                 [host |-> "api.example", service |-> "api", paths |-> {<<"metrics", "x">>}, hostFits |-> TRUE]>>,
   mode |-> "docker", restoreValidation |-> TRUE, memory |-> 512, buffers |-> 256,
   migration |-> None, exports |-> <<[name |-> "stock", query |-> TRUE]>>,
   dashboards |-> "dashboards", compose |-> "compose.yml", secrets |-> "secrets.yml", size |-> 1]

Service == [build |-> FALSE, ports |-> FALSE, hostNetwork |-> FALSE, image |-> "PLATFORM_IMAGE",
            expose |-> {80}, networks |-> {"edge", "db"}]

Compose ==
  [services |-> "web" :> Service @@ "api" :> [Service EXCEPT !.image = "pinned", !.networks = {"edge"}],
   networks |-> "edge" :> [external |-> TRUE, name |-> "platform-edge"]
             @@ "db" :> [external |-> TRUE, name |-> "PLATFORM_DB_NETWORK"],
   size |-> 1]

Secrets == [sops |-> TRUE, mac |-> TRUE, recipients |-> {1, 2}, size |-> 1]

Dashboard == [name |-> TRUE, title |-> TRUE, panels |-> TRUE, shared |-> FALSE, fits |-> TRUE,
              sources |-> {"prometheus", "built-in"}]
Dashboards == [dashboards |-> {Dashboard}, size |-> 1]

Base ==
  "platform.yml" :> Manifest @@ "compose.yml" :> Compose @@ "secrets.yml" :> Secrets
  @@ "dashboards" :> Dashboards

Plain    == [Base EXCEPT !["platform.yml"].dashboards = None, !["platform.yml"].size = 2]
OneKey   == [Base EXCEPT !["secrets.yml"].recipients = {1}]
Large    == [Base EXCEPT !["compose.yml"].size = MaxMember + 1]
Dotted   == [Base EXCEPT !["platform.yml"].compose = "./compose.yml"] @@ "./compose.yml" :> Compose
Shared   == [Base EXCEPT !["platform.yml"].secrets = "compose.yml",
                         !["compose.yml"] = Compose @@ Secrets]
Ported   == [Base EXCEPT !["compose.yml"].services["web"].ports = TRUE]
Moved    == [Base EXCEPT !["platform.yml"].environment = "production"]
Emptied  == [Base EXCEPT !["secrets.yml"] = None]

MCTagged   == {Base, Plain, OneKey, Large, Dotted, Shared, Ported}
MCCheckout == {Base, Plain, Moved, Emptied}

=============================================================================
