----------------------------- MODULE Contract -----------------------------
(***************************************************************************)
(* What an application has to be for the platform to take it, and what a   *)
(* bundle has to be for a host to take it: the checks that the build, on a *)
(* runner or a workstation, and the host make of the same documents.       *)
(*                                                                         *)
(* A document is a record of what the checks look at; schema says whether  *)
(* it satisfies its JSON schema.  A path on the proxy is a sequence of     *)
(* segments, a size a number of megabytes.  The SHA-256 of a document is   *)
(* the document: no two have the same.                                     *)
(***************************************************************************)
EXTENDS Integers, FiniteSets, Sequences, SequencesExt

CONSTANTS
  Canonical,     \* the paths that may name a member of an archive
  MetadataPath,  \* platform-bundle.json
  Observability, \* the path of the generated document of dashboards
  Torn,          \* a file or directory that is there in part
  None

MinimumMemory    == 256
MaxMember        == 5
MaxTotal         == 10
MaxDashboards    == 20
MaxDocument      == 4
AllowedSources   == {"prometheus", "loki", "built-in"}

-----------------------------------------------------------------------------
(* The manifest *)

OwnerOf(m, d) == IF d.service = None THEN m.web ELSE d.service

UniqueHosts(m) ==
  \A i, j \in DOMAIN m.domains : i # j => m.domains[i].host # m.domains[j].host

WebDomainPresent(m) == \E d \in ToSet(m.domains) : OwnerOf(m, d) = m.web

(* Buffers at most half of the memory. *)
DatabaseResources(m) ==
  /\ m.memory # None => m.memory >= MinimumMemory
  /\ m.memory # None /\ m.buffers # None => m.buffers * 2 <= m.memory

NoDatabase(m) == m.mode = "none" => ~m.restoreValidation

(* The path the proxy never serves, when it is served on the proxied port. *)
Guarded(m) == IF m.metrics # None /\ m.metrics.port = m.port THEN m.metrics.path ELSE None

AuthPaths(m) ==
  \A d \in ToSet(m.domains) :
    d.paths # {} =>
      /\ d.hostFits
      /\ Guarded(m) # None /\ OwnerOf(m, d) = m.web =>
           \A p \in d.paths : ~IsPrefix(Guarded(m), p)

Exports(m) ==
  m.exports # None =>
    /\ m.mode = "docker"
    /\ \A i, j \in DOMAIN m.exports : i # j => m.exports[i].name # m.exports[j].name
    /\ \A job \in ToSet(m.exports) : job.query

ValidManifest(m) ==
  /\ m.schema
  /\ UniqueHosts(m) /\ WebDomainPresent(m) /\ DatabaseResources(m)
  /\ NoDatabase(m) /\ AuthPaths(m) /\ Exports(m)

-----------------------------------------------------------------------------
(* The Compose file: a function from services to what they ask for.  The name of a      *)
(* network is "platform-edge", "PLATFORM_DB_NETWORK" or another.                        *)

AllowedImage(image) == image \in {"PLATFORM_IMAGE", "pinned"}

Joins(c, service, network) ==
  service \in DOMAIN c.services /\ network \in c.services[service].networks

ServiceAllowed(x) == ~x.build /\ ~x.ports /\ ~x.hostNetwork /\ AllowedImage(x.image)

WebService(m, c) ==
  /\ m.web \in DOMAIN c.services
  /\ c.services[m.web].image = "PLATFORM_IMAGE"
  /\ m.port \in c.services[m.web].expose
  /\ m.metrics # None => m.metrics.port \in c.services[m.web].expose
  /\ Joins(c, m.web, "edge")

DomainServices(m, c) == \A d \in ToSet(m.domains) : Joins(c, OwnerOf(m, d), "edge")

MigrationService(m, c) ==
  m.migration # None =>
    m.migration \in DOMAIN c.services /\ c.services[m.migration].image = "PLATFORM_IMAGE"

EdgeNetwork(c) ==
  /\ "edge" \in DOMAIN c.networks
  /\ c.networks["edge"] = [external |-> TRUE, name |-> "platform-edge"]

DatabaseNetwork(m, c) ==
  IF m.mode = "docker"
  THEN /\ "db" \in DOMAIN c.networks
       /\ c.networks["db"] = [external |-> TRUE, name |-> "PLATFORM_DB_NETWORK"]
       /\ \A s \in {m.web, m.migration} \cap DOMAIN c.services : Joins(c, s, "db")
  ELSE \A n \in DOMAIN c.networks : c.networks[n].name # "PLATFORM_DB_NETWORK"

ValidCompose(m, c) ==
  /\ c # None /\ DOMAIN c.services # {}
  /\ \A s \in DOMAIN c.services : ServiceAllowed(c.services[s])
  /\ WebService(m, c) /\ DomainServices(m, c) /\ MigrationService(m, c)
  /\ EdgeNetwork(c) /\ DatabaseNetwork(m, c)

-----------------------------------------------------------------------------
(* Secrets and dashboards *)

ValidSecrets(s, minimum) ==
  /\ s # None /\ s.sops /\ s.mac
  /\ s.recipients # {} /\ Cardinality(s.recipients) >= minimum

ValidDashboard(x) ==
  x.name /\ x.title /\ x.panels /\ ~x.shared /\ x.fits /\ x.sources \subseteq AllowedSources

(* document_errors, which the build and the host share. *)
ValidDocument(doc) ==
  /\ doc # None /\ doc.dashboards # {}
  /\ Cardinality(doc.dashboards) <= MaxDashboards
  /\ \A x \in doc.dashboards : ValidDashboard(x)

-----------------------------------------------------------------------------
(* A bundle: what platform-bundle.json says, with the path, the declared digest and the *)
(* content of each file, where observability is there if dashboards are.                *)

FileNames(m) == {"manifest", "compose", "secrets"}
                \cup (IF m.dashboards = None THEN {} ELSE {"observability"})

(* collect_document: a directory of dashboards, folded into one document. *)
CollectDocument(doc) == ValidDocument(doc) /\ doc.size <= MaxDocument

Canonically(b)   == \A f \in DOMAIN b.files : b.files[f].path \in Canonical
WithinLimits(b)  ==
  /\ \A f \in DOMAIN b.files : b.files[f].content.size <= MaxMember
  /\ MapThenSumSet(LAMBDA f : b.files[f].content.size, DOMAIN b.files) <= MaxTotal
DistinctPaths(b) ==
  /\ \A f, g \in DOMAIN b.files : f # g => b.files[f].path # b.files[g].path
  /\ \A f \in DOMAIN b.files : b.files[f].path # MetadataPath

(* read_archive_members: what can be told before any document is read. *)
SafeArchive(b) == b \notin {None, Torn} /\ Canonically(b) /\ WithinLimits(b)

DigestsMatch(b) == \A f \in DOMAIN b.files : b.files[f].sha = b.files[f].content

(* validate_embedded_contract *)
EmbeddedContract(b, minimum) ==
  LET m == b.files["manifest"].content
  IN  /\ ValidManifest(m)
      /\ b.project = m.project /\ b.environment = m.environment
      /\ b.files["compose"].path = m.compose /\ b.files["secrets"].path = m.secrets
      /\ ValidCompose(m, b.files["compose"].content)
      /\ ValidSecrets(b.files["secrets"].content, minimum)
      /\ DOMAIN b.files = FileNames(m)
      /\ m.dashboards # None => /\ b.files["observability"].path = Observability
                                /\ ValidDocument(b.files["observability"].content)

(* verify_bundle, on the bytes read once. *)
Verified(b, minimum) ==
  SafeArchive(b) /\ DistinctPaths(b) /\ DigestsMatch(b) /\ EmbeddedContract(b, minimum)

=============================================================================
