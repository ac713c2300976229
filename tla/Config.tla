------------------------------- MODULE Config -------------------------------
(***************************************************************************)
(* The config file: config/mod.rs, with RouterConfig::default of           *)
(* delivery/mod.rs. What a file says is a record                           *)
(*   readable, toml   whether it can be read, and is TOML with known keys  *)
(*                    and values of their types                            *)
(*   server, admin    the keys it sets in [server] and [admin]             *)
(*   routes           the rows of [[routes]]                               *)
(* A URL path is a record too: its text up to a `?`, the two things told   *)
(* apart about its characters, and whether a `?` and a query follow.       *)
(***************************************************************************)
EXTENDS Routing

Limit(field, min, max) == [field |-> field, min |-> min, max |-> max]

\* RawServer::validate: the range of each number, in the order they are checked.
Ranges ==
    << Limit("max_connections", 1, 1000000),
       Limit("client_hello_timeout_ms", 1, 3600000),
       Limit("lookup_timeout_ms", 1, 3600000),
       Limit("upstream_timeout_ms", 1, 3600000),
       Limit("idle_timeout_secs", 0, 30 * 24 * 3600),
       Limit("shutdown_grace_secs", 0, 3600),
       Limit("max_client_hello_bytes", 1024, 65536),
       Limit("max_client_hello_records", 1, 256),
       Limit("dns_cache_ttl_secs", 0, 24 * 3600),
       Limit("max_concurrent_dns_lookups", 1, 256),
       Limit("copy_buffer_bytes", 1024, 1024 * 1024) >>

\* RouterConfig::default, in the units of the file.
DefaultRouter ==
    [max_connections |-> 10000,
     client_hello_timeout_ms |-> 5000,
     lookup_timeout_ms |-> 2000,
     upstream_timeout_ms |-> 5000,
     idle_timeout_secs |-> 1800,
     shutdown_grace_secs |-> 30,
     max_client_hello_bytes |-> 32768,
     max_client_hello_records |-> 32,
     dns_cache_ttl_secs |-> 30,
     max_concurrent_dns_lookups |-> 64,
     copy_buffer_bytes |-> 32768]

\* RawServer::default.
DefaultServer == [listen |-> <<"0.0.0.0:8080">>] @@ DefaultRouter

\* Paths with neither fault and no query.
Path(text) == [text |-> text, rooted |-> TRUE, spaced |-> FALSE, query |-> FALSE]
MetricsPath == Path("/metrics")

\* RawAdmin::default.
DefaultAdmin == [listen |-> "127.0.0.1:8081", health_path |-> Path("/health")]

\* Keys the file leaves out have their defaults.
Server(file) == file.server @@ DefaultServer
Admin(file) == file.admin @@ DefaultAdmin

\* Mutant: the upper bound is off by one.
InRangeWide(value, r) == value >= r.min /\ value <= r.max + 1

InRange(value, r) == value >= r.min /\ value <= r.max

ServerError(server) ==
    FirstError(<<Check(server.listen # <<>>, "NoListenAddresses"),
                 Check(IsInjective(server.listen), "DuplicateListenAddress")>>
               \o [i \in DOMAIN Ranges |->
                      Check(InRange(server[Ranges[i].field], Ranges[i]), "OutOfRange")])

AdminError(admin) ==
    Check(admin.health_path.rooted /\ admin.health_path # MetricsPath
              /\ ~admin.health_path.spaced, "InvalidHealthPath")

\* Mutant: a reload looks at the routes alone.
LoadErrorInRoutes(file) == TableError(file.routes)

\* AppConfig::load: the first thing wrong with the file, if any.
LoadError(file) ==
    FirstError(<<Check(file.readable, "Read"),
                 Check(file.toml, "Parse"),
                 ServerError(Server(file)),
                 AdminError(Admin(file)),
                 TableError(file.routes)>>)

\* The settings that validate returns: an idle timeout of 0 is none.
NoTimeout == -1
Settings(file) ==
    [server |-> [Server(file) EXCEPT !.idle_timeout_secs = IF @ > 0 THEN @ ELSE NoTimeout],
     admin |-> Admin(file)]
=============================================================================
