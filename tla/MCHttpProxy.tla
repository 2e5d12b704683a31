---------------------------- MODULE MCHttpProxy ----------------------------
(* Small instances of HttpProxy for TLC. *)
EXTENDS HttpProxy, TLC
CONSTANTS t1, t2, api, fw, temp, missing

Entry(us, b) == [matches |-> us, behaviour |-> b]

\* PROXY_URL_BEHAVIOUR for the box's own API, the firmware version, the
\* outside temperature; the entry that __init__ adds when a location is
\* configured has a key of its own and comes last.
DefaultTable  == << Entry({api}, "ONLY_LOCAL"), Entry({fw}, "LOCAL_FIRST"),
                    Entry({temp}, "REMOTE_FIRST") >>
LocationTable == Append(DefaultTable, Entry({temp}, "LOCAL_FIRST"))

\* The theorem RightSideAlways is about tables such as these: the app has a route
\* for the firmware version (restapi.py:94) and for the temperature, which it
\* asks the weather service for.
ASSUME MCHttpProxyAssumption == TableFits

=============================================================================
