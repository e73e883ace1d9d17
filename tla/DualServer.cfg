\* Two servers, one job number; the ownership moves by the file, and in half
\* of the behaviours by the dashboards too.
CONSTANTS
  ServerCount = 2
  Ids = {1}
SPECIFICATION Spec
INVARIANT AtMostOneOwner
PROPERTY ExecutionsStayHome
