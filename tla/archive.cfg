CONSTANTS
    Delivery = {d1, d2}
    Concurrent = {d1}
    FileKind = {"create", "delete"}
    Job = {j1, j2}
    Days = 2
    Request = {r1, r2}
    Kind = {"create", "delete", "register", "web", "batch", "api"}
    Owner = owner
    Super = super
    Anonymous = anonymous
    Visitor = {owner, super, anonymous}
    Fault = {"disk", "restart"}
    Nobody = nobody
SPECIFICATION MCSpec
SYMMETRY Symmetry
INVARIANTS SubmittedIsArchived FileIsTrue
PROPERTIES ArchiveIsFinal AloneJobsAreSpared
