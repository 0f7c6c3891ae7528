\* None of these holds; leave the one to look at.
CONSTANTS
    Delivery = {d1, d2}
    Concurrent = {d1, d2}
    FileKind = {"create", "delete"}
    Job = {j1}
    Days = 1
    Request = {r1, r2}
    Kind = {"create", "delete", "web"}
    Owner = owner
    Super = super
    Anonymous = anonymous
    Visitor = {owner, super}
    Fault = {}
    Nobody = nobody
SPECIFICATION MCSpec
SYMMETRY Symmetry
INVARIANTS DeletedHasNoJob ArchivedAsChecked LivingHasFile DeletedFileIsGone FileIsOneUpload
PROPERTIES SubmittedStays DeletedStays
