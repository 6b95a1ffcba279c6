SPECIFICATION TagsSpec
CONSTANTS
    TagId = {1, 2}
    TagName = {n1, n2, n3}
    TagSlug = {s1, s2}
    TaggedArticle = {a1, a2}
    Nothing = nothing
    MaxSelection = 1
    MaxRenames = 1
INVARIANT DraftsArePublishable
